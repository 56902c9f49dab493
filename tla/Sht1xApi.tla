------------------------------- MODULE Sht1xApi ------------------------------
(***************************************************************************)
(* What src/src/sht1x.h offers the tasks that call it: one sensor with one *)
(* register, one call at a time on it, and a result that can be believed.  *)
(* Sht1x implements this module (Implements there).                        *)
(*                                                                         *)
(* A call waits for its turn, may change the sensor's register, and ends   *)
(* with a result and with the driver's copy of the register and the seed   *)
(* of its checksums updated.  How commands, acknowledges, bits and         *)
(* interrupts bring that about is not seen here.                           *)
(***************************************************************************)
EXTENDS Sht1xSensor

CONSTANTS Tasks, NoTask

VARIABLES
  call,      \* per task: [op, arg] of the call it is in
  ret,       \* per task: the result of its last call, or of this one so far
  turn,      \* the task whose call has the sensor
  register,  \* the sensor's register
  status,    \* the driver's copy of it
  seed       \* the register that the driver's checksums start with

vars == <<call, ret, turn, register, status, seed>>

Idle == [op |-> "none", arg |-> {}]

Writers == {"status_write", "software_reset"}

Readers == Operations \ Writers

\* The errors a function may end with; a timeout of the measurement is not
\* among them.
Failures(op) ==
  {"NO_CMD_ACK", "BUSY"} \cup
    (IF op \in Readers THEN {"INVALID_CRC"}
     ELSE IF op = "status_write" THEN {"NO_PAYLOAD_ACK"} ELSE {})

Init ==
  /\ call = [t \in Tasks |-> Idle]
  /\ ret = [t \in Tasks |-> "UNKNOWN"]
  /\ turn = NoTask
  /\ register = {}
  /\ status = {}
  /\ seed = {}

-----------------------------------------------------------------------------
(* A call *)

Call(t) ==
  /\ call[t] = Idle
  /\ \E op \in Operations, arg \in SUBSET Flags :
       /\ op = "status_write" \/ arg = {}
       /\ call' = [call EXCEPT ![t] = [op |-> op, arg |-> arg]]
  /\ ret' = [ret EXCEPT ![t] = "BUSY"]
  /\ UNCHANGED <<turn, register, status, seed>>

Begin(t) ==
  /\ call[t] # Idle
  /\ ret[t] = "BUSY"
  /\ turn = NoTask
  /\ turn' = t
  /\ UNCHANGED <<call, ret, register, status, seed>>

\* What a call writes: its argument (a reset's is empty) without the flags that
\* cannot be written.
Written(t) == call[t].arg \cap SREG_bm

\* The sensor takes over what the call that has its turn writes.
Write(t) ==
  /\ turn = t
  /\ call[t].op \in Writers
  /\ register' = Written(t)
  /\ UNCHANGED <<call, ret, turn, status, seed>>

-----------------------------------------------------------------------------
(* Its end *)

Leave(t, result) ==
  /\ turn = t
  /\ turn' = NoTask
  /\ call' = [call EXCEPT ![t] = Idle]
  /\ ret' = [ret EXCEPT ![t] = result]
  /\ UNCHANGED register

\* An answer is accepted with the sensor's own seed only.
EndRead(t) ==
  /\ call[t].op = "status_read"
  /\ seed = register
  /\ Leave(t, "OK")
  /\ status' = register
  /\ seed' = register

\* A measurement's turn is over before its result is converted.
EndMeasurement(t) ==
  /\ turn = t
  /\ call[t].op \in Measurements
  /\ seed = register
  /\ turn' = NoTask
  /\ ret' = [ret EXCEPT ![t] = "OK"]
  /\ UNCHANGED <<call, register, status, seed>>

Convert(t) ==
  /\ turn # t
  /\ call[t].op \in Measurements
  /\ ret[t] = "OK"
  /\ call' = [call EXCEPT ![t] = Idle]
  /\ UNCHANGED <<ret, turn, register, status, seed>>

\* The driver's settings get the flags that cannot be written, too.
Believe(t) == status' = call[t].arg /\ seed' = call[t].arg

EndWrite(t) ==
  /\ call[t].op \in Writers
  /\ register = Written(t)
  /\ Leave(t, "OK")
  /\ Believe(t)

\* A write or reset that was not acknowledged is believed all the same.
Fail(t) ==
  /\ \E result \in Failures(call[t].op) :
       /\ Leave(t, result)
       /\ IF call[t].op \in Writers /\ result # "BUSY"
          THEN Believe(t)
          ELSE UNCHANGED <<status, seed>>

\* The turn does not come in portMAX_DELAY ticks.
GiveUp(t) ==
  /\ call[t] # Idle
  /\ ret[t] = "BUSY"
  /\ turn \notin {t, NoTask}
  /\ call' = [call EXCEPT ![t] = Idle]
  /\ UNCHANGED <<ret, turn, register, status, seed>>

Next ==
  \E t \in Tasks :
    \/ Call(t) \/ Begin(t) \/ Write(t)
    \/ EndRead(t) \/ EndMeasurement(t) \/ Convert(t) \/ EndWrite(t)
    \/ Fail(t) \/ GiveUp(t)

Spec == Init /\ [][Next]_vars
=============================================================================
