----------------------------- MODULE Sht1xProof -----------------------------
(***************************************************************************)
(* Proofs about Sht1x for every set of tasks, of API calls and of register *)
(* values: its types, the exclusion of the tasks and that a waiting task   *)
(* is not forgotten; and that the token of a transmission comes after its  *)
(* last interrupt, QuietBetweenTransactions as long as uDMA transfers      *)
(* complete, and what is left of it when they may fail.                    *)
(*                                                                         *)
(* On top of these, that the driver implements its interface, also with    *)
(* failing transfers and with sensors that miss patterns: Implements.      *)
(***************************************************************************)
EXTENDS Sht1x, TLAPS

-----------------------------------------------------------------------------
(* The transition table *)

\* The names of the rows' steps, spelled out.
LEMMA StepNames ==
  Steps = {"END", "FAIL", "FIN", "ACK", "ACKC", "ACKE", "WAIT_READY", "DATA",
           "DATAC", "BYTE_ACKS", "BYTE_ACK", "BYTE_ACKC", "CRC", "CRCC",
           "CRC_ACKS", "CRC_ACK", "CRC_ACKC", "PAYLOAD", "PAYLOAD_FIN",
           "PAYLOAD_ACK", "PAYLOAD_ACKC", "PAYLOAD_ACKE"}
BY DEF Steps, StepOutput

\* Steps with a fixed successor, spelled out.
LEMMA StraightTyped ==
  /\ DOMAIN Straight = {"FIN", "ACK", "ACKC", "DATA", "BYTE_ACKS", "BYTE_ACK", "CRC",
                        "CRC_ACKS", "CRC_ACK", "PAYLOAD", "PAYLOAD_FIN",
                        "PAYLOAD_ACK", "PAYLOAD_ACKC"}
  /\ \A step \in DOMAIN Straight : Straight[step] \in Steps
BY StepNames DEF Straight

\* The table never leads to a row outside of it: sht1x_process() indexes
\* states[] with next_state[input] and does not check the bound.
LEMMA NextStateTyped ==
  ASSUME NEW s \in States, NEW input \in {0, 1}
  PROVE  NextState(s, input) \in States
<1> USE StepNames
<1>1. FAIL \in States /\ END \in States
  BY DEF FAIL, END, Row, States, Seqs
<1>2. CASE s.step \in DOMAIN Straight
  <2>1. Straight[s.step] \in Steps
    BY <1>2, StraightTyped
  <2>2. [s EXCEPT !.step = Straight[s.step]] \in States
    BY <2>1 DEF States
  <2>3. s.step \notin {"ACKE", "WAIT_READY", "DATAC", "BYTE_ACKC", "CRCC", "FAIL"}
    BY <1>2, StraightTyped
  <2>4. Follow(s) = [s EXCEPT !.step = Straight[s.step]]
    BY <1>2, <2>3 DEF Follow
  <2> QED
    BY <1>1, <2>2, <2>4 DEF NextState
<1>3. AfterCommand[s.seq] \in States
  BY <1>1 DEF AfterCommand, States, Seqs, Row
<1>4. AfterDataBit(s) \in States
  BY DEF AfterDataBit, States, Row
<1>5. AfterByteAck(s) \in States
  BY DEF AfterByteAck, States, Row
<1>6. AfterCrcBit(s) \in States
  BY DEF AfterCrcBit, States, Row
<1>7. Row(s.seq, "DATA", 15) \in States
  BY DEF Row, States
<1>8. CASE s.step \notin DOMAIN Straight
  <2>1. Follow(s) \in States
    BY <1>1, <1>3, <1>4, <1>5, <1>6, <1>7, <1>8 DEF Follow
  <2> QED
    BY <1>1, <2>1 DEF NextState
<1> QED
  BY <1>2, <1>8

\* What a row reports is an error code.
LEMMA NextErrorTyped ==
  ASSUME NEW s, NEW input
  PROVE  NextError(s, input) \in Errors
BY DEF NextError, Errors

-----------------------------------------------------------------------------
(* The sensor *)

\* A falling clock leaves the sensor with its type.
LEMMA SensorFallsTyped ==
  ASSUME NEW s \in SensorStates, NEW level \in {0, 1}, NEW value \in SUBSET Flags
  PROVE  SensorFalls(s, level, value) \in SensorStates
<1>1. EndAck(s) \in SensorStates
  <2>1. AfterAck[s.cmd] \in SensorPhases
    BY DEF AfterAck, SensorStates, SensorPhases, Operations, Measurements
  <2>2. CASE s.cmd = "software_reset"
    BY <2>1, <2>2 DEF EndAck, SensorStates
  <2>3. CASE s.cmd # "software_reset"
    BY <2>1, <2>3 DEF EndAck, SensorStates
  <2> QED
    BY <2>2, <2>3
<1>2. EndBit(s) \in SensorStates
  <2>1. s.sent + 1 \in Nat /\ {"byteack", "send"} \subseteq SensorPhases
    BY DEF SensorStates, SensorPhases
  <2>2. CASE s.sent \in {7, 15, 23}
    BY <2>1, <2>2 DEF EndBit, SensorStates
  <2>3. CASE s.sent \notin {7, 15, 23}
    BY <2>1, <2>3 DEF EndBit, SensorStates
  <2> QED
    BY <2>2, <2>3
<1> QED
  BY <1>1, <1>2 DEF SensorFalls, SensorStates, SensorPhases

\* So does a command's pattern, heard or not.
LEMMA SensorHearsTyped ==
  ASSUME NEW s \in SensorStates, NEW op \in Operations, NEW heard \in BOOLEAN
  PROVE  /\ SensorHears(s, op, heard) \in SensorStates
         /\ SensorHearsPayload(s, heard) \in SensorStates
BY DEF SensorHears, SensorHearsPayload, SensorStates, SensorPhases

\* The data line is low or high.
LEMMA LineTyped ==
  ASSUME NEW s \in SensorStates, NEW level
  PROVE  DataLevels(s, level) \subseteq {0, 1} /\ BitOnLine(s) \in Nat
BY DEF DataLevels, BitOnLine, SensorStates

\* A shift keeps a register's width.
LEMMA ShiftInTyped ==
  ASSUME NEW width \in Nat, NEW reg \in Register(width), NEW bit \in Nat
  PROVE  ShiftIn(reg, width, bit) \in Register(width)
BY DEF Register, ShiftIn

-----------------------------------------------------------------------------
(* Type correctness *)

\* Every variable has its type at reset.
LEMMA InitTyped == Init => TypeOK
<1> SUFFICES ASSUME Init PROVE TypeOK
  OBVIOUS
<1>1. state \in States
  BY StepNames DEF Init, END, Row, States, Seqs
<1>2. sensor \in SensorStates /\ cmd \in Operations
  BY DEF Init, SensorStates, SensorPhases, Operations
<1>3. data \in Register(16) /\ crc \in Register(8)
  BY DEF Init, Register
<1>4. call \in [Tasks -> Calls] /\ ret \in [Tasks -> Errors]
  BY DEF Init, Calls, Errors
<1> QED
  BY <1>1, <1>2, <1>3, <1>4 DEF Init, TypeOK, Errors

\* Each API step keeps the types.
LEMMA TaskStepTyped ==
  ASSUME TypeOK, NEW t \in Tasks, TaskStep(t)
  PROVE  TypeOK'
<1> USE DEF TypeOK, vars, taskVars, rtosVars, deviceVars, settingVars, bufferVars,
        sourceVars, pinVars, Goto
<1>0. Idle \in Calls /\ "BUSY" \in Errors /\ "OK" \in Errors
      /\ "INVALID_CRC" \in Errors
  BY DEF Calls, Errors
<1>1. CASE TakeLock(t)
  BY <1>1 DEF TakeLock
<1>2. CASE LockTimeout(t)
  BY <1>0, <1>2 DEF LockTimeout, Return
<1>3. CASE Start(t)
  <2>1. ASSUME NEW seq \in Seqs, Prepare(t, seq), call[t].op \in Operations,
               timer' \in SUBSET {"EN", "IM", "RIS"}, payload' \in SUBSET Flags
        PROVE  TypeOK'
    <3>1. state' \in States
      BY <2>1, StepNames DEF Prepare, Row, States
    <3>2. data' \in Register(16) /\ crc' \in Register(8)
      BY <2>1 DEF Prepare, Register
    <3> QED
      BY <2>1, <3>1, <3>2 DEF Prepare, Facts, Errors
  <2>2. CASE SensorReadStart(t)
    BY <2>1, <2>2 DEF SensorReadStart, Seqs, Operations
  <2>3. CASE StatusWriteStart(t)
    BY <2>1, <2>3 DEF StatusWriteStart, Seqs, Operations, SREG_bm, Flags
  <2>4. CASE StatusReadStart(t)
    BY <2>1, <2>4 DEF StatusReadStart, Seqs, Operations
  <2>5. CASE SoftwareResetStart(t)
    BY <2>1, <2>5 DEF SoftwareResetStart, Seqs, Operations
  <2> QED
    BY <1>3, <2>2, <2>3, <2>4, <2>5 DEF Start
<1>4. CASE TakeSem(t)
  BY <1>4 DEF TakeSem
<1>5. CASE InterruptTimeout(t)
  BY <1>0, <1>5 DEF InterruptTimeout, Return
<1>6. CASE ReadResult(t)
  <2>0. sensor.status \in SUBSET Flags
    BY DEF SensorStates
  <2>1. CASE SensorReadFinish(t)
    BY <1>0, <2>0, <2>1 DEF SensorReadFinish, Finish, Return
  <2>2. CASE StatusWriteFinish(t)
    <3>1. call[t].arg \in SUBSET Flags
      BY DEF Calls, Idle
    <3> QED
      BY <1>0, <2>2, <3>1 DEF StatusWriteFinish, Finish, Return
  <2>3. CASE StatusReadFinish(t)
    BY <1>0, <2>0, <2>3 DEF StatusReadFinish, Finish, Return
  <2>4. CASE SoftwareResetFinish(t)
    BY <1>0, <2>4 DEF SoftwareResetFinish, Finish, Return
  <2> QED
    BY <1>6, <2>1, <2>2, <2>3, <2>4 DEF ReadResult
<1>7. CASE Convert(t)
  BY <1>0, <1>7 DEF Convert, Return
<1> QED
  BY <1>1, <1>2, <1>3, <1>4, <1>5, <1>6, <1>7 DEF TaskStep

\* The peripherals and the sensor keep the types.
LEMMA HardwareTyped ==
  ASSUME TypeOK, TimerTick \/ DmaDone \/ DmaError \/ SensorReady
  PROVE  TypeOK'
<1> USE DEF TypeOK, vars, taskVars, rtosVars, deviceVars, settingVars, bufferVars,
        sourceVars, pinVars
<1>1. CASE TimerTick
  BY <1>1 DEF TimerTick, Facts
<1>2. CASE DmaDone
  <2>1. PICK heard \in Hearing :
          \/ sensor' = SensorHears(sensor, cmd, heard)
          \/ sensor' = SensorHearsPayload(sensor, heard)
    BY <1>2 DEF DmaDone
  <2>2. heard \in BOOLEAN
    BY HearingAssumption
  <2>3. sensor' \in SensorStates
    BY <2>1, <2>2, SensorHearsTyped
  <2>4. fact' \in SUBSET Facts
    BY <1>2 DEF DmaDone, Facts
  <2>5. dout' \in 0..1
    BY <1>2 DEF DmaDone, LastBit
  <2> QED
    BY <1>2, <2>3, <2>4, <2>5 DEF DmaDone
<1>3. CASE DmaError
  <2>1. sensor' \in SensorStates
    BY <1>3 DEF DmaError, SensorStates, SensorPhases
  <2> QED
    BY <1>3, <2>1 DEF DmaError, Facts
<1>4. CASE SensorReady
  <2>1. sensor' \in SensorStates
    BY <1>4 DEF SensorReady, SensorStates, SensorPhases
  <2> QED
    BY <1>4, <2>1 DEF SensorReady
<1> QED
  BY <1>1, <1>2, <1>3, <1>4

\* What every arm of sht1x_process() has in common.
LEMMA ProcessTyped ==
  ASSUME TypeOK, NEW outputs, Process(outputs)
  PROVE  /\ state' \in States /\ error' \in Errors
         /\ pc' \in [Tasks -> {"idle", "lock", "start", "wait", "finish", "convert"}]
         /\ call' \in [Tasks -> Calls] /\ ret' \in [Tasks -> Errors]
         /\ taken' \in [Tasks -> SUBSET Flags] /\ lock' \in Tasks \cup {NoTask}
         /\ status' \in SUBSET Flags /\ crcInit' \in SUBSET Flags
         /\ cmd' \in Operations /\ payload' \in SUBSET Flags
<1>1. PICK input \in DataLevels(sensor, dout) :
        state' = NextState(state, input) /\ error' = NextError(state, input)
  BY DEF Process
<1>2. input \in {0, 1}
  BY LineTyped DEF TypeOK
<1> QED
  BY <1>1, <1>2, NextStateTyped, NextErrorTyped
  DEF TypeOK, Process, taskVars, settingVars, bufferVars

\* A write of the clock pin keeps the types.
LEMMA ClockTyped ==
  ASSUME TypeOK, ClockLow
  PROVE  clk' \in 0..1 /\ sensor' \in SensorStates
<1>1. dout \in {0, 1} /\ payload \in SUBSET Flags
  BY DEF TypeOK
<1>2. SensorFalls(sensor, dout, payload) \in SensorStates
  BY <1>1, SensorFallsTyped DEF TypeOK
<1> QED
  BY <1>2 DEF TypeOK, ClockLow

\* An edge of the data line keeps the types.
LEMMA DataTyped ==
  ASSUME TypeOK, DataMayFall(GpioMask)
  PROVE  gpio' \in SUBSET {"IM", "RIS"} /\ pend' \in SUBSET {"timer", "gpio"}
BY DEF TypeOK, DataMayFall, GpioMask

\* The handlers keep the types.
LEMMA IsrTyped ==
  ASSUME TypeOK, Isr
  PROVE  TypeOK'
<1> USE DEF vars, taskVars, rtosVars, deviceVars, settingVars, bufferVars,
        sourceVars, pinVars
<1>0. /\ BitOnLine(sensor) \in Nat
      /\ ShiftIn(data, 16, BitOnLine(sensor)) \in Register(16)
      /\ ShiftIn(crc, 8, BitOnLine(sensor)) \in Register(8)
  BY LineTyped, ShiftInTyped DEF TypeOK
<1>1. CASE TimerIsr
  BY <1>1 DEF TypeOK, TimerIsr
<1>2. CASE GpioIsr
  BY <1>2 DEF TypeOK, GpioIsr
<1>3. CASE ProcessTimerEnable
  BY <1>3, ProcessTyped DEF TypeOK, ProcessTimerEnable, Continue
<1>4. CASE ProcessPayload
  BY <1>4, ProcessTyped DEF TypeOK, ProcessPayload, Continue
<1>5. CASE ProcessCrcFallingEdge
  BY <1>0, <1>5, ProcessTyped, ClockTyped, DataTyped DEF TypeOK, ProcessCrcFallingEdge, Continue
<1>6. CASE ProcessDataFallingEdge
  BY <1>0, <1>6, ProcessTyped, ClockTyped, DataTyped DEF TypeOK, ProcessDataFallingEdge, Continue
<1>7. CASE ProcessRisingEdge
  BY <1>7, ProcessTyped DEF TypeOK, ProcessRisingEdge, Continue, ClockHigh
<1>8. CASE ProcessInputAckStart
  BY <1>0, <1>8, ProcessTyped, ClockTyped, DataTyped DEF TypeOK, ProcessInputAckStart, Continue
<1>9. CASE ProcessOutputAckFallingEdge
  BY <1>0, <1>9, ProcessTyped, ClockTyped, DataTyped DEF TypeOK, ProcessOutputAckFallingEdge, Continue
<1>10. CASE ProcessReleaseData
  BY <1>0, <1>10, ProcessTyped, ClockTyped, DataTyped DEF TypeOK, ProcessReleaseData, Continue
<1>11. CASE ProcessAckWait
  BY <1>0, <1>11, ProcessTyped, ClockTyped, DataTyped DEF TypeOK, ProcessAckWait, Continue
<1>12. CASE ProcessWaitReady
  BY <1>0, <1>12, ProcessTyped, ClockTyped, DataTyped DEF TypeOK, ProcessWaitReady, Continue, Facts
<1>13. ASSUME TransmissionDone
       PROVE  /\ sem' \in 0..1 /\ timer' \in SUBSET {"EN", "IM", "RIS"}
              /\ load' \in {"NR", "LO"} /\ gpio' \in SUBSET {"IM", "RIS"}
              /\ dma' \in {"off", "cmd", "payload"} /\ pend' \in SUBSET {"timer", "gpio"}
              /\ isr' \in {"none", "timer", "gpio", "fault"}
              /\ clk' \in 0..1 /\ dout' \in 0..1 /\ sensor' \in SensorStates
  <2>1. SensorFalls(sensor, 1, payload) \in SensorStates
    BY SensorFallsTyped DEF TypeOK
  <2> QED
    BY <1>13, <2>1 DEF TypeOK, TransmissionDone
<1>14. CASE ProcessDone
  BY <1>13, <1>14, ProcessTyped DEF TypeOK, ProcessDone
<1>15. CASE ProcessError
  BY <1>13, <1>15 DEF TypeOK, ProcessError
<1> QED
  BY <1>1, <1>2, <1>3, <1>4, <1>5, <1>6, <1>7, <1>8, <1>9, <1>10, <1>11, <1>12,
     <1>14, <1>15 DEF Isr

\* No step takes a variable's type away.
LEMMA NextTyped == TypeOK /\ [Next]_vars => TypeOK'
<1> SUFFICES ASSUME TypeOK, [Next]_vars PROVE TypeOK'
  OBVIOUS
<1>1. ASSUME NEW t \in Tasks, NEW op \in Ops, NEW arg \in StatusArgs \cup {{}},
             Call(t, op, arg)
      PROVE  TypeOK'
  <2>1. [op |-> op, arg |-> arg] \in Calls /\ "BUSY" \in Errors
    BY OpsAssumption, ArgsAssumption DEF Calls, Errors
  <2> QED
    BY <1>1, <2>1 DEF TypeOK, Call, Goto, rtosVars, deviceVars, settingVars,
       bufferVars, sourceVars, pinVars
<1>2. CASE UNCHANGED vars
  BY <1>2 DEF TypeOK, vars, taskVars, rtosVars, deviceVars, settingVars, bufferVars,
     sourceVars, pinVars
<1> QED
  BY <1>1, <1>2, TaskStepTyped, HardwareTyped, IsrTyped DEF Next, Transfer

\* Every variable keeps its type; above all no row outside of states[] is ever
\* reached.
THEOREM TypeCorrect == Spec => []TypeOK
<1> QED
  BY InitTyped, NextTyped, PTL DEF Spec

-----------------------------------------------------------------------------
(* One task at a time uses the device *)

\* Handlers and peripherals do not touch the mutex or the tasks.
LEMMA TasksUntouched ==
  ASSUME Isr \/ TimerTick \/ Transfer \/ SensorReady
  PROVE  UNCHANGED <<pc, call, lock>>
BY DEF Isr, TimerTick, Transfer, DmaDone, DmaError, SensorReady, TimerIsr, GpioIsr,
   ProcessTimerEnable, ProcessPayload, ProcessCrcFallingEdge, ProcessDataFallingEdge,
   ProcessRisingEdge, ProcessInputAckStart, ProcessOutputAckFallingEdge,
   ProcessReleaseData, ProcessAckWait, ProcessWaitReady, ProcessDone, ProcessError,
   Process, taskVars, rtosVars

\* The steps of a task's call as the mutex sees them: it is taken when free, kept
\* by its owner, given at the end, or left alone by a task without it.
LEMMA TaskStepLock ==
  ASSUME TypeOK, NEW t \in Tasks, TaskStep(t)
  PROVE  \/ pc[t] = "lock" /\ lock = NoTask /\ lock' = t /\ pc' = [pc EXCEPT ![t] = "start"]
         \/ pc[t] = "start" /\ lock' = lock /\ pc' = [pc EXCEPT ![t] = "wait"]
         \/ pc[t] = "wait" /\ lock' = lock /\ pc' = [pc EXCEPT ![t] = "finish"]
         \/ /\ pc[t] \in {"wait", "finish"} /\ lock' = NoTask
            /\ pc' = [pc EXCEPT ![t] = "idle"] \/ pc' = [pc EXCEPT ![t] = "convert"]
         \/ /\ pc[t] \in {"lock", "convert"} /\ lock' = lock
            /\ pc' = [pc EXCEPT ![t] = "idle"]
<1> USE DEF Goto, Return, rtosVars
<1>1. CASE TakeLock(t)
  BY <1>1 DEF TakeLock
<1>2. CASE LockTimeout(t)
  BY <1>2 DEF LockTimeout
<1>3. CASE Start(t)
  BY <1>3 DEF Start, SensorReadStart, StatusWriteStart, StatusReadStart,
     SoftwareResetStart, Prepare
<1>4. CASE TakeSem(t)
  BY <1>4 DEF TakeSem
<1>5. CASE InterruptTimeout(t)
  BY <1>5 DEF InterruptTimeout
<1>6. CASE ReadResult(t)
  BY <1>6 DEF ReadResult, SensorReadFinish, StatusWriteFinish, StatusReadFinish,
     SoftwareResetFinish, Finish
<1>7. CASE Convert(t)
  BY <1>7 DEF Convert
<1> QED
  BY <1>1, <1>2, <1>3, <1>4, <1>5, <1>6, <1>7 DEF TaskStep

\* No step lets a second task past device.lock.
LEMMA ExclusionStep ==
  TypeOK /\ MutualExclusion /\ [Next]_vars => MutualExclusion'
<1> SUFFICES ASSUME TypeOK, MutualExclusion, [Next]_vars PROVE MutualExclusion'
  OBVIOUS
<1>1. ASSUME NEW t \in Tasks, NEW op \in Ops, NEW arg \in StatusArgs \cup {{}},
             Call(t, op, arg)
      PROVE  MutualExclusion'
  BY <1>1 DEF Call, Goto, MutualExclusion, TypeOK, rtosVars
<1>2. ASSUME NEW t \in Tasks, TaskStep(t)
      PROVE  MutualExclusion'
  <2>1. NoTask # t
    BY TasksAssumption
  <2> QED
    BY <1>2, <2>1, TaskStepLock, TasksAssumption DEF MutualExclusion, TypeOK
<1>3. CASE Isr \/ TimerTick \/ Transfer \/ SensorReady
  BY <1>3, TasksUntouched DEF MutualExclusion
<1>4. CASE UNCHANGED vars
  BY <1>4 DEF vars, taskVars, rtosVars, MutualExclusion
<1> QED
  BY <1>1, <1>2, <1>3, <1>4 DEF Next

\* device.lock protects the buffers, the device's fields and the interrupt
\* semaphore, for any number of callers and although a call may give up.
THEOREM Exclusion == Spec => []MutualExclusion
<1>1. Init => MutualExclusion
  BY DEF Init, MutualExclusion
<1> QED
  BY <1>1, ExclusionStep, TypeCorrect, PTL DEF Spec

-----------------------------------------------------------------------------
(* A waiting task is not forgotten *)

\* The rows that expect the uDMA's completion follow from those that start a
\* transfer, and are left by the row that unmasks the timer.
LEMMA RowsAwaitingCompletion ==
  ASSUME NEW s \in States
  PROVE  /\ s.step \in {"FIN", "PAYLOAD_FIN"} => Output(s) = "TIMER_ENABLE"
         /\ Output(s) = "PAYLOAD" =>
              \A input \in {0, 1} : NextState(s, input).step = "PAYLOAD_FIN"
BY StepNames, StraightTyped
DEF Output, StepOutput, NextState, Refused, Follow, Straight, States

\* No handler leaves the transmission in progress without an interrupt to come.
LEMMA IsrArmed ==
  ASSUME TypeOK, InterruptComing, Isr
  PROVE  InterruptComing'
<1> USE DEF InterruptComing, CompletionAwaited
<1>1. CASE TimerIsr
  BY <1>1 DEF TimerIsr, rtosVars, deviceVars
<1>2. CASE GpioIsr
  BY <1>2 DEF GpioIsr, rtosVars, deviceVars
<1>3. CASE ProcessTimerEnable
  BY <1>3 DEF ProcessTimerEnable, Process
<1>4. CASE ProcessPayload
  <2>1. Output(state) = "PAYLOAD"
    BY <1>4 DEF ProcessPayload, Process
  <2>2. PICK input \in DataLevels(sensor, dout) : state' = NextState(state, input)
    BY <1>4 DEF ProcessPayload, Process
  <2>3. input \in {0, 1}
    BY <2>2, LineTyped DEF TypeOK
  <2>4. state'.step = "PAYLOAD_FIN"
    BY <2>1, <2>2, <2>3, RowsAwaitingCompletion DEF TypeOK
  <2> QED
    BY <1>4, <2>4 DEF ProcessPayload
<1>5. ASSUME NEW outputs, Process(outputs), "TIMER_ENABLE" \notin outputs,
             sem' = sem, timer' = timer
      PROVE  InterruptComing'
  <2>1. state.step \notin {"FIN", "PAYLOAD_FIN"}
    BY <1>5, RowsAwaitingCompletion DEF TypeOK, Process
  <2> QED
    BY <1>5, <2>1 DEF Process
<1>6. CASE ProcessCrcFallingEdge
  BY <1>5, <1>6 DEF ProcessCrcFallingEdge
<1>7. CASE ProcessDataFallingEdge
  BY <1>5, <1>7 DEF ProcessDataFallingEdge
<1>8. CASE ProcessRisingEdge
  BY <1>5, <1>8 DEF ProcessRisingEdge, sourceVars
<1>9. CASE ProcessInputAckStart
  BY <1>5, <1>9 DEF ProcessInputAckStart
<1>10. CASE ProcessOutputAckFallingEdge
  BY <1>5, <1>10 DEF ProcessOutputAckFallingEdge
<1>11. CASE ProcessReleaseData
  BY <1>5, <1>11 DEF ProcessReleaseData
<1>12. CASE ProcessAckWait
  BY <1>12 DEF ProcessAckWait
<1>13. CASE ProcessWaitReady
  BY <1>13 DEF ProcessWaitReady
<1>14. CASE ProcessDone \/ ProcessError
  BY <1>14 DEF ProcessDone, ProcessError, TransmissionDone
<1> QED
  BY <1>1, <1>2, <1>3, <1>4, <1>6, <1>7, <1>8, <1>9, <1>10, <1>11, <1>12, <1>13,
     <1>14 DEF Isr

\* Nor do the peripherals, unless a transfer ends in a bus error.
LEMMA HardwareArmed ==
  ASSUME TypeOK, InterruptComing, ~DmaError, TimerTick \/ Transfer \/ SensorReady
  PROVE  InterruptComing'
<1> USE DEF InterruptComing, CompletionAwaited
<1>1. CASE TimerTick
  BY <1>1 DEF TimerTick, rtosVars, deviceVars
<1>2. CASE DmaDone
  BY <1>2 DEF DmaDone, rtosVars, deviceVars
<1>3. CASE SensorReady
  BY <1>3 DEF SensorReady, rtosVars, deviceVars
<1> QED
  BY <1>1, <1>2, <1>3 DEF Transfer

\* A task that starts a transmission arms it; no other step of a task but the one
\* that takes the token disturbs it.
LEMMA TaskStepArmed ==
  ASSUME TypeOK, MutualExclusion, TransactionArmed, NEW t \in Tasks, TaskStep(t)
  PROVE  TransactionArmed'
<1> USE DEF Goto, Return, rtosVars, deviceVars, sourceVars
<1>1. CASE Start(t)
  <2>1. InterruptComing'
    BY <1>1 DEF Start, SensorReadStart, StatusWriteStart, StatusReadStart,
       SoftwareResetStart, Prepare, InterruptComing, CompletionAwaited, Row
  <2> QED
    BY <2>1 DEF TransactionArmed
<1>2. CASE TakeSem(t)
  <2>1. \A u \in Tasks : pc'[u] # "wait"
    BY <1>2 DEF TakeSem, MutualExclusion, TypeOK
  <2> QED
    BY <2>1 DEF TransactionArmed
<1>3. ASSUME UNCHANGED <<sem, isr, timer, state, dma, pend>>,
             \A u \in Tasks : pc'[u] = "wait" => pc[u] = "wait"
      PROVE  TransactionArmed'
  BY <1>3 DEF TransactionArmed, InterruptComing, CompletionAwaited
<1>4. CASE TakeLock(t)
  BY <1>3, <1>4 DEF TakeLock, TypeOK
<1>5. CASE LockTimeout(t)
  BY <1>3, <1>5 DEF LockTimeout, TypeOK
<1>6. CASE InterruptTimeout(t)
  BY <1>3, <1>6 DEF InterruptTimeout, TypeOK
<1>7. CASE ReadResult(t)
  BY <1>3, <1>7 DEF ReadResult, SensorReadFinish, StatusWriteFinish,
     StatusReadFinish, SoftwareResetFinish, Finish, TypeOK
<1>8. CASE Convert(t)
  BY <1>3, <1>8 DEF Convert, TypeOK
<1> QED
  BY <1>1, <1>2, <1>4, <1>5, <1>6, <1>7, <1>8 DEF TaskStep

\* No step forgets a waiting task, unless a transfer has failed.
LEMMA ArmedStep ==
  ASSUME ~DmaError, TypeOK, MutualExclusion, TransactionArmed, [Next]_vars
  PROVE  TransactionArmed'
<1>1. ASSUME NEW t \in Tasks, NEW op \in Ops, NEW arg \in StatusArgs \cup {{}},
             Call(t, op, arg)
      PROVE  TransactionArmed'
  BY <1>1 DEF Call, Goto, TransactionArmed, InterruptComing, CompletionAwaited,
     rtosVars, deviceVars, sourceVars, TypeOK
<1>2. CASE Isr \/ TimerTick \/ Transfer \/ SensorReady
  <2>1. pc' = pc
    BY <1>2, TasksUntouched
  <2>2. InterruptComing => InterruptComing'
    BY <1>2, IsrArmed, HardwareArmed
  <2> QED
    BY <2>1, <2>2 DEF TransactionArmed
<1>3. CASE UNCHANGED vars
  BY <1>3 DEF vars, taskVars, rtosVars, deviceVars, sourceVars, TransactionArmed,
     InterruptComing, CompletionAwaited
<1> QED
  BY <1>1, <1>2, <1>3, TaskStepArmed DEF Next

\* As long as uDMA transfers complete, a task that waits for the interrupt
\* semaphore has a token or an armed source of interrupts that leads to one.
THEOREM Armed == ASSUME ~DmaMayFail PROVE Spec => []TransactionArmed
<1>1. Init => TransactionArmed
  BY DEF Init, TransactionArmed
<1>2. TypeOK /\ MutualExclusion /\ TransactionArmed /\ [Next]_vars => TransactionArmed'
  BY ArmedStep DEF DmaError
<1> QED
  BY <1>1, <1>2, TypeCorrect, Exclusion, PTL DEF Spec

-----------------------------------------------------------------------------
(* Nothing is left behind: the invariant *)

\* The data pin's interrupt is unmasked for the wait alone, or until the error of
\* a command nobody acknowledged is dealt with; no sensor measures then.
EdgeAwaited ==
  "IM" \in gpio =>
    \/ state.step = "WAIT_READY"
    \/ isr = "fault" /\ sensor.phase # "measuring"

\* An edge that comes while the wait ends by the slow timer is the next handler's.
EdgePending ==
  "gpio" \in pend =>
    \/ state.step = "WAIT_READY"
    \/ state.step = "DATA" /\ isr = "none"

\* No handler walks the table while a pattern is shifted out.
TransferRuns ==
  dma # "off" =>
    /\ state.step = IF dma = "cmd" THEN "FIN" ELSE "PAYLOAD_FIN"
    /\ isr = "none"
    /\ "EN" \in timer /\ "RIS" \notin timer

\* Errors and ends of transmissions are at these rows only.
Ending ==
  /\ isr = "fault" => state.step = "FAIL"
  /\ sem = 1 => state.step \in {"END", "FAIL"}

\* Up to the row that samples the acknowledge the sensor does not measure.
Acknowledging ==
  /\ state.step \in {"FIN", "ACK"} /\ dma = "off" => sensor.phase \in {"heard", "idle"}
  /\ state.step \in {"ACKC", "ACKE"} => sensor.phase \in {"heard", "ack", "idle"}

TokenIsLast == sem = 1 => Silent /\ isr = "none"

\* Without a waiting task nothing interrupts: a timer that a call left running when
\* its wait was over is masked.
RestsUnused ==
  (\A t \in Tasks : pc[t] # "wait") =>
    /\ isr = "none" /\ pend = {} /\ sem = 0 /\ dma = "off"
    /\ "IM" \notin gpio
    /\ ~("EN" \in timer /\ "IM" \in timer)

QInv ==
  /\ TokenIsLast
  /\ RestsUnused
  /\ EdgeAwaited
  /\ EdgePending
  /\ TransferRuns
  /\ Ending
  /\ Acknowledging

-----------------------------------------------------------------------------
(* The table *)

\* Which rows lead to a command's acknowledge, and what the rows put out.
LEMMA RowOrder ==
  ASSUME NEW s \in States, NEW input \in {0, 1}
  PROVE  LET n == NextState(s, input)
         IN /\ n.step # "FIN"
            /\ n.step = "ACK" => s.step = "FIN"
            /\ n.step = "ACKC" => s.step = "ACK"
            /\ n.step = "ACKE" => s.step = "ACKC"
            /\ s.step = "WAIT_READY" => n.step = "DATA"
            /\ s.step \in {"END", "FAIL"} => n.step \in {"END", "FAIL"}
            /\ s.step = "ACKE" /\ s.seq = "SENSOR" =>
                 n.step = IF input = 1 THEN "FAIL" ELSE "WAIT_READY"
            /\ NextError(s, input) # "OK" => n.step = "FAIL"
<1> USE StepNames, StraightTyped DEF States
<1>1. CASE Refused(s, input)
  BY <1>1 DEF NextState, Refused, FAIL, Row
<1>2. CASE ~Refused(s, input) /\ s.step \in DOMAIN Straight
  BY <1>2 DEF NextState, NextError, Follow, Straight
<1>3. CASE ~Refused(s, input) /\ s.step \notin DOMAIN Straight
  BY <1>3 DEF NextState, NextError, Refused, Follow, Row, FAIL, END, AfterCommand,
     AfterDataBit, AfterByteAck, AfterCrcBit, Seqs
<1> QED
  BY <1>1, <1>2, <1>3

\* Which rows end a transmission, wait or transfer.
LEMMA RowOutputs ==
  ASSUME NEW s \in States
  PROVE  /\ Output(s) = "DONE" <=> s.step \in {"END", "FAIL"}
         /\ Output(s) = "TIMER_ENABLE" <=> s.step \in {"FIN", "PAYLOAD_FIN"}
         /\ Output(s) = "WAIT_READY" <=> s.step = "WAIT_READY"
         /\ Output(s) = "OUTPUT_ACK_WAIT" <=> s.step = "ACKE" /\ s.seq = "SENSOR"
         /\ Output(s) = "PAYLOAD" <=> s.step = "PAYLOAD"
         /\ s.step = "ACK" => Output(s) = "OUTPUT_ACK_START"
         /\ s.step = "ACKC" => Output(s) = "OUTPUT_ACK_RISING_EDGE"
BY StepNames DEF States, Output, StepOutput

-----------------------------------------------------------------------------
(* The handlers *)

\* What holds whenever sht1x_process() runs: a task waits, its token is not given,
\* no pattern is on its way, and only a wait for the sensor has its interrupt.
LEMMA WhenProcessing ==
  ASSUME TypeOK, QInv, isr # "none"
  PROVE  /\ sem = 0 /\ dma = "off"
         /\ \E t \in Tasks : pc[t] = "wait"
         /\ "gpio" \in pend => state.step = "WAIT_READY"
         /\ isr # "fault" => ("IM" \in gpio => state.step = "WAIT_READY")
BY DEF TypeOK, QInv, TokenIsLast, RestsUnused, EdgeAwaited, EdgePending, TransferRuns

\* The rows before and after a step of sht1x_process().
LEMMA ProcessRow ==
  ASSUME TypeOK, NEW outputs, Process(outputs)
  PROVE  \E input \in {0, 1} :
           /\ input \in DataLevels(sensor, dout)
           /\ state' = NextState(state, input) /\ error' = NextError(state, input)
           /\ state \in States
           /\ isr \in {"timer", "gpio"} /\ Output(state) \in outputs
           /\ pc' = pc
BY LineTyped DEF Process, TypeOK, taskVars

\* An arm that leaves semaphore, uDMA and masks alone keeps the invariant, if it
\* keeps the sensor from measuring early.
LEMMA OrdinaryArm ==
  ASSUME TypeOK, QInv, NEW outputs, Process(outputs), "WAIT_READY" \notin outputs, Continue,
         sem' = sem, dma' = dma,
         "IM" \in gpio' => "IM" \in gpio,
         "gpio" \in pend' => "gpio" \in pend,
         Acknowledging'
  PROVE  QInv'
<1>1. PICK input \in {0, 1} :
        /\ state' = NextState(state, input) /\ error' = NextError(state, input)
        /\ state \in States
        /\ isr \in {"timer", "gpio"} /\ Output(state) \in outputs
        /\ pc' = pc
  BY ProcessRow
<1>2. state.step # "WAIT_READY"
  BY <1>1, RowOutputs
<1>3. /\ sem' = 0 /\ dma' = "off"
      /\ \E t \in Tasks : pc'[t] = "wait"
      /\ "gpio" \notin pend' /\ "IM" \notin gpio'
  BY <1>1, <1>2, WhenProcessing
<1>4. isr' = "fault" => state'.step = "FAIL"
  BY <1>1, RowOrder DEF Continue
<1> QED
  BY <1>3, <1>4 DEF QInv, TokenIsLast, RestsUnused, EdgeAwaited, EdgePending, TransferRuns,
     Ending

\* The clock does not fall on a row in front of an acknowledge but at ACK.
LEMMA RisingKeepsSensor ==
  ASSUME TypeOK, QInv, NEW outputs, Process(outputs), dma' = dma, sensor' = sensor,
         outputs \subseteq {"TIMER_ENABLE", "INPUT_ACK_START", "READ_RISING_EDGE",
                            "INPUT_ACK_RISING_EDGE", "OUTPUT_ACK_RISING_EDGE"}
  PROVE  Acknowledging'
<1>1. PICK input \in {0, 1} :
        /\ state' = NextState(state, input) /\ state \in States
        /\ isr \in {"timer", "gpio"} /\ Output(state) \in outputs
  BY ProcessRow
<1>2. dma = "off"
  BY <1>1, WhenProcessing
<1>3. state.step # "ACK"
  BY <1>1, RowOutputs
<1> QED
  BY <1>1, <1>2, <1>3, RowOrder DEF QInv, Acknowledging

\* A falling clock edge of a handler starts no measurement before the acknowledge is sampled.
LEMMA FallingKeepsSensor ==
  ASSUME TypeOK, QInv, NEW outputs, Process(outputs), dma' = dma, ClockLow,
         outputs \subseteq {"CRC_FALLING_EDGE", "DATA_FALLING_EDGE", "OUTPUT_ACK_FALLING_EDGE",
                            "INPUT_ACK_FALLING_EDGE", "OUTPUT_ACK_START"}
  PROVE  Acknowledging'
<1>1. PICK input \in {0, 1} :
        /\ state' = NextState(state, input) /\ state \in States
        /\ isr \in {"timer", "gpio"} /\ Output(state) \in outputs
  BY ProcessRow
<1>2. dma = "off"
  BY <1>1, WhenProcessing
<1>3. state.step \notin {"FIN", "ACKC"}
  BY <1>1, RowOutputs
<1>4. state'.step \notin {"FIN", "ACK", "ACKE"}
  BY <1>1, <1>3, RowOrder
<1>5. CASE state.step = "ACK"
  <2>1. sensor.phase \in {"heard", "idle"}
    BY <1>2, <1>5 DEF QInv, Acknowledging
  <2>2. sensor'.phase \in {"heard", "ack", "idle"}
    BY <2>1 DEF ClockLow, SensorFalls, TypeOK, SensorStates
  <2> QED
    BY <1>4, <2>2 DEF Acknowledging
<1>6. CASE state.step # "ACK"
  BY <1>1, <1>4, <1>6, RowOrder DEF Acknowledging
<1> QED
  BY <1>5, <1>6

\* A row's step to the wait for the sensor, or away from it when nobody answered.
LEMMA AckWaitQuiet ==
  ASSUME TypeOK, QInv, ProcessAckWait
  PROVE  QInv'
<1>1. PICK input \in {0, 1} :
        /\ input \in DataLevels(sensor, dout)
        /\ state' = NextState(state, input) /\ error' = NextError(state, input)
        /\ state \in States
        /\ isr \in {"timer", "gpio"} /\ Output(state) \in {"OUTPUT_ACK_WAIT"}
        /\ pc' = pc
  BY ProcessRow DEF ProcessAckWait
<1>2. state.step = "ACKE" /\ state'.step = IF input = 1 THEN "FAIL" ELSE "WAIT_READY"
  BY <1>1, RowOutputs, RowOrder
<1>3. /\ sem' = 0 /\ dma' = "off" /\ "gpio" \notin pend'
      /\ \E t \in Tasks : pc'[t] = "wait"
  BY <1>1, <1>2, WhenProcessing DEF ProcessAckWait
<1>4. isr' = "fault" <=> input = 1
  BY <1>1, <1>2 DEF ProcessAckWait, Continue, NextError, Refused, States
<1>5. CASE input = 1
  <2>1. sensor.phase \in {"heard", "idle"}
    BY <1>1, <1>2, <1>5 DEF QInv, Acknowledging, DataLevels
  <2>2. sensor'.phase # "measuring"
    BY <2>1 DEF ProcessAckWait, ClockLow, SensorFalls, TypeOK, SensorStates
  <2> QED
    BY <1>2, <1>3, <1>4, <1>5, <2>2 DEF QInv, TokenIsLast, RestsUnused, EdgeAwaited,
       EdgePending, TransferRuns, Ending, Acknowledging
<1>6. CASE input = 0
  BY <1>2, <1>3, <1>4, <1>6 DEF QInv, TokenIsLast, RestsUnused, EdgeAwaited, EdgePending,
     TransferRuns, Ending, Acknowledging
<1> QED
  BY <1>5, <1>6

\* The end of the wait for a measurement.
LEMMA WaitReadyQuiet ==
  ASSUME TypeOK, QInv, ProcessWaitReady
  PROVE  QInv'
<1>1. PICK input \in {0, 1} :
        /\ state' = NextState(state, input) /\ error' = NextError(state, input)
        /\ state \in States
        /\ isr \in {"timer", "gpio"} /\ Output(state) \in {"WAIT_READY"}
        /\ pc' = pc
  BY ProcessRow DEF ProcessWaitReady
<1>2. state'.step = "DATA"
  BY <1>1, RowOutputs, RowOrder
<1>3. isr' = "none"
  BY <1>1, <1>2, RowOrder DEF ProcessWaitReady, Continue
<1>4. sem' = 0 /\ dma' = "off" /\ \E t \in Tasks : pc'[t] = "wait"
  BY <1>1, WhenProcessing DEF ProcessWaitReady
<1>5. "IM" \notin gpio'
  BY DEF ProcessWaitReady
<1> QED
  BY <1>2, <1>3, <1>4, <1>5 DEF QInv, TokenIsLast, RestsUnused, EdgeAwaited, EdgePending,
     TransferRuns, Ending, Acknowledging

\* The start of the payload's transfer.
LEMMA PayloadQuiet ==
  ASSUME TypeOK, QInv, ProcessPayload
  PROVE  QInv'
<1>1. PICK input \in {0, 1} :
        /\ state' = NextState(state, input) /\ error' = NextError(state, input)
        /\ state \in States
        /\ isr \in {"timer", "gpio"} /\ Output(state) \in {"PAYLOAD"}
        /\ pc' = pc
  BY ProcessRow DEF ProcessPayload
<1>2. state.step = "PAYLOAD" /\ state'.step = "PAYLOAD_FIN"
  BY <1>1, RowOutputs, RowsAwaitingCompletion
<1>3. isr' = "none"
  BY <1>1, <1>2, RowOrder DEF ProcessPayload, Continue
<1>4. /\ sem' = 0 /\ "gpio" \notin pend' /\ "IM" \notin gpio'
      /\ \E t \in Tasks : pc'[t] = "wait"
  BY <1>1, <1>2, WhenProcessing DEF ProcessPayload
<1>5. timer' = {"EN"} /\ dma' = "payload"
  BY DEF ProcessPayload
<1> QED
  BY <1>2, <1>3, <1>4, <1>5 DEF QInv, TokenIsLast, RestsUnused, EdgeAwaited, EdgePending,
     TransferRuns, Ending, Acknowledging

\* The end of a transmission stops everything before it gives the token.
LEMMA DoneQuiet ==
  ASSUME TypeOK, QInv, TransmissionDone, isr # "none", state'.step \in {"END", "FAIL"},
         state.step \in {"END", "FAIL"}, pc' = pc
  PROVE  QInv'
<1>1. /\ dma' = "off" /\ "gpio" \notin pend' /\ "IM" \notin gpio'
      /\ \E t \in Tasks : pc'[t] = "wait"
  BY WhenProcessing DEF TransmissionDone
<1>2. Silent' /\ isr' = "none"
  BY <1>1 DEF TransmissionDone, Silent
<1> QED
  BY <1>1, <1>2 DEF QInv, TokenIsLast, RestsUnused, EdgeAwaited, EdgePending, TransferRuns,
     Ending, Acknowledging

\* Every handler's step keeps the invariant.
LEMMA IsrQuiet ==
  ASSUME TypeOK, QInv, Isr
  PROVE  QInv'
<1>1. CASE TimerIsr
  <2>1. /\ "gpio" \notin pend /\ pend' \subseteq pend /\ "timer" \in pend
        /\ timer' = timer \ {"RIS"} /\ isr = "none"
        /\ isr' = IF "RIS" \in timer THEN "timer" ELSE "none"
        /\ UNCHANGED <<pc, sem, state, gpio, dma, clk, dout, sensor>>
    BY <1>1 DEF TimerIsr, taskVars, rtosVars, deviceVars, pinVars
  <2> QED
    BY <2>1 DEF QInv, TokenIsLast, RestsUnused, Silent, EdgeAwaited, EdgePending,
       TransferRuns, Ending, Acknowledging
<1>2. CASE GpioIsr
  <2>1. /\ "gpio" \in pend /\ "gpio" \notin pend'
        /\ gpio' = gpio \ {"RIS"} /\ isr = "none"
        /\ isr' \in {"gpio", "none"}
        /\ UNCHANGED <<pc, sem, state, timer, dma, clk, dout, sensor>>
    BY <1>2 DEF GpioIsr, taskVars, rtosVars, deviceVars, pinVars
  <2>2. sem = 0 /\ dma = "off" /\ \E t \in Tasks : pc[t] = "wait"
    BY <2>1 DEF QInv, EdgePending, TransferRuns, Ending, RestsUnused, TypeOK
  <2> QED
    BY <2>1, <2>2 DEF QInv, TokenIsLast, RestsUnused, EdgeAwaited, EdgePending,
       TransferRuns, Ending, Acknowledging
<1>3. DataMayFall(GpioMask) /\ state.step # "WAIT_READY" /\ isr \in {"timer", "gpio"} =>
        ("IM" \in gpio' => "IM" \in gpio) /\ ("gpio" \in pend' => "gpio" \in pend)
  BY WhenProcessing DEF DataMayFall, GpioMask
<1>4. ASSUME NEW outputs, Process(outputs), "WAIT_READY" \notin outputs
      PROVE  state.step # "WAIT_READY" /\ isr \in {"timer", "gpio"}
  BY <1>4, RowOutputs DEF Process, TypeOK
<1>5. CASE ProcessTimerEnable
  BY <1>5, OrdinaryArm, RisingKeepsSensor DEF ProcessTimerEnable
<1>6. CASE ProcessPayload
  BY <1>6, PayloadQuiet
<1>7. CASE ProcessCrcFallingEdge
  BY <1>3, <1>4, <1>7, OrdinaryArm, FallingKeepsSensor DEF ProcessCrcFallingEdge
<1>8. CASE ProcessDataFallingEdge
  BY <1>3, <1>4, <1>8, OrdinaryArm, FallingKeepsSensor DEF ProcessDataFallingEdge
<1>9. CASE ProcessRisingEdge
  BY <1>9, OrdinaryArm, RisingKeepsSensor DEF ProcessRisingEdge, ClockHigh, sourceVars
<1>10. CASE ProcessInputAckStart
  BY <1>3, <1>4, <1>10, OrdinaryArm, RisingKeepsSensor DEF ProcessInputAckStart
<1>11. CASE ProcessOutputAckFallingEdge
  BY <1>3, <1>4, <1>11, OrdinaryArm, FallingKeepsSensor DEF ProcessOutputAckFallingEdge
<1>12. CASE ProcessReleaseData
  BY <1>3, <1>4, <1>12, OrdinaryArm, FallingKeepsSensor DEF ProcessReleaseData
<1>13. CASE ProcessAckWait \/ ProcessWaitReady
  BY <1>13, AckWaitQuiet, WaitReadyQuiet
<1>14. CASE ProcessDone
  <2>1. PICK input \in {0, 1} :
          /\ state' = NextState(state, input) /\ state \in States
          /\ isr \in {"timer", "gpio"} /\ Output(state) \in {"DONE"}
          /\ pc' = pc
    BY <1>14, ProcessRow DEF ProcessDone
  <2>2. state.step \in {"END", "FAIL"} /\ state'.step \in {"END", "FAIL"}
    BY <2>1, RowOutputs, RowOrder
  <2> QED
    BY <1>14, <2>1, <2>2, DoneQuiet DEF ProcessDone
<1>15. CASE ProcessError
  BY <1>15, DoneQuiet DEF ProcessError, taskVars, deviceVars, QInv, Ending
<1> QED
  BY <1>1, <1>2, <1>5, <1>6, <1>7, <1>8, <1>9, <1>10, <1>11, <1>12, <1>13, <1>14, <1>15
  DEF Isr

-----------------------------------------------------------------------------
(* The peripherals and the tasks *)

\* Ticks, transfers and edges need something that was armed.
LEMMA HardwareQuiet ==
  ASSUME TypeOK, QInv, TimerTick \/ Transfer \/ SensorReady
  PROVE  QInv'
<1>1. CASE TimerTick
  <2>1. /\ "EN" \in timer /\ dma = "off" /\ timer' = timer \cup {"RIS"}
        /\ pend' = IF "IM" \in timer THEN pend \cup {"timer"} ELSE pend
        /\ UNCHANGED <<pc, sem, state, gpio, dma, isr, clk, dout, sensor>>
    BY <1>1 DEF TimerTick, taskVars, rtosVars, deviceVars, pinVars
  <2>2. sem = 0
    BY <2>1 DEF QInv, TokenIsLast, Silent, TypeOK
  <2> QED
    BY <2>1, <2>2 DEF QInv, TokenIsLast, RestsUnused, EdgeAwaited, EdgePending,
       TransferRuns, Ending, Acknowledging
<1>2. CASE DmaDone
  <2>1. /\ dma # "off" /\ dma' = "off"
        /\ gpio' = gpio \cup {"RIS"}
        /\ "gpio" \in pend' => "gpio" \in pend \/ "IM" \in gpio
        /\ UNCHANGED <<pc, sem, state, isr>>
        /\ \E heard \in Hearing :
             \/ dma = "cmd" /\ sensor' = SensorHears(sensor, cmd, heard)
             \/ dma = "payload"
    BY <1>2 DEF DmaDone, taskVars, rtosVars, deviceVars
  <2>2. /\ sem = 0 /\ isr = "none" /\ state.step \in {"FIN", "PAYLOAD_FIN"}
        /\ "IM" \notin gpio /\ "gpio" \notin pend
        /\ \E t \in Tasks : pc[t] = "wait"
    BY <2>1 DEF QInv, TokenIsLast, RestsUnused, Silent, TransferRuns, EdgeAwaited,
       EdgePending, TypeOK
  <2>3. state.step = "FIN" => sensor'.phase \in {"heard", "idle"}
    BY <2>1 DEF QInv, TransferRuns, SensorHears, TypeOK, SensorStates
  <2> QED
    BY <2>1, <2>2, <2>3 DEF QInv, TokenIsLast, RestsUnused, EdgeAwaited, EdgePending,
       TransferRuns, Ending, Acknowledging
<1>3. CASE DmaError
  <2>1. /\ dma # "off" /\ dma' = "off"
        /\ gpio' = gpio \cup {"RIS"}
        /\ sensor'.phase = "idle"
        /\ UNCHANGED <<pc, sem, state, isr, timer, pend>>
    BY <1>3 DEF DmaError, taskVars, rtosVars, deviceVars, TypeOK, SensorStates
  <2>2. /\ sem = 0 /\ isr = "none" /\ state.step \in {"FIN", "PAYLOAD_FIN"}
        /\ "IM" \notin gpio /\ "gpio" \notin pend
        /\ \E t \in Tasks : pc[t] = "wait"
    BY <2>1 DEF QInv, TokenIsLast, RestsUnused, Silent, TransferRuns, EdgeAwaited,
       EdgePending, TypeOK
  <2> QED
    BY <2>1, <2>2 DEF QInv, TokenIsLast, RestsUnused, EdgeAwaited, EdgePending,
       TransferRuns, Ending, Acknowledging
<1>4. CASE SensorReady
  <2>1. /\ sensor.phase = "measuring" /\ sensor'.phase = "send"
        /\ "IM" \in gpio' => "IM" \in gpio
        /\ "IM" \notin gpio => pend' = pend
        /\ UNCHANGED <<pc, sem, state, timer, dma, isr, clk, dout>>
    BY <1>4 DEF SensorReady, taskVars, rtosVars, deviceVars, pinVars, TypeOK, SensorStates
  <2>2. CASE "IM" \in gpio
    BY <2>1, <2>2 DEF QInv, TokenIsLast, RestsUnused, Silent, EdgeAwaited, EdgePending,
       TransferRuns, Ending, Acknowledging
  <2>3. CASE "IM" \notin gpio
    BY <2>1, <2>3 DEF QInv, TokenIsLast, RestsUnused, Silent, EdgeAwaited, EdgePending,
       TransferRuns, Ending, Acknowledging
  <2> QED
    BY <2>2, <2>3
<1> QED
  BY <1>1, <1>2, <1>3, <1>4 DEF Transfer

\* A transmission starts from rest, and only its owner takes its token.
LEMMA TaskStepQuiet ==
  ASSUME TypeOK, QInv, MutualExclusion, NEW t \in Tasks, TaskStep(t)
  PROVE  QInv'
<1>1. CASE Start(t)
  <2>1. /\ pc[t] = "start" /\ pc'[t] = "wait" /\ isr = "none" /\ isr' = "none" /\ pend = {}
        /\ state'.step = "FIN" /\ dma' = "cmd" /\ "EN" \in timer' /\ "RIS" \notin timer'
        /\ UNCHANGED <<sem, gpio, pend>>
    BY <1>1 DEF Start, SensorReadStart, StatusWriteStart, StatusReadStart,
       SoftwareResetStart, Prepare, Goto, Row, TaskMayRun, rtosVars, TypeOK
  <2>2. \A u \in Tasks : pc[u] # "wait"
    BY <2>1 DEF MutualExclusion, TypeOK
  <2>3. sem = 0 /\ "IM" \notin gpio
    BY <2>2 DEF QInv, RestsUnused, Silent
  <2> QED
    BY <2>1, <2>3 DEF QInv, TokenIsLast, RestsUnused, EdgeAwaited, EdgePending,
       TransferRuns, Ending, Acknowledging
<1>2. CASE TakeSem(t)
  <2>1. /\ sem = 1 /\ sem' = 0 /\ pend = {}
        /\ UNCHANGED <<state, timer, gpio, dma, pend, isr, clk, dout, sensor>>
    BY <1>2 DEF TakeSem, TaskMayRun, deviceVars, sourceVars, pinVars
  <2> QED
    BY <2>1 DEF QInv, TokenIsLast, RestsUnused, Silent, EdgeAwaited, EdgePending,
       TransferRuns, Ending, Acknowledging
<1>3. CASE InterruptTimeout(t)
  <2>1. /\ sem = 0 /\ isr = "none" /\ pend = {} /\ "IM" \notin gpio
        /\ ~("EN" \in timer /\ (dma # "off" \/ "IM" \in timer))
        /\ UNCHANGED <<sem, state, timer, gpio, dma, pend, isr, clk, dout, sensor>>
    BY <1>3 DEF InterruptTimeout, Stuck, TaskMayRun, deviceVars, sourceVars, pinVars
  <2>2. dma = "off"
    BY <2>1 DEF QInv, TransferRuns
  <2> QED
    BY <2>1, <2>2 DEF QInv, TokenIsLast, RestsUnused, Silent, EdgeAwaited, EdgePending,
       TransferRuns, Ending, Acknowledging
<1>4. ASSUME UNCHANGED <<sem, state, timer, gpio, dma, pend, isr, clk, dout, sensor>>,
             \A u \in Tasks : pc'[u] = "wait" <=> pc[u] = "wait"
      PROVE  QInv'
  BY <1>4 DEF QInv, TokenIsLast, RestsUnused, Silent, EdgeAwaited, EdgePending,
     TransferRuns, Ending, Acknowledging
<1> USE DEF Goto, Return, rtosVars, deviceVars, sourceVars, pinVars, TypeOK
<1>5. CASE TakeLock(t)
  BY <1>4, <1>5 DEF TakeLock
<1>6. CASE LockTimeout(t)
  BY <1>4, <1>6 DEF LockTimeout
<1>7. CASE ReadResult(t)
  BY <1>4, <1>7 DEF ReadResult, SensorReadFinish, StatusWriteFinish, StatusReadFinish,
     SoftwareResetFinish, Finish
<1>8. CASE Convert(t)
  BY <1>4, <1>8 DEF Convert
<1> QED
  BY <1>1, <1>2, <1>3, <1>5, <1>6, <1>7, <1>8 DEF TaskStep

\* No step interrupts after the token.
LEMMA QuietStep ==
  ASSUME TypeOK, MutualExclusion, QInv, [Next]_vars
  PROVE  QInv'
<1>1. ASSUME NEW t \in Tasks, NEW op \in Ops, NEW arg \in StatusArgs \cup {{}},
             Call(t, op, arg)
      PROVE  QInv'
  <2>1. /\ UNCHANGED <<sem, state, timer, gpio, dma, pend, isr, clk, dout, sensor>>
        /\ \A u \in Tasks : pc'[u] = "wait" <=> pc[u] = "wait"
    BY <1>1 DEF Call, Goto, rtosVars, deviceVars, sourceVars, pinVars, TypeOK
  <2> QED
    BY <2>1 DEF QInv, TokenIsLast, RestsUnused, Silent, EdgeAwaited, EdgePending,
       TransferRuns, Ending, Acknowledging
<1>2. CASE UNCHANGED vars
  BY <1>2 DEF vars, taskVars, rtosVars, deviceVars, sourceVars, pinVars, QInv, TokenIsLast,
     RestsUnused, Silent, EdgeAwaited, EdgePending, TransferRuns, Ending, Acknowledging
<1> QED
  BY <1>1, <1>2, TaskStepQuiet, IsrQuiet, HardwareQuiet DEF Next

\* With and without failing transfers, a token comes after its transmission's last
\* interrupt, and without a waiting task no handler runs.
THEOREM Invariance == Spec => []QInv
<1>1. Init => QInv
  BY DEF Init, QInv, TokenIsLast, RestsUnused, Silent, EdgeAwaited, EdgePending, TransferRuns,
     Ending, Acknowledging, END, Row
<1>2. TypeOK /\ MutualExclusion /\ QInv /\ [Next]_vars => QInv'
  BY QuietStep
<1> QED
  BY <1>1, <1>2, TypeCorrect, Exclusion, PTL DEF Spec

-----------------------------------------------------------------------------
(* What is left for the next caller *)

LeftAtRest == (\A t \in Tasks : pc[t] # "wait") => Silent

\* Only the end of a wait could leave something running, and it does not come while
\* something is armed.
LEMMA LeftAtRestStep ==
  ASSUME TypeOK, QInv, TransactionArmed, LeftAtRest, [Next]_vars
  PROVE  LeftAtRest'
<1>1. ASSUME \A t \in Tasks : pc'[t] = "wait" <=> pc[t] = "wait",
             UNCHANGED <<timer, gpio, dma, clk, dout>>
      PROVE  LeftAtRest'
  BY <1>1 DEF LeftAtRest, Silent
<1>2. ASSUME NEW t \in Tasks, NEW op \in Ops, NEW arg \in StatusArgs \cup {{}},
             Call(t, op, arg)
      PROVE  LeftAtRest'
  BY <1>1, <1>2 DEF Call, Goto, sourceVars, pinVars, TypeOK
<1>3. ASSUME NEW t \in Tasks, TaskStep(t) PROVE LeftAtRest'
  <2> USE DEF Goto, Return, sourceVars, pinVars, TypeOK
  <2>1. CASE Start(t)
    BY <2>1 DEF Start, SensorReadStart, StatusWriteStart, StatusReadStart,
       SoftwareResetStart, Prepare, LeftAtRest
  <2>2. CASE TakeSem(t)
    BY <2>2 DEF TakeSem, QInv, TokenIsLast, Silent, LeftAtRest
  <2>3. ~InterruptTimeout(t)
    BY DEF InterruptTimeout, Stuck, TaskMayRun, TransactionArmed, InterruptComing,
       CompletionAwaited
  <2>4. CASE TakeLock(t) \/ LockTimeout(t) \/ Convert(t)
    BY <1>1, <2>4 DEF TakeLock, LockTimeout, Convert
  <2>5. CASE ReadResult(t)
    BY <1>1, <2>5 DEF ReadResult, SensorReadFinish, StatusWriteFinish, StatusReadFinish,
       SoftwareResetFinish, Finish
  <2> QED
    BY <1>3, <2>1, <2>2, <2>3, <2>4, <2>5 DEF TaskStep
<1>4. CASE Isr
  <2>1. isr # "none" \/ pend # {}
    BY <1>4 DEF Isr, TimerIsr, GpioIsr, ProcessTimerEnable, ProcessPayload,
       ProcessCrcFallingEdge, ProcessDataFallingEdge, ProcessRisingEdge,
       ProcessInputAckStart, ProcessOutputAckFallingEdge, ProcessReleaseData,
       ProcessAckWait, ProcessWaitReady, ProcessDone, ProcessError, Process
  <2> QED
    BY <1>4, <2>1, TasksUntouched DEF QInv, RestsUnused, LeftAtRest
<1>5. CASE TimerTick \/ Transfer
  <2>1. timer # {} \/ dma # "off"
    BY <1>5 DEF TimerTick, Transfer, DmaDone, DmaError
  <2> QED
    BY <1>5, <2>1, TasksUntouched DEF LeftAtRest, Silent
<1>6. CASE SensorReady
  BY <1>6 DEF SensorReady, LeftAtRest, Silent, taskVars, pinVars
<1>7. CASE UNCHANGED vars
  BY <1>1, <1>7 DEF vars, taskVars, sourceVars, pinVars
<1> QED
  BY <1>2, <1>3, <1>4, <1>5, <1>6, <1>7 DEF Next

\* As long as uDMA transfers complete, a transmission's token comes after its last
\* interrupt, and nothing is armed, pending or left on the wires for the next caller.
THEOREM Quiet == ASSUME ~DmaMayFail PROVE Spec => []QuietBetweenTransactions
<1>1. Init => LeftAtRest
  BY DEF Init, LeftAtRest, Silent
<1>2. TypeOK /\ QInv /\ TransactionArmed /\ LeftAtRest /\ [Next]_vars => LeftAtRest'
  BY LeftAtRestStep
<1>3. QInv /\ LeftAtRest => QuietBetweenTransactions
  BY DEF QInv, TokenIsLast, RestsUnused, LeftAtRest, QuietBetweenTransactions
<1>4. Spec => []TransactionArmed
  BY Armed
<1> QED
  BY <1>1, <1>2, <1>3, <1>4, TypeCorrect, Invariance, PTL DEF Spec


-----------------------------------------------------------------------------
(* The invariant of the refinement *)

Writers == {"status_write", "software_reset"}

Readers == Operations \ Writers

Written(t) == call[t].arg \cap SREG_bm

Waits(t) == pc[t] = "wait"

\* What an OK promises: the sensor's register is what the call writes.
Promise(t) == call[t].op \in Writers => sensor.status = Written(t)

Calling ==
  \A t \in Tasks :
    /\ pc[t] = "idle" <=> call[t] = Idle
    /\ pc[t] \in {"lock", "start", "wait", "finish"} => ret[t] = "BUSY"
    /\ pc[t] = "convert" => ret[t] = "OK" /\ call[t].op \in Measurements
    /\ lock = t => pc[t] \in {"start", "wait", "finish"}
    /\ call[t].op = "status_write" \/ call[t].arg = {}

PayloadSteps == {"PAYLOAD", "PAYLOAD_FIN", "PAYLOAD_ACK", "PAYLOAD_ACKC", "PAYLOAD_ACKE"}

CommandSteps == {"FIN", "ACK", "ACKC", "ACKE"}

\* The rows of states[] among all records of a sequence, a step and a bit.
RowExists(s) ==
  /\ s.step \in CommandSteps => s.seq # "NONE"
  /\ s.step \in PayloadSteps => s.seq = "SREGW"
  /\ s.step \in {"END", "FAIL"} => s.seq = "NONE"
  /\ s.step \notin CommandSteps \cup PayloadSteps \cup {"END", "FAIL"} =>
       s.seq \in {"SENSOR", "SREGR"}

SeqOf ==
  [temperature |-> "SENSOR", moisture |-> "SENSOR", status_read |-> "SREGR",
   status_write |-> "SREGW", software_reset |-> "SOFT_RESET"]

\* Buffers and rows are those of the waiting task's call.
Commands ==
  /\ RowExists(state)
  /\ \A t \in Tasks : Waits(t) =>
       /\ cmd = call[t].op
       /\ call[t].op = "status_write" => payload = Written(t)
       /\ state.seq \in {SeqOf[cmd], "NONE"}

\* What the sensor does, if anything, it does for the command of the waiting task,
\* from the end of the command's pattern on.
SensorFollows ==
  /\ sensor.phase \in {"payload", "pheard", "pack"} => sensor.cmd = "status_write"
  /\ sensor.phase \in {"send", "byteack", "measuring"} => sensor.cmd \in Readers
  /\ (\E t \in Tasks : Waits(t)) /\ dma # "cmd" =>
       /\ sensor.phase = "idle" \/ sensor.cmd = cmd
       /\ sensor.phase = "pack" => sensor.status = payload

\* The driver does not pull the data line when it samples an acknowledge, and the
\* clock is high.
Lines ==
  /\ state.step \in {"ACKC", "ACKE", "PAYLOAD_ACKC", "PAYLOAD_ACKE"} => dout = 1
  /\ state.step \in {"ACKE", "PAYLOAD_ACKE"} => clk = 1
  /\ state.step \in PayloadSteps \ {"PAYLOAD"} /\ dma = "off" =>
       sensor.phase \in {"pheard", "pack", "idle"}

\* What device.error says at the end.
Verdict(t) ==
  /\ error \in {"OK", "NO_CMD_ACK", "NO_PAYLOAD_ACK"}
  /\ error = "NO_PAYLOAD_ACK" => call[t].op = "status_write"
  /\ error = "OK" => Promise(t)

Results ==
  \A t \in Tasks :
    /\ pc[t] = "finish" => Verdict(t)
    /\ Waits(t) =>
         /\ sem = 1 \/ isr = "fault" => Verdict(t)
         /\ state.step = "END" => Promise(t)
         /\ state.step = "FAIL" => sem = 1 \/ isr = "fault"

AInv ==
  /\ Calling
  /\ Commands
  /\ SensorFollows
  /\ Lines
  /\ Results

Known == TypeOK /\ MutualExclusion /\ QInv /\ AInv

-----------------------------------------------------------------------------
(* The table and the interface *)

\* The rows of states[] lead to rows of states[], of the same sequence until its end.
LEMMA RowSuccessors ==
  ASSUME NEW s \in States, RowExists(s), NEW input \in {0, 1}
  PROVE  LET n == NextState(s, input)
         IN /\ RowExists(n)
            /\ n.seq \in {s.seq, "NONE"}
            /\ n.step = "PAYLOAD_FIN" => s.step = "PAYLOAD"
            /\ n.step = "PAYLOAD_ACK" => s.step = "PAYLOAD_FIN"
            /\ n.step = "PAYLOAD_ACKC" => s.step = "PAYLOAD_ACK"
            /\ n.step = "PAYLOAD_ACKE" => s.step = "PAYLOAD_ACKC"
            /\ n.step = "END" /\ s.seq = "SREGW" => s.step = "PAYLOAD_ACKE" /\ input = 0
            /\ n.step = "END" /\ s.seq = "SOFT_RESET" => s.step = "ACKE" /\ input = 0
            /\ s.step = "FAIL" <=> s.seq = "NONE" /\ s.step # "END"
<1> USE StepNames, StraightTyped DEF States, RowExists, CommandSteps, PayloadSteps
<1>1. CASE Refused(s, input)
  BY <1>1 DEF NextState, Refused, FAIL, Row
<1>2. CASE ~Refused(s, input) /\ s.step \in DOMAIN Straight
  BY <1>2 DEF NextState, Follow, Straight
<1>3. CASE ~Refused(s, input) /\ s.step \notin DOMAIN Straight
  BY <1>3 DEF NextState, Refused, Follow, Row, FAIL, END, AfterCommand,
     AfterDataBit, AfterByteAck, AfterCrcBit, Seqs
<1> QED
  BY <1>1, <1>2, <1>3

\* Which errors a row can report.
LEMMA RowErrors ==
  ASSUME NEW s \in States, RowExists(s), s.step # "FAIL", NEW input \in {0, 1}
  PROVE  /\ NextError(s, input) \in {"OK", "NO_CMD_ACK", "NO_PAYLOAD_ACK"}
         /\ NextError(s, input) = "NO_PAYLOAD_ACK" => s.seq = "SREGW"
         /\ NextState(s, input).step = "FAIL" => NextError(s, input) # "OK"
<1> USE StepNames, StraightTyped DEF States, RowExists, CommandSteps, PayloadSteps
<1>1. CASE Refused(s, input)
  BY <1>1 DEF NextError, Refused
<1>2. CASE ~Refused(s, input) /\ s.step \in DOMAIN Straight
  BY <1>2 DEF NextState, NextError, Follow, Straight
<1>3. CASE ~Refused(s, input) /\ s.step \notin DOMAIN Straight
  BY <1>3 DEF NextState, NextError, Refused, Follow, Row, END, AfterCommand,
     AfterDataBit, AfterByteAck, AfterCrcBit, Seqs
<1> QED
  BY <1>1, <1>2, <1>3

\* The outputs of the rows around acknowledges.
LEMMA MoreOutputs ==
  ASSUME NEW s \in States
  PROVE  /\ s.step = "PAYLOAD_ACK" => Output(s) = "OUTPUT_ACK_START"
         /\ s.step = "PAYLOAD_ACKC" => Output(s) = "OUTPUT_ACK_RISING_EDGE"
         /\ s.step = "PAYLOAD_ACKE" => Output(s) = "OUTPUT_ACK_FALLING_EDGE"
         /\ s.step = "ACKE" /\ s.seq # "SENSOR" => Output(s) = "OUTPUT_ACK_FALLING_EDGE"
BY StepNames DEF States, Output, StepOutput

-----------------------------------------------------------------------------
(* The sensor's register *)

\* A falling edge changes the register only to what the waiting task's call writes.
LEMMA RegisterFalls ==
  ASSUME Known, NEW t \in Tasks, Waits(t), dma # "cmd", NEW level \in {0, 1}
  PROVE  LET s == SensorFalls(sensor, level, payload)
         IN \/ s.status = sensor.status
            \/ call[t].op \in Writers /\ s.status = Written(t)
<1>1. /\ sensor \in SensorStates
      /\ sensor.phase = "idle" \/ sensor.cmd = call[t].op
      /\ sensor.phase = "pheard" => sensor.cmd = "status_write"
      /\ call[t].op = "status_write" => payload = Written(t)
      /\ call[t].op = "status_write" \/ call[t].arg = {}
  BY DEF Known, TypeOK, AInv, Calling, Commands, SensorFollows
<1>2. call[t].op = "software_reset" => Written(t) = {}
  BY <1>1 DEF Written
<1>3. CASE sensor.phase = "ack"
  BY <1>1, <1>2, <1>3 DEF SensorFalls, EndAck, SensorStates, Writers
<1>4. CASE sensor.phase = "pheard"
  BY <1>1, <1>4 DEF SensorFalls, SensorStates, Writers
<1>5. CASE sensor.phase \notin {"ack", "pheard"}
  BY <1>1, <1>5 DEF SensorFalls, EndBit, SensorStates
<1> QED
  BY <1>3, <1>4, <1>5

\* It keeps the sensor at the waiting task's command.
LEMMA SensorFallsFollows ==
  ASSUME Known, NEW t \in Tasks, Waits(t), dma # "cmd", NEW level \in {0, 1}
  PROVE  LET s == SensorFalls(sensor, level, payload)
         IN /\ s.phase \in {"payload", "pheard", "pack"} => s.cmd = "status_write"
            /\ s.phase \in {"send", "byteack", "measuring"} => s.cmd \in Readers
            /\ s.phase = "idle" \/ s.cmd = cmd
            /\ s.phase = "pack" => s.status = payload
            /\ sensor.phase \in {"pheard", "pack", "idle"} => s.phase \in {"pack", "idle"}
<1>1. /\ sensor \in SensorStates
      /\ sensor.phase = "idle" \/ sensor.cmd = cmd
      /\ sensor.phase \in {"payload", "pheard", "pack"} => sensor.cmd = "status_write"
      /\ sensor.phase \in {"send", "byteack", "measuring"} => sensor.cmd \in Readers
  BY DEF Known, TypeOK, AInv, SensorFollows
<1>2. CASE sensor.phase = "ack"
  <2>1. sensor.cmd = cmd /\ cmd \in Operations
    BY <1>1, <1>2 DEF Known, TypeOK
  <2>2. /\ AfterAck[cmd] \in {"measuring", "send", "payload", "idle"}
        /\ AfterAck[cmd] = "payload" => cmd = "status_write"
        /\ AfterAck[cmd] \in {"measuring", "send"} => cmd \in Readers
    BY <2>1 DEF AfterAck, Operations, Measurements, Readers, Writers
  <2> DEFINE s == SensorFalls(sensor, level, payload)
  <2>3. s.phase = AfterAck[cmd] /\ s.cmd = cmd
    BY <1>1, <1>2, <2>1 DEF SensorFalls, EndAck, SensorStates
  <2> QED
    BY <1>2, <2>2, <2>3
<1>3. CASE sensor.phase \in {"send", "byteack"}
  BY <1>1, <1>3 DEF SensorFalls, EndBit, SensorStates
<1>4. CASE sensor.phase \notin {"ack", "send", "byteack"}
  BY <1>1, <1>4 DEF SensorFalls, SensorStates
<1> QED
  BY <1>2, <1>3, <1>4
-----------------------------------------------------------------------------
(* The handlers and the interface *)

\* Each function starts its own sequence.
LEMMA SequenceOfCall ==
  ASSUME NEW op \in Operations
  PROVE  /\ SeqOf[op] = "SREGW" <=> op = "status_write"
         /\ SeqOf[op] = "SOFT_RESET" <=> op = "software_reset"
         /\ SeqOf[op] \in Seqs \ {"NONE"}
BY DEF SeqOf, Operations, Measurements, Seqs

\* What a step of the table decides about the waiting task's call: a write is over
\* when its payload is acknowledged, a reset when its command is.
LEMMA Deciding ==
  ASSUME Known, NEW outputs, Process(outputs), NEW t \in Tasks, Waits(t)
  PROVE  /\ error' \in {"OK", "NO_CMD_ACK", "NO_PAYLOAD_ACK"}
         /\ error' = "NO_PAYLOAD_ACK" => call[t].op = "status_write"
         /\ state'.step = "FAIL" => error' # "OK"
         /\ state'.step = "END" =>
              \/ Promise(t)
              \/ /\ call[t].op = "software_reset"
                 /\ state.step = "ACKE" /\ state.seq = "SOFT_RESET" /\ clk = 1
                 /\ sensor.phase = "ack" /\ sensor.cmd = "software_reset"
<1>1. PICK input \in {0, 1} :
        /\ input \in DataLevels(sensor, dout)
        /\ state' = NextState(state, input) /\ error' = NextError(state, input)
        /\ state \in States
        /\ isr \in {"timer", "gpio"}
  BY ProcessRow DEF Known
<1>2. sem = 0 /\ dma = "off"
  BY <1>1, WhenProcessing DEF Known
<1>3. /\ RowExists(state) /\ state.step # "FAIL"
      /\ state.step = "END" => Promise(t)
      /\ cmd = call[t].op /\ state.seq \in {SeqOf[cmd], "NONE"}
      /\ cmd = "status_write" => payload = Written(t)
      /\ cmd \in Operations
  BY <1>1, <1>2 DEF Known, TypeOK, AInv, Commands, Results
<1>4. SeqOf[cmd] # "NONE" /\ (state.seq = "SREGW" => cmd = "status_write")
  BY <1>3, SequenceOfCall
<1>5. state.step = "END" <=> state.seq = "NONE"
  BY <1>1, <1>3, RowSuccessors DEF RowExists
<1>6. CASE cmd = "status_write" /\ state.seq # "NONE" /\ state'.step = "END"
  <2>1. state.step = "PAYLOAD_ACKE" /\ input = 0
    BY <1>1, <1>3, <1>6, SequenceOfCall, RowSuccessors
  <2>2. dout = 1 /\ sensor.phase \in {"pheard", "pack", "idle"}
    BY <1>2, <2>1 DEF Known, AInv, Lines, PayloadSteps
  <2>3. sensor.phase = "pack"
    BY <1>1, <2>1, <2>2 DEF DataLevels
  <2>4. sensor.status = payload
    BY <1>2, <2>3 DEF Known, AInv, SensorFollows
  <2>5. Promise(t)
    BY <1>3, <1>6, <2>4 DEF Promise
  <2> QED
    BY <1>1, <1>3, <1>4, <2>5, RowErrors
<1>7. CASE cmd = "software_reset" /\ state.seq # "NONE" /\ state'.step = "END"
  <2>1. state.seq = "SOFT_RESET" /\ state.step = "ACKE" /\ input = 0
    BY <1>1, <1>3, <1>7, SequenceOfCall, RowSuccessors
  <2>2. dout = 1 /\ clk = 1 /\ sensor.phase \in {"heard", "ack", "idle"}
    BY <2>1 DEF Known, AInv, Lines, QInv, Acknowledging
  <2>3. sensor.phase = "ack"
    BY <1>1, <2>1, <2>2 DEF DataLevels
  <2>4. sensor.cmd = cmd
    BY <1>2, <2>3 DEF Known, AInv, SensorFollows
  <2> QED
    BY <1>1, <1>3, <1>4, <1>7, <2>1, <2>2, <2>3, <2>4, RowErrors
<1>8. CASE cmd \notin Writers
  BY <1>1, <1>3, <1>4, <1>8, RowErrors DEF Promise
<1> QED
  BY <1>1, <1>3, <1>4, <1>5, <1>6, <1>7, <1>8, RowErrors DEF Writers

\* The clock's writes, and none, as the sensor sees them.
SensorMoves ==
  sensor' = sensor \/ \E level \in {0, 1} : sensor' = SensorFalls(sensor, level, payload)

\* The sensor keeps to the waiting task's command when a handler moves the clock.
LEMMA MovesFollow ==
  ASSUME Known, isr # "none", SensorMoves, dma' \in {"off", "payload"},
         UNCHANGED <<pc, call, cmd, payload>>
  PROVE  /\ SensorFollows'
         /\ \A t \in Tasks : Waits(t) /\ Promise(t) => Promise(t)'
         /\ sensor.phase \in {"pheard", "pack", "idle"} =>
              sensor'.phase \in {"pheard", "pack", "idle"}
<1>1. PICK t \in Tasks : Waits(t)
  BY WhenProcessing DEF Known, Waits
<1>2. dma = "off"
  BY WhenProcessing DEF Known
<1>3. CASE sensor' = sensor
  BY <1>1, <1>2, <1>3 DEF Known, AInv, SensorFollows, Promise, Written, Waits
<1>4. CASE \E level \in {0, 1} : sensor' = SensorFalls(sensor, level, payload)
  <2>1. PICK level \in {0, 1} : sensor' = SensorFalls(sensor, level, payload)
    BY <1>4
  <2>2. SensorFollows'
    BY <1>1, <1>2, <2>1, SensorFallsFollows DEF SensorFollows
  <2>3. ASSUME NEW u \in Tasks, Waits(u), Promise(u) PROVE Promise(u)'
    BY <1>2, <2>1, <2>3, RegisterFalls DEF Promise, Written
  <2>4. sensor.phase \in {"pheard", "pack", "idle"} => sensor'.phase \in {"pack", "idle"}
    BY <1>1, <1>2, <2>1, SensorFallsFollows
  <2> QED
    BY <2>2, <2>3, <2>4
<1> QED
  BY <1>3, <1>4 DEF SensorMoves

\* Handlers do not touch calls and buffers.
LEMMA ProcessCommands ==
  ASSUME Known, NEW outputs, Process(outputs)
  PROVE  Calling' /\ Commands'
<1>1. PICK input \in {0, 1} : state' = NextState(state, input) /\ state \in States
  BY ProcessRow DEF Known
<1>2. RowExists(state)
  BY DEF Known, AInv, Commands
<1>3. RowExists(state') /\ state'.seq \in {state.seq, "NONE"}
  BY <1>1, <1>2, RowSuccessors
<1>4. UNCHANGED <<pc, call, ret, lock, cmd, payload>>
  BY DEF Process, taskVars, bufferVars
<1> QED
  BY <1>3, <1>4 DEF Known, AInv, Calling, Commands, Waits, Written

\* The arms that go on keep the results right.
LEMMA ArmKeepsResults ==
  ASSUME Known, NEW outputs, Process(outputs), Continue, SensorMoves, sem' = sem,
         dma' \in {"off", "payload"},
         state.step = "ACKE" /\ state.seq = "SOFT_RESET" => ClockLow
  PROVE  SensorFollows' /\ Results'
<1>1. UNCHANGED <<pc, call, ret, lock, cmd, payload>> /\ isr \in {"timer", "gpio"}
  BY DEF Process, taskVars, bufferVars
<1>2. sem' = 0 /\ \E t \in Tasks : Waits(t)
  BY <1>1, WhenProcessing DEF Known, Waits
<1>3. /\ SensorFollows'
      /\ \A t \in Tasks : Waits(t) /\ Promise(t) => Promise(t)'
  BY <1>1, MovesFollow
<1>4. \A t \in Tasks : pc'[t] # "finish"
  BY <1>1, <1>2 DEF Known, MutualExclusion, Waits
<1>5. ASSUME NEW t \in Tasks, Waits(t)'
      PROVE  /\ isr' = "fault" => Verdict(t)'
             /\ state'.step = "END" => Promise(t)'
             /\ state'.step = "FAIL" => isr' = "fault"
  <2>1. Waits(t)
    BY <1>1, <1>5 DEF Waits
  <2>2. /\ error' \in {"OK", "NO_CMD_ACK", "NO_PAYLOAD_ACK"}
        /\ error' = "NO_PAYLOAD_ACK" => call[t].op = "status_write"
        /\ state'.step = "FAIL" => error' # "OK"
    BY <2>1, Deciding
  <2>3. isr' = "fault" <=> error' # "OK"
    BY DEF Continue
  <2>4. CASE state'.step = "END" /\ ~Promise(t)
    <3>1. /\ call[t].op = "software_reset" /\ ClockLow /\ clk = 1
          /\ sensor.phase = "ack" /\ sensor.cmd = "software_reset"
      BY <2>1, <2>4, Deciding
    <3>2. sensor'.status = {}
      BY <3>1 DEF ClockLow, SensorFalls, EndAck, Known, TypeOK, SensorStates
    <3>3. Written(t)' = {}
      BY <1>1, <3>1 DEF Written, Known, AInv, Calling
    <3> QED
      BY <2>2, <2>3, <3>2, <3>3, <1>1 DEF Promise, Verdict
  <2> QED
    BY <1>1, <1>3, <2>1, <2>2, <2>3, <2>4 DEF Verdict
<1> QED
  BY <1>2, <1>3, <1>4, <1>5 DEF Results

\* Neither do they pull the data line while an acknowledge is sampled.
LEMMA ArmKeepsLines ==
  ASSUME Known, NEW outputs, Process(outputs), "PAYLOAD" \notin outputs, SensorMoves,
         dma' = dma,
         state.step \in {"ACK", "PAYLOAD_ACK"} => dout' = 1,
         state.step \in {"ACKC", "PAYLOAD_ACKC"} => clk' = 1 /\ dout' = dout
  PROVE  Lines'
<1>1. PICK input \in {0, 1} :
        /\ state' = NextState(state, input) /\ state \in States
        /\ isr \in {"timer", "gpio"} /\ Output(state) \in outputs
  BY ProcessRow DEF Known
<1>2. RowExists(state) /\ dma = "off"
  BY <1>1, WhenProcessing DEF Known, AInv, Commands
<1>3. state.step # "PAYLOAD"
  BY <1>1, RowOutputs
<1>4. sensor.phase \in {"pheard", "pack", "idle"} =>
        sensor'.phase \in {"pheard", "pack", "idle"}
  BY <1>1, <1>2, MovesFollow DEF Process, taskVars, bufferVars
<1>5. /\ state'.step = "ACKC" => state.step = "ACK"
      /\ state'.step = "ACKE" => state.step = "ACKC"
  BY <1>1, RowOrder
<1>6. /\ state'.step # "PAYLOAD_FIN"
      /\ state'.step = "PAYLOAD_ACK" => state.step = "PAYLOAD_FIN"
      /\ state'.step = "PAYLOAD_ACKC" => state.step = "PAYLOAD_ACK"
      /\ state'.step = "PAYLOAD_ACKE" => state.step = "PAYLOAD_ACKC"
  BY <1>1, <1>2, <1>3, RowSuccessors
<1> QED
  BY <1>2, <1>4, <1>5, <1>6 DEF Known, AInv, Lines, PayloadSteps
\* Which arm a row has, as far as acknowledges go.
LEMMA ArmRows ==
  ASSUME Known, NEW outputs, Process(outputs)
  PROVE  /\ "OUTPUT_ACK_START" \notin outputs => state.step \notin {"ACK", "PAYLOAD_ACK"}
         /\ "OUTPUT_ACK_RISING_EDGE" \notin outputs =>
              state.step \notin {"ACKC", "PAYLOAD_ACKC"}
         /\ "OUTPUT_ACK_FALLING_EDGE" \notin outputs =>
              ~(state.step = "ACKE" /\ state.seq = "SOFT_RESET")
         /\ ClockLow => SensorMoves
<1>1. state \in States /\ Output(state) \in outputs /\ dout \in {0, 1}
  BY DEF Known, TypeOK, Process
<1> QED
  BY <1>1, RowOutputs, MoreOutputs DEF ClockLow, SensorMoves

\* The end of a transmission has the verdict of its last row.
LEMMA DoneKeeps ==
  ASSUME Known, isr # "none", TransmissionDone, state'.step \in {"END", "FAIL"},
         UNCHANGED <<pc, call, cmd, payload>>,
         \A t \in Tasks : Waits(t) =>
           /\ error' \in {"OK", "NO_CMD_ACK", "NO_PAYLOAD_ACK"}
           /\ error' = "NO_PAYLOAD_ACK" => call[t].op = "status_write"
           /\ error' = "OK" \/ state'.step = "END" => Promise(t)
  PROVE  SensorFollows' /\ Lines' /\ Results'
<1>1. SensorMoves /\ sem' = 1 /\ dma' = "off" /\ \E t \in Tasks : Waits(t)
  BY WhenProcessing DEF TransmissionDone, SensorMoves, Known, Waits
<1>2. /\ SensorFollows'
      /\ \A t \in Tasks : Waits(t) /\ Promise(t) => Promise(t)'
  BY <1>1, MovesFollow
<1>3. Lines'
  BY DEF Lines, PayloadSteps
<1>4. \A t \in Tasks : pc'[t] # "finish"
  BY <1>1 DEF Known, MutualExclusion, Waits
<1> QED
  BY <1>1, <1>2, <1>3, <1>4 DEF Results, Verdict, Waits

\* All that is known holds after a handler's step,
LEMMA IsrKeeps ==
  ASSUME Known, Isr
  PROVE  AInv'
<1>1. CASE TimerIsr \/ GpioIsr
  <2>1. /\ UNCHANGED <<pc, call, ret, lock, sem, state, error, cmd, payload, dma, clk, dout,
                       sensor>>
        /\ isr = "none" /\ isr' # "fault"
    BY <1>1 DEF TimerIsr, GpioIsr, taskVars, rtosVars, deviceVars, bufferVars, pinVars
  <2> QED
    BY <2>1 DEF Known, AInv, Calling, Commands, SensorFollows, Lines, Results, Waits,
       Written, Verdict, Promise
<1>2. ASSUME NEW outputs, Process(outputs), Continue, SensorMoves, sem' = sem, dma' = dma,
             "PAYLOAD" \notin outputs,
             state.step = "ACKE" /\ state.seq = "SOFT_RESET" => ClockLow,
             state.step \in {"ACK", "PAYLOAD_ACK"} => dout' = 1,
             state.step \in {"ACKC", "PAYLOAD_ACKC"} => clk' = 1 /\ dout' = dout
      PROVE  AInv'
  <2>1. dma' = "off"
    BY <1>2, WhenProcessing DEF Process, Known
  <2> QED
    BY <1>2, <2>1, ProcessCommands, ArmKeepsResults, ArmKeepsLines DEF AInv
<1>3. CASE ProcessTimerEnable
  BY <1>2, <1>3, ArmRows DEF ProcessTimerEnable, SensorMoves
<1>4. CASE ProcessPayload
  <2>1. PICK input \in {0, 1} : state' = NextState(state, input) /\ state \in States
                                /\ Output(state) \in {"PAYLOAD"}
    BY <1>4, ProcessRow DEF ProcessPayload, Known
  <2>2. state'.step = "PAYLOAD_FIN" /\ dma' = "payload"
    BY <1>4, <2>1, RowsAwaitingCompletion DEF ProcessPayload
  <2>3. Lines'
    BY <2>2 DEF Lines
  <2>4. SensorFollows' /\ Results'
    BY <1>4, <2>2, ArmRows, ArmKeepsResults DEF ProcessPayload, SensorMoves
  <2> QED
    BY <1>4, <2>3, <2>4, ProcessCommands DEF ProcessPayload, AInv
<1>5. CASE ProcessCrcFallingEdge
  BY <1>2, <1>5, ArmRows DEF ProcessCrcFallingEdge
<1>6. CASE ProcessDataFallingEdge
  BY <1>2, <1>6, ArmRows DEF ProcessDataFallingEdge
<1>7. CASE ProcessRisingEdge
  BY <1>2, <1>7, ArmRows DEF ProcessRisingEdge, ClockHigh, SensorMoves, sourceVars
<1>8. CASE ProcessInputAckStart
  BY <1>2, <1>8, ArmRows DEF ProcessInputAckStart, SensorMoves
<1>9. CASE ProcessOutputAckFallingEdge
  BY <1>2, <1>9, ArmRows DEF ProcessOutputAckFallingEdge
<1>10. CASE ProcessReleaseData
  BY <1>2, <1>10, ArmRows DEF ProcessReleaseData
<1>11. CASE ProcessAckWait
  BY <1>2, <1>11, ArmRows DEF ProcessAckWait
<1>12. CASE ProcessWaitReady
  BY <1>2, <1>12, ArmRows DEF ProcessWaitReady
<1>13. CASE ProcessDone
  <2>1. /\ Process({"DONE"}) /\ TransmissionDone
        /\ isr # "none" /\ UNCHANGED <<pc, call, cmd, payload>>
    BY <1>13 DEF ProcessDone, Process, taskVars, bufferVars
  <2>2. PICK input \in {0, 1} : state' = NextState(state, input) /\ state \in States
                                /\ Output(state) \in {"DONE"}
    BY <2>1, ProcessRow DEF Known
  <2>3. state.step \in {"END", "FAIL"} /\ state'.step \in {"END", "FAIL"}
    BY <2>2, RowOutputs, RowOrder
  <2>4. ASSUME NEW t \in Tasks, Waits(t)
        PROVE  /\ error' \in {"OK", "NO_CMD_ACK", "NO_PAYLOAD_ACK"}
               /\ error' = "NO_PAYLOAD_ACK" => call[t].op = "status_write"
               /\ error' = "OK" \/ state'.step = "END" => Promise(t)
    BY <2>1, <2>3, <2>4, Deciding
  <2> QED
    BY <2>1, <2>3, <2>4, DoneKeeps, ProcessCommands DEF AInv
<1>14. CASE ProcessError
  <2>1. /\ TransmissionDone /\ isr = "fault"
        /\ UNCHANGED <<pc, call, ret, lock, state, error, cmd, payload>>
    BY <1>14 DEF ProcessError, taskVars, deviceVars, bufferVars
  <2>2. state.step = "FAIL"
    BY <2>1 DEF Known, QInv, Ending
  <2>3. \A t \in Tasks : Waits(t) => Verdict(t)
    BY <2>1 DEF Known, AInv, Results
  <2>4. SensorFollows' /\ Lines' /\ Results'
    BY <2>1, <2>2, <2>3, DoneKeeps DEF Verdict
  <2>5. Calling' /\ Commands'
    BY <2>1 DEF Known, AInv, Calling, Commands, Waits, Written
  <2> QED
    BY <2>4, <2>5 DEF AInv
<1> QED
  BY <1>1, <1>3, <1>4, <1>5, <1>6, <1>7, <1>8, <1>9, <1>10, <1>11, <1>12, <1>13, <1>14
  DEF Isr

-----------------------------------------------------------------------------
(* The peripherals and the interface *)

\* after a step of timer, uDMA or sensor,
LEMMA HardwareKeeps ==
  ASSUME Known, TimerTick \/ Transfer \/ SensorReady
  PROVE  AInv'
<1>1. UNCHANGED <<pc, call, ret, lock, sem, state, error, cmd, payload, isr>>
  BY DEF TimerTick, Transfer, DmaDone, DmaError, SensorReady, taskVars, rtosVars, deviceVars,
     bufferVars
<1>2. Calling' /\ Commands'
  BY <1>1 DEF Known, AInv, Calling, Commands, Waits, Written
<1>3. ASSUME sensor'.status = sensor.status PROVE Results'
  BY <1>1, <1>3 DEF Known, AInv, Results, Waits, Verdict, Promise, Written
<1>4. CASE TimerTick
  BY <1>1, <1>2, <1>3, <1>4 DEF TimerTick, pinVars, Known, AInv, SensorFollows, Lines, Waits
<1>5. CASE SensorReady
  <2>1. /\ sensor.phase = "measuring" /\ sensor'.phase = "send"
        /\ sensor'.cmd = sensor.cmd /\ sensor'.status = sensor.status
        /\ UNCHANGED <<dma, clk, dout>>
    BY <1>5 DEF SensorReady, pinVars, Known, TypeOK, SensorStates
  <2> QED
    BY <1>1, <1>2, <1>3, <2>1 DEF Known, AInv, SensorFollows, Lines, Waits
<1>6. CASE Transfer
  <2>1. /\ dma # "off" /\ dma' = "off"
        /\ \/ sensor'.phase \in {"heard", "idle"} /\ sensor'.cmd = cmd /\ dma = "cmd"
           \/ sensor'.phase = "idle" /\ sensor'.cmd = sensor.cmd
           \/ /\ sensor'.phase = "pheard" /\ sensor.phase = "payload"
              /\ sensor'.cmd = sensor.cmd /\ dma = "payload"
        /\ sensor'.status = sensor.status
    BY <1>6 DEF Transfer, DmaDone, DmaError, SensorHears, SensorHearsPayload, Known, TypeOK,
       SensorStates
  <2>2. state.step = IF dma = "cmd" THEN "FIN" ELSE "PAYLOAD_FIN"
    BY <2>1 DEF Known, QInv, TransferRuns
  <2>3. Lines'
    BY <1>1, <2>1, <2>2 DEF Lines, PayloadSteps
  <2>4. SensorFollows'
    BY <1>1, <2>1 DEF Known, AInv, SensorFollows, Waits
  <2> QED
    BY <1>2, <1>3, <2>1, <2>3, <2>4 DEF AInv
<1> QED
  BY <1>4, <1>5, <1>6
-----------------------------------------------------------------------------
(* The tasks and the interface *)

\* after a call,
LEMMA CallKeeps ==
  ASSUME Known, NEW t \in Tasks, NEW op \in Ops, NEW arg \in StatusArgs \cup {{}},
         Call(t, op, arg)
  PROVE  AInv'
<1>1. /\ pc[t] = "idle" /\ pc' = [pc EXCEPT ![t] = "lock"]
      /\ call' = [call EXCEPT ![t] = [op |-> op, arg |-> arg]]
      /\ ret' = [ret EXCEPT ![t] = "BUSY"]
      /\ op = "status_write" \/ arg = {}
      /\ UNCHANGED <<lock, sem, state, error, cmd, payload, dma, isr, clk, dout, sensor>>
  BY DEF Call, Goto, rtosVars, deviceVars, bufferVars, sourceVars, pinVars
<1>2. op \in Operations /\ op # "none"
  BY OpsAssumption DEF Operations, Measurements
<1>3. Calling'
  BY <1>1, <1>2 DEF Known, TypeOK, AInv, Calling, Idle
<1>4. \A u \in Tasks : pc'[u] \in {"wait", "finish"} =>
        pc'[u] = pc[u] /\ call'[u] = call[u]
  BY <1>1 DEF Known, TypeOK
<1>5. \A u \in Tasks : pc'[u] = "wait" <=> pc[u] = "wait"
  BY <1>1 DEF Known, TypeOK
<1>6. Commands'
  BY <1>1, <1>4 DEF Known, AInv, Commands, Waits, Written
<1>7. SensorFollows' /\ Lines'
  BY <1>1, <1>5 DEF Known, AInv, SensorFollows, Lines, Waits
<1>8. Results'
  BY <1>1, <1>4 DEF Known, AInv, Results, Waits, Verdict, Promise, Written
<1> QED
  BY <1>3, <1>6, <1>7, <1>8 DEF AInv

\* A step of a task that neither starts a transmission nor takes its token.
LEMMA OtherStepKeeps ==
  ASSUME Known, NEW t \in Tasks,
         UNCHANGED <<sem, state, error, cmd, payload, dma, isr, clk, dout, sensor>>,
         \A u \in Tasks : u # t => pc'[u] = pc[u] /\ call'[u] = call[u],
         pc'[t] \notin {"wait", "finish"},
         Calling'
  PROVE  AInv'
<1>1. \A u \in Tasks : pc'[u] \in {"wait", "finish"} => pc'[u] = pc[u] /\ call'[u] = call[u]
  OBVIOUS
<1>2. Commands'
  BY <1>1 DEF Known, AInv, Commands, Waits, Written
<1>3. SensorFollows' /\ Lines'
  BY <1>1 DEF Known, AInv, SensorFollows, Lines, Waits
<1>4. Results'
  BY <1>1 DEF Known, AInv, Results, Waits, Verdict, Promise, Written
<1> QED
  BY <1>2, <1>3, <1>4 DEF AInv

\* after the start of a transmission,
LEMMA StartKeeps ==
  ASSUME Known, NEW t \in Tasks, Start(t)
  PROVE  AInv'
<1>1. /\ pc[t] = "start" /\ pc' = [pc EXCEPT ![t] = "wait"] /\ cmd' = call[t].op
      /\ call[t].op \in Operations
      /\ state' = Row(SeqOf[call[t].op], "FIN", 0)
      /\ dma' = "cmd" /\ isr' = "none"
      /\ call[t].op = "status_write" => payload' = Written(t)
      /\ UNCHANGED <<call, ret, lock, sem, sensor>>
  BY DEF Start, SensorReadStart, StatusWriteStart, StatusReadStart, SoftwareResetStart,
     Prepare, Goto, TaskMayRun, SeqOf, Operations, Measurements, Written, rtosVars
<1>2. \A u \in Tasks : u # t => pc[u] \notin {"start", "wait", "finish"}
  BY <1>1 DEF Known, MutualExclusion
<1>3. sem = 0
  BY <1>1, <1>2 DEF Known, QInv, RestsUnused
<1>4. SeqOf[call[t].op] # "NONE"
  BY <1>1, SequenceOfCall
<1>5. Calling'
  BY <1>1 DEF Known, TypeOK, AInv, Calling
<1>6. Commands'
  BY <1>1, <1>2, <1>4 DEF Known, TypeOK, Commands, RowExists, CommandSteps, PayloadSteps, Row,
     Waits, Written
<1>7. SensorFollows' /\ Lines'
  BY <1>1 DEF Known, AInv, SensorFollows, Lines, PayloadSteps, Row
<1>8. Results'
  BY <1>1, <1>2, <1>3 DEF Known, TypeOK, Results, Waits, Row
<1> QED
  BY <1>5, <1>6, <1>7, <1>8 DEF AInv

\* after the take of its token,
LEMMA TakeSemKeeps ==
  ASSUME Known, NEW t \in Tasks, TakeSem(t)
  PROVE  AInv'
<1>1. /\ pc[t] = "wait" /\ pc' = [pc EXCEPT ![t] = "finish"] /\ sem = 1
      /\ UNCHANGED <<call, ret, lock, state, error, cmd, payload, dma, isr, clk, dout, sensor>>
  BY DEF TakeSem, Goto, deviceVars, bufferVars, sourceVars, pinVars
<1>2. \A u \in Tasks : u # t => pc[u] \notin {"wait", "finish"}
  BY <1>1 DEF Known, MutualExclusion
<1>3. Verdict(t)
  BY <1>1 DEF Known, AInv, Results, Waits
<1>4. Calling'
  BY <1>1 DEF Known, TypeOK, AInv, Calling
<1>5. \A u \in Tasks : ~Waits(u)'
  BY <1>1, <1>2 DEF Known, TypeOK, Waits
<1>6. Commands' /\ SensorFollows' /\ Lines'
  BY <1>1, <1>5 DEF Known, AInv, Commands, SensorFollows, Lines
<1>7. Results'
  BY <1>1, <1>2, <1>3, <1>5 DEF Known, TypeOK, Results, Verdict, Promise, Written
<1> QED
  BY <1>4, <1>6, <1>7 DEF AInv

\* and after any other step of a task.
LEMMA TaskStepKeeps ==
  ASSUME Known, NEW t \in Tasks, TaskStep(t)
  PROVE  AInv'
<1> USE DEF Goto, Return, rtosVars, deviceVars, bufferVars, sourceVars, pinVars
<1>1. CASE TakeLock(t)
  <2>1. Calling'
    BY <1>1, TasksAssumption DEF TakeLock, Known, TypeOK, AInv, Calling
  <2> QED
    BY <1>1, <2>1, OtherStepKeeps DEF TakeLock, Known, TypeOK
<1>2. CASE LockTimeout(t)
  <2>1. Calling'
    BY <1>2 DEF LockTimeout, Known, TypeOK, AInv, Calling, Idle
  <2> QED
    BY <1>2, <2>1, OtherStepKeeps DEF LockTimeout, Known, TypeOK
<1>3. CASE InterruptTimeout(t)
  <2>1. Calling'
    BY <1>3, TasksAssumption DEF InterruptTimeout, Known, TypeOK, AInv, Calling, Idle
  <2> QED
    BY <1>3, <2>1, OtherStepKeeps DEF InterruptTimeout, Known, TypeOK
<1>4. CASE Convert(t)
  <2>1. Calling'
    BY <1>4 DEF Convert, Known, TypeOK, AInv, Calling, Idle
  <2> QED
    BY <1>4, <2>1, OtherStepKeeps DEF Convert, Known, TypeOK
<1>5. CASE ReadResult(t)
  <2>1. /\ pc[t] = "finish" /\ lock' = NoTask
        /\ \/ /\ pc' = [pc EXCEPT ![t] = "idle"] /\ call' = [call EXCEPT ![t] = Idle]
              /\ \E result \in Errors : ret' = [ret EXCEPT ![t] = result]
           \/ /\ pc' = [pc EXCEPT ![t] = "convert"] /\ UNCHANGED call
              /\ call[t].op \in Measurements /\ ret' = [ret EXCEPT ![t] = "OK"]
        /\ UNCHANGED <<sem, state, error, cmd, payload, dma, isr, clk, dout, sensor>>
    BY <1>5 DEF ReadResult, SensorReadFinish, StatusWriteFinish, StatusReadFinish,
       SoftwareResetFinish, Finish, Errors, Known, TypeOK
  <2>2. Calling'
    <3>1. \A u \in Tasks : u # t => pc[u] \notin {"start", "wait", "finish"} /\ lock # u
      BY <2>1 DEF Known, AInv, Calling, MutualExclusion
    <3>2. CASE pc' = [pc EXCEPT ![t] = "idle"] /\ call' = [call EXCEPT ![t] = Idle]
      BY <2>1, <3>1, <3>2, TasksAssumption DEF Known, TypeOK, AInv, Calling, Idle
    <3>3. CASE /\ pc' = [pc EXCEPT ![t] = "convert"] /\ UNCHANGED call
               /\ call[t].op \in Measurements /\ ret' = [ret EXCEPT ![t] = "OK"]
      BY <2>1, <3>1, <3>3, TasksAssumption DEF Known, TypeOK, AInv, Calling
    <3> QED
      BY <2>1, <3>2, <3>3
  <2> QED
    BY <2>1, <2>2, OtherStepKeeps DEF Known, TypeOK
<1> QED
  BY <1>1, <1>2, <1>3, <1>4, <1>5, StartKeeps, TakeSemKeeps DEF TaskStep

\* Every step keeps the invariant.
LEMMA KnownStep ==
  ASSUME Known, [Next]_vars
  PROVE  AInv'
<1>1. CASE UNCHANGED vars
  BY <1>1 DEF vars, taskVars, rtosVars, deviceVars, bufferVars, sourceVars, pinVars, Known,
     AInv, Calling, Commands, SensorFollows, Lines, Results, Waits, Written, Verdict, Promise
<1> QED
  BY <1>1, CallKeeps, TaskStepKeeps, IsrKeeps, HardwareKeeps DEF Next

\* A verdict read at the end of a call is one of the call's, and an OK is true.
THEOREM KnownAlways == Spec => []Known
<1>1. Init => AInv
  <2> SUFFICES ASSUME Init PROVE AInv
    OBVIOUS
  <2>1. Calling
    BY TasksAssumption DEF Init, Calling, Idle
  <2>2. Commands /\ SensorFollows /\ Lines /\ Results
    BY DEF Init, Commands, RowExists, CommandSteps, PayloadSteps, SensorFollows, Lines,
       Results, Waits, END, Row
  <2> QED
    BY <2>1, <2>2 DEF AInv
<1>2. TypeOK /\ MutualExclusion /\ QInv /\ AInv /\ [Next]_vars => AInv'
  BY KnownStep DEF Known
<1>3. TypeOK /\ MutualExclusion /\ QInv /\ AInv => Known
  BY DEF Known
<1> QED
  BY <1>1, <1>2, <1>3, TypeCorrect, Exclusion, Invariance, PTL DEF Spec
-----------------------------------------------------------------------------
(* Each step is one of the interface *)

\* Driver and interface name operations and results alike.
LEMMA SameNames ==
  /\ Api!Idle = Idle /\ Api!Writers = Writers /\ Api!Readers = Readers
  /\ \A t : Api!Written(t) = Written(t)
BY DEF Api!Idle, Idle, Api!Writers, Writers, Api!Readers, Readers, Api!Written, Written,
   Api!SREG_bm, SREG_bm, Api!Operations, Operations, Api!Measurements, Measurements

\* The sensor takes over what the call writes, or the interface sees nothing.
LEMMA RegisterRefined ==
  ASSUME Known, Isr \/ TimerTick \/ Transfer \/ SensorReady
  PROVE  (\E t \in Tasks : Api!Write(t)) \/ UNCHANGED Api!vars
<1>1. UNCHANGED <<call, ret, lock, status, crcInit>>
  BY DEF Isr, TimerTick, Transfer, DmaDone, DmaError, SensorReady, TimerIsr, GpioIsr,
     ProcessTimerEnable, ProcessPayload, ProcessCrcFallingEdge, ProcessDataFallingEdge,
     ProcessRisingEdge, ProcessInputAckStart, ProcessOutputAckFallingEdge,
     ProcessReleaseData, ProcessAckWait, ProcessWaitReady, ProcessDone, ProcessError,
     Process, taskVars, rtosVars, settingVars
<1>2. CASE sensor'.status = sensor.status
  BY <1>1, <1>2 DEF Api!vars
<1>3. CASE sensor'.status # sensor.status
  <2>1. Isr
    BY <1>3 DEF TimerTick, Transfer, DmaDone, DmaError, SensorReady, SensorHears,
       SensorHearsPayload, Known, TypeOK, SensorStates
  <2>2. isr # "none" /\ \E level \in {0, 1} : sensor' = SensorFalls(sensor, level, payload)
    BY <1>3, <2>1 DEF Isr, TimerIsr, GpioIsr, ProcessTimerEnable, ProcessPayload,
       ProcessCrcFallingEdge, ProcessDataFallingEdge, ProcessRisingEdge, ClockHigh,
       ProcessInputAckStart, ProcessOutputAckFallingEdge, ProcessReleaseData,
       ProcessAckWait, ProcessWaitReady, ProcessDone, ProcessError, TransmissionDone,
       Process, ClockLow, pinVars, Known, TypeOK
  <2>3. PICK t \in Tasks : Waits(t)
    BY <2>2, WhenProcessing DEF Known, Waits
  <2>4. call[t].op \in Writers /\ sensor'.status = Written(t)
    BY <1>3, <2>2, <2>3, WhenProcessing, RegisterFalls DEF Known
  <2>5. lock = t
    BY <2>3 DEF Known, MutualExclusion, Waits
  <2> QED
    BY <1>1, <2>4, <2>5, SameNames DEF Api!Write
<1> QED
  BY <1>2, <1>3

\* The end of a call, by its function.
LEMMA ResultRefined ==
  ASSUME Known, NEW t \in Tasks, ReadResult(t)
  PROVE  Api!EndRead(t) \/ Api!EndMeasurement(t) \/ Api!EndWrite(t) \/ Api!Fail(t)
<1>1. /\ pc[t] = "finish" /\ lock' = NoTask /\ UNCHANGED sensor
  BY DEF ReadResult, SensorReadFinish, StatusWriteFinish, StatusReadFinish,
     SoftwareResetFinish, Finish
<1>2. /\ lock = t /\ Verdict(t)
      /\ call[t].op = "status_write" \/ call[t].arg = {}
  BY <1>1 DEF Known, MutualExclusion, AInv, Results, Calling
<1>3. ASSUME NEW result,
             call' = [call EXCEPT ![t] = Idle], ret' = [ret EXCEPT ![t] = result]
      PROVE  Api!Leave(t, result)
  BY <1>1, <1>2, <1>3, SameNames DEF Api!Leave
<1>4. CASE SensorReadFinish(t)
  <2> DEFINE result == IF error = "OK" /\ ~ReadingArrived THEN "INVALID_CRC" ELSE error
  <2>1. /\ call[t].op \in Measurements
        /\ \/ /\ result = "OK" /\ ret' = [ret EXCEPT ![t] = result] /\ UNCHANGED call
           \/ /\ result # "OK" /\ ret' = [ret EXCEPT ![t] = result]
              /\ call' = [call EXCEPT ![t] = Idle]
        /\ UNCHANGED <<status, crcInit>>
    BY <1>4 DEF SensorReadFinish, Return, settingVars
  <2>2. CASE result = "OK"
    <3>1. crcInit = sensor.status
      BY <2>2 DEF ReadingArrived, CrcAccepts
    <3> QED
      BY <1>1, <1>2, <2>1, <2>2, <3>1 DEF Api!EndMeasurement, Api!Measurements, Measurements
  <2>3. CASE result # "OK"
    <3>1. call[t].op \in Readers /\ call[t].op \notin Writers
      BY <2>1 DEF Readers, Writers, Operations, Measurements
    <3>2. result \in Api!Failures(call[t].op)
      BY <1>2, <2>1, <2>3, <3>1, SameNames DEF Verdict, Api!Failures, Measurements
    <3> QED
      BY <1>3, <2>1, <2>3, <3>1, <3>2, SameNames DEF Api!Fail
  <2> QED
    BY <2>2, <2>3
<1>5. CASE StatusReadFinish(t)
  <2> DEFINE result == IF error = "OK" /\ ~RegisterArrived THEN "INVALID_CRC" ELSE error
  <2>1. /\ call[t].op = "status_read"
        /\ ret' = [ret EXCEPT ![t] = result] /\ call' = [call EXCEPT ![t] = Idle]
        /\ status' = IF result = "OK" THEN sensor.status ELSE status
        /\ crcInit' = IF result = "OK" THEN sensor.status ELSE crcInit
    BY <1>5 DEF StatusReadFinish, Return
  <2>2. CASE result = "OK"
    <3>1. crcInit = sensor.status
      BY <2>2 DEF RegisterArrived, CrcAccepts
    <3> QED
      BY <1>3, <2>1, <2>2, <3>1 DEF Api!EndRead
  <2>3. CASE result # "OK"
    <3>1. call[t].op \in Readers /\ call[t].op \notin Writers
      BY <2>1 DEF Readers, Writers, Operations
    <3>2. result \in Api!Failures(call[t].op)
      BY <1>2, <2>1, <2>3, <3>1, SameNames DEF Verdict, Api!Failures
    <3> QED
      BY <1>3, <2>1, <2>3, <3>1, <3>2, SameNames DEF Api!Fail
  <2> QED
    BY <2>2, <2>3
<1>6. CASE StatusWriteFinish(t) \/ SoftwareResetFinish(t)
  <2>1. /\ call[t].op \in Writers
        /\ ret' = [ret EXCEPT ![t] = error] /\ call' = [call EXCEPT ![t] = Idle]
        /\ status' = call[t].arg /\ crcInit' = call[t].arg
    BY <1>2, <1>6 DEF StatusWriteFinish, SoftwareResetFinish, Return, Writers
  <2>2. Api!Leave(t, error) /\ Api!Believe(t)
    BY <1>3, <2>1 DEF Api!Believe
  <2>3. CASE error = "OK"
    <3>1. sensor.status = Written(t)
      BY <1>2, <2>1, <2>3 DEF Verdict, Promise
    <3> QED
      BY <2>1, <2>2, <2>3, <3>1, SameNames DEF Api!EndWrite
  <2>4. CASE error # "OK"
    <3>1. error \in Api!Failures(call[t].op) /\ error # "BUSY"
      BY <1>2, <2>1, <2>4, SameNames DEF Verdict, Api!Failures, Writers, Readers, Operations
    <3> QED
      BY <2>1, <2>2, <3>1, SameNames DEF Api!Fail
  <2> QED
    BY <2>3, <2>4
<1> QED
  BY <1>4, <1>5, <1>6 DEF ReadResult

\* What a task does is what the interface lets it do.
LEMMA TaskStepRefined ==
  ASSUME Known, NEW t \in Tasks, TaskStep(t)
  PROVE  [Api!Next]_Api!vars
<1> USE DEF Goto, Return, rtosVars, settingVars
<1>1. CASE TakeLock(t)
  <2>1. Api!Begin(t)
    BY <1>1, SameNames DEF TakeLock, Api!Begin, Known, AInv, Calling
  <2> QED
    BY <2>1 DEF Api!Next
<1>2. CASE LockTimeout(t)
  <2>1. lock \notin {t, NoTask} /\ ret[t] = "BUSY" /\ call[t] # Idle
    BY <1>2 DEF LockTimeout, Known, AInv, Calling
  <2>2. ret' = ret
    BY <1>2, <2>1 DEF LockTimeout, Known, TypeOK
  <2>3. Api!GiveUp(t)
    BY <1>2, <2>1, <2>2, SameNames DEF LockTimeout, Api!GiveUp
  <2> QED
    BY <2>3 DEF Api!Next
<1>3. CASE Start(t) \/ TakeSem(t)
  BY <1>3 DEF Start, SensorReadStart, StatusWriteStart, StatusReadStart, SoftwareResetStart,
     Prepare, TakeSem, Api!vars
<1>4. CASE InterruptTimeout(t)
  <2>1. lock = t
    BY <1>4 DEF InterruptTimeout, Known, MutualExclusion
  <2>2. Api!Leave(t, "BUSY")
    BY <1>4, <2>1, SameNames DEF InterruptTimeout, Api!Leave
  <2>3. Api!Fail(t)
    BY <1>4, <2>2 DEF InterruptTimeout, Api!Fail, Api!Failures
  <2> QED
    BY <2>3 DEF Api!Next
<1>5. CASE ReadResult(t)
  BY <1>5, ResultRefined DEF Api!Next
<1>6. CASE Convert(t)
  <2>1. lock # t /\ ret[t] = "OK" /\ call[t].op \in Measurements
    BY <1>6 DEF Convert, Known, AInv, Calling
  <2>2. ret' = ret
    BY <1>6 DEF Convert, Known, TypeOK
  <2>3. Api!Convert(t)
    BY <1>6, <2>1, <2>2, SameNames DEF Convert, Api!Convert, Api!Measurements, Measurements
  <2> QED
    BY <2>3 DEF Api!Next
<1> QED
  BY <1>1, <1>2, <1>3, <1>4, <1>5, <1>6 DEF TaskStep

\* Every step is one of the interface, or none that its callers see.
LEMMA StepRefined ==
  ASSUME Known, [Next]_vars
  PROVE  [Api!Next]_Api!vars
<1>1. ASSUME NEW t \in Tasks, NEW op \in Ops, NEW arg \in StatusArgs \cup {{}},
             Call(t, op, arg)
      PROVE  Api!Next
  <2>1. /\ op \in Operations /\ arg \in SUBSET Flags
        /\ op = "status_write" \/ arg = {}
    BY <1>1, OpsAssumption, ArgsAssumption DEF Call
  <2>2. call[t] = Idle
    BY <1>1 DEF Call, Known, AInv, Calling
  <2>3. /\ call' = [call EXCEPT ![t] = [op |-> op, arg |-> arg]]
        /\ ret' = [ret EXCEPT ![t] = "BUSY"]
        /\ UNCHANGED <<lock, sensor, status, crcInit>>
    BY <1>1 DEF Call, rtosVars, settingVars
  <2>4. Api!Call(t)
    BY <2>1, <2>2, <2>3, SameNames
    DEF Api!Call, Api!Operations, Operations, Api!Measurements, Measurements, Api!Flags, Flags
  <2> QED
    BY <2>4 DEF Api!Next
<1>2. CASE UNCHANGED vars
  BY <1>2 DEF vars, taskVars, rtosVars, settingVars, Api!vars
<1>3. CASE Isr \/ TimerTick \/ Transfer \/ SensorReady
  BY <1>3, RegisterRefined DEF Api!Next
<1> QED
  BY <1>1, <1>2, <1>3, TaskStepRefined DEF Next

\* For its callers the driver is the interface of Sht1xApi: whatever the handlers,
\* the wires, failing transfers and the other tasks do, calls take turns, the
\* register changes only to what the call that has its turn writes, and no call
\* reports a success it did not have.
THEOREM Refinement == Spec => Implements
<1>1. Init => Api!Init
  BY SameNames DEF Init, Api!Init
<1>2. Known /\ [Next]_vars => [Api!Next]_Api!vars
  BY StepRefined
<1> QED
  BY <1>1, <1>2, KnownAlways, PTL DEF Spec, Implements, Api!Spec
=============================================================================
