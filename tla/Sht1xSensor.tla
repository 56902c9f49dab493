----------------------------- MODULE Sht1xSensor ----------------------------
(***************************************************************************)
(* The SHT1x sensor at the other end of the two wires, as the driver in    *)
(* src/src/sht1x.c uses it (the sensor itself is not in the repository).   *)
(* It reacts to the clock's falling edges and to the patterns the uDMA     *)
(* shifts out:                                                             *)
(*                                                                         *)
(*   heard     the command's bits were recognised; the next falling edge   *)
(*             starts the acknowledge                                      *)
(*   ack       data is pulled low                                          *)
(*   measuring a conversion runs; data is pulled low when it ends          *)
(*   send      the next bit of the answer is on the data line              *)
(*   byteack   a byte has been sent; low data at the falling edge asks for *)
(*             the next one                                                *)
(*   payload   the register's new value is expected                        *)
(*   pheard, pack   like heard and ack, for the payload                    *)
(*   idle      no transmission                                             *)
(*                                                                         *)
(* The bits of an answer are abstracted to their positions 1, 2, ... in    *)
(* the stream: what the driver must get right is to record each position   *)
(* once and in order.  A register is the set of its flags that are 1.      *)
(***************************************************************************)
EXTENDS Integers

Flags == {"LOW_RES", "OTP", "HEATER", "LOW_VOLTAGE"}

\* The flags a write may change, SHT1X_SREG_bm of src/src/sht1x.h.
SREG_bm == {"LOW_RES", "OTP", "HEATER"}

Measurements == {"temperature", "moisture"}

Operations == Measurements \cup {"status_read", "status_write", "software_reset"}

SensorPhases == {"idle", "heard", "ack", "measuring", "send", "byteack",
                 "payload", "pheard", "pack"}

SensorStates == [phase : SensorPhases, cmd : Operations, sent : Nat,
                 status : SUBSET Flags]

\* Bits of an answer: two bytes and a checksum, or one byte and a checksum.
StreamLength(cmd) == IF cmd \in Measurements THEN 24 ELSE 16

\* The reset sequence in front of every command ends whatever went on before.
SensorHears(s, cmd, heard) ==
  [s EXCEPT !.phase = IF heard THEN "heard" ELSE "idle", !.cmd = cmd, !.sent = 0]

SensorHearsPayload(s, heard) ==
  [s EXCEPT !.phase = IF s.phase = "payload" /\ heard THEN "pheard" ELSE "idle"]

\* What follows the acknowledge of a command.
AfterAck ==
  [temperature |-> "measuring", moisture |-> "measuring", status_read |-> "send",
   status_write |-> "payload", software_reset |-> "idle"]

EndAck(s) ==
  [s EXCEPT !.phase = AfterAck[s.cmd],
            !.status = IF s.cmd = "software_reset" THEN {} ELSE @]

EndBit(s) ==
  [s EXCEPT !.phase = IF s.sent \in {7, 15, 23} THEN "byteack" ELSE "send",
            !.sent = s.sent + 1]

\* A falling edge of the clock while the driver holds the data line at dout.
SensorFalls(s, dout, payload) ==
  CASE s.phase = "heard"   -> [s EXCEPT !.phase = "ack"]
    [] s.phase = "ack"     -> EndAck(s)
    [] s.phase = "send"    -> EndBit(s)
    [] s.phase = "byteack" ->
         [s EXCEPT !.phase = IF dout = 0 /\ s.sent < StreamLength(s.cmd)
                             THEN "send" ELSE "idle"]
    [] s.phase = "pheard"  -> [s EXCEPT !.phase = "pack", !.status = payload]
    [] s.phase = "pack"    -> [s EXCEPT !.phase = "idle"]
    [] OTHER               -> s

\* The levels the driver may read: low while the sensor acknowledges or the
\* driver itself pulls the line, either while a bit of an answer is out.
DataLevels(s, dout) ==
  IF dout = 0 \/ s.phase \in {"ack", "pack"} THEN {0}
  ELSE IF s.phase = "send" THEN {0, 1} ELSE {1}

\* The position of the bit on the line; 0 stands for a level that is no bit
\* of the answer.
BitOnLine(s) == IF s.phase = "send" THEN s.sent + 1 ELSE 0
=============================================================================
