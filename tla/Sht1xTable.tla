----------------------------- MODULE Sht1xTable -----------------------------
(***************************************************************************)
(* The transition table of the SHT1x driver: the enum sht1x_sidx_t and the *)
(* constant array states[] of src/src/sht1x.c, which sht1x_process() walks *)
(* one row per interrupt.                                                  *)
(*                                                                         *)
(* A row name such as SHT1X_SIDX_SREGR_DATA_3C is the record               *)
(* [seq |-> "SREGR", step |-> "DATAC", bit |-> 3]: the four command        *)
(* sequences of the enum share the names of their steps, and the trailing  *)
(* C (clock) of a bit row is part of the step.  BYTE2_* and BYTE1_* are    *)
(* the acknowledge rows after bits 8 and 0 (SREGR_DATA_* is SREGR's).      *)
(***************************************************************************)
EXTENDS Integers

Seqs == {"SENSOR", "SREGR", "SREGW", "SOFT_RESET", "NONE"}

\* sht1x_state_output_t of each step; ACKE's depends on the sequence.
StepOutput ==
  [END           |-> "DONE",
   FAIL          |-> "DONE",
   FIN           |-> "TIMER_ENABLE",
   ACK           |-> "OUTPUT_ACK_START",
   ACKC          |-> "OUTPUT_ACK_RISING_EDGE",
   ACKE          |-> "OUTPUT_ACK_FALLING_EDGE",
   WAIT_READY    |-> "WAIT_READY",
   DATA          |-> "READ_RISING_EDGE",
   DATAC         |-> "DATA_FALLING_EDGE",
   BYTE_ACKS     |-> "INPUT_ACK_START",
   BYTE_ACK      |-> "INPUT_ACK_RISING_EDGE",
   BYTE_ACKC     |-> "INPUT_ACK_FALLING_EDGE",
   CRC           |-> "READ_RISING_EDGE",
   CRCC          |-> "CRC_FALLING_EDGE",
   CRC_ACKS      |-> "INPUT_ACK_START",
   CRC_ACK       |-> "INPUT_ACK_RISING_EDGE",
   CRC_ACKC      |-> "INPUT_ACK_FALLING_EDGE",
   PAYLOAD       |-> "PAYLOAD",
   PAYLOAD_FIN   |-> "TIMER_ENABLE",
   PAYLOAD_ACK   |-> "OUTPUT_ACK_START",
   PAYLOAD_ACKC  |-> "OUTPUT_ACK_RISING_EDGE",
   PAYLOAD_ACKE  |-> "OUTPUT_ACK_FALLING_EDGE"]

Steps == DOMAIN StepOutput

States == [seq : Seqs, step : Steps, bit : 0..15]

Row(seq, step, bit) == [seq |-> seq, step |-> step, bit |-> bit]

END == Row("NONE", "END", 0)

FAIL == Row("NONE", "FAIL", 0)

Errors == {"OK", "NO_CMD_ACK", "NO_PAYLOAD_ACK", "MEASUREMENT_TIMEOUT",
           "BUSY", "INVALID_CRC", "UDMA_FAILURE", "UNKNOWN"}

Output(s) ==
  IF s.step = "ACKE" /\ s.seq = "SENSOR" THEN "OUTPUT_ACK_WAIT"
                                         ELSE StepOutput[s.step]

-----------------------------------------------------------------------------
(* Successor rows *)

\* Steps whose successor is another step of the same sequence and bit.
Straight ==
  [FIN         |-> "ACK",         ACK          |-> "ACKC",
   ACKC        |-> "ACKE",        DATA         |-> "DATAC",
   BYTE_ACKS   |-> "BYTE_ACK",    BYTE_ACK     |-> "BYTE_ACKC",
   CRC         |-> "CRCC",        CRC_ACKS     |-> "CRC_ACK",
   CRC_ACK     |-> "CRC_ACKC",    PAYLOAD      |-> "PAYLOAD_FIN",
   PAYLOAD_FIN |-> "PAYLOAD_ACK", PAYLOAD_ACK  |-> "PAYLOAD_ACKC",
   PAYLOAD_ACKC |-> "PAYLOAD_ACKE"]

\* The row after an acknowledged command.
AfterCommand ==
  [SENSOR     |-> Row("SENSOR", "WAIT_READY", 0),
   SREGR      |-> Row("SREGR", "DATA", 7),
   SREGW      |-> Row("SREGW", "PAYLOAD", 0),
   SOFT_RESET |-> END,
   NONE       |-> END]

\* A last data row that goes on like the others.
AfterDataBitMissesEnd(s) ==
  IF s.bit = 8 THEN [s EXCEPT !.step = "BYTE_ACKS"] ELSE Row(s.seq, "DATA", s.bit - 1)

\* The row after bit s.bit of the data is sampled: a byte ends at bits 8 and 0.
AfterDataBit(s) ==
  IF s.bit \in {0, 8} THEN [s EXCEPT !.step = "BYTE_ACKS"]
                      ELSE Row(s.seq, "DATA", s.bit - 1)

\* An acknowledge row of the second byte copied from the first.
AfterByteAckCopied(s) == Row(s.seq, "DATA", 7)

\* The row after a byte's acknowledge: the low byte or the checksum.
AfterByteAck(s) == Row(s.seq, IF s.bit = 8 THEN "DATA" ELSE "CRC", 7)

\* SENSOR_CRC_0C skips SENSOR_CRC_ACKS: the measurement's last byte is not
\* acknowledged; SREGR_CRC_0C goes through SREGR_CRC_ACKS.
AfterCrcBit(s) ==
  IF s.bit > 0 THEN Row(s.seq, "CRC", s.bit - 1)
               ELSE Row(s.seq, IF s.seq = "SENSOR" THEN "CRC_ACK" ELSE "CRC_ACKS", 0)

\* next_state[0] of the row, and next_state[1] of all rows but the two below.
Follow(s) ==
  CASE s.step \in DOMAIN Straight -> [s EXCEPT !.step = Straight[s.step]]
    [] s.step = "ACKE"            -> AfterCommand[s.seq]
    [] s.step = "WAIT_READY"      -> Row(s.seq, "DATA", 15)
    [] s.step = "DATAC"           -> AfterDataBit(s)
    [] s.step = "BYTE_ACKC"       -> AfterByteAck(s)
    [] s.step = "CRCC"            -> AfterCrcBit(s)
    [] s.step = "FAIL"            -> FAIL
    [] OTHER                      -> END

\* A high data line in an acknowledge row: the sensor did not answer.
Refused(s, input) == s.step \in {"ACKE", "PAYLOAD_ACKE"} /\ input = 1

\* states[s].next_state[input]
NextState(s, input) == IF Refused(s, input) THEN FAIL ELSE Follow(s)

\* The payload row reports the command's error code: a copied table row.
NextErrorCopied(s, input) ==
  IF Refused(s, input) THEN "NO_CMD_ACK"
  ELSE IF s.step = "FAIL" THEN "UNKNOWN" ELSE "OK"

\* states[s].next_error[input]
NextError(s, input) ==
  CASE Refused(s, input) /\ s.step = "ACKE"         -> "NO_CMD_ACK"
    [] Refused(s, input) /\ s.step = "PAYLOAD_ACKE" -> "NO_PAYLOAD_ACK"
    [] s.step = "FAIL"                              -> "UNKNOWN"
    [] OTHER                                        -> "OK"
=============================================================================
