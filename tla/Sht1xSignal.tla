------------------------------ MODULE Sht1xSignal ---------------------------
(***************************************************************************)
(* What the SHT1x driver puts on the wires: the bit patterns of            *)
(* src/src/sht1x.c, the buffers device.cmd and device.cmd_payload they are *)
(* assembled in, and the uDMA transfer that writes one byte of a buffer to *)
(* the clock and data pins per period of the timer.  The receiving end of  *)
(* the sensor (not in the repository) turns edges into commands.           *)
(*                                                                         *)
(* Module Sht1x abstracts a whole transfer to one step in which the sensor *)
(* hears the command; this module is about what happens in that step.      *)
(***************************************************************************)
EXTENDS Integers, Sequences

CONSTANTS
  Values       \* the values written to the register

\* Any bytes: that SHT1X_SREG_bm leaves three bits of them is not needed.
ASSUME ValuesAssumption == Values \subseteq 0..255 /\ 0 \in Values

(* A byte of a pattern is the set of pins it sets. *)
N == {}
C == {"CLOCK"}
D == {"DATA_OUT"}
BOTH == {"CLOCK", "DATA_OUT"}

\* Pulses with high data, one less and as many as the code has.
reset_sequence_short == [i \in 1..32 |-> IF (i - 1) % 4 < 2 THEN BOTH ELSE D]

reset_sequence == [i \in 1..36 |-> IF (i - 1) % 4 < 2 THEN BOTH ELSE D]

\* The reset sequence, the transmission start and the three bits of the address.
trans_start_pattern ==
  reset_sequence \o
    <<BOTH, BOTH, C, C, N, N, C, C, BOTH, BOTH, D, D, N, N,
      N, N, C, C,  N, N, C, C,  N, N, C, C>>

\* The write command with the read command's last bit.
patterns_copied ==
  [temperature    |-> <<N,N,N,C,  N,N,N,C,  N,N,N,C,     N,D,D,BOTH, D,D,D,BOTH>>,
   moisture       |-> <<N,N,N,C,  N,N,N,C,  N,D,D,BOTH,  D,N,C,      N,D,D,BOTH>>,
   status_read    |-> <<N,N,N,C,  N,N,N,C,  N,D,D,BOTH,  D,D,D,BOTH, D,D,D,BOTH>>,
   status_write   |-> <<N,N,N,C,  N,N,N,C,  N,D,D,BOTH,  D,D,D,BOTH, D,D,D,BOTH>>,
   software_reset |-> <<N,D,D,BOTH, D,D,D,BOTH, D,D,D,BOTH, D,D,D,BOTH, D,N,N,C>>]

\* Each command's bits c4 to c0, of four samples: the level of the bit before, then
\* its own.  c1 of the humidity command has three.
patterns ==
  [temperature    |-> <<N,N,N,C,  N,N,N,C,  N,N,N,C,     N,D,D,BOTH, D,D,D,BOTH>>,
   moisture       |-> <<N,N,N,C,  N,N,N,C,  N,D,D,BOTH,  D,N,C,      N,D,D,BOTH>>,
   status_read    |-> <<N,N,N,C,  N,N,N,C,  N,D,D,BOTH,  D,D,D,BOTH, D,D,D,BOTH>>,
   status_write   |-> <<N,N,N,C,  N,N,N,C,  N,D,D,BOTH,  D,D,D,BOTH, D,N,N,C>>,
   software_reset |-> <<N,D,D,BOTH, D,D,D,BOTH, D,D,D,BOTH, D,D,D,BOTH, D,N,N,C>>]

Commands == DOMAIN patterns

\* The command codes of the defines and of the comments on the patterns.
Code ==
  [temperature |-> 3, moisture |-> 5, status_read |-> 7, status_write |-> 6,
   software_reset |-> 30]

\* A reset that passes the humidity pattern's size, one byte less.
CommandSizeShort(op) ==
  Len(trans_start_pattern)
    + Len(patterns[IF op = "software_reset" THEN "moisture" ELSE op])

\* The size passed to sht1x_udma_set_buffer(); a reset passes another pattern's.
CommandSize(op) ==
  Len(trans_start_pattern)
    + Len(patterns[IF op = "software_reset" THEN "status_read" ELSE op])

BitOf(value, i) == (value \div 2^i) % 2

Level(value, i) == IF i \in 0..7 /\ BitOf(value, i) = 1 THEN D ELSE N

PayloadBufferSize == 32

\* Sample j of 0 to 3 of a bit that follows another one.
Sample(previous, own, j) ==
  IF j = 0 THEN previous ELSE IF j = 3 THEN own \cup C ELSE own

\* A payload that does not repeat the bit before while the clock falls.
PayloadEarly(value) ==
  [i \in 1..PayloadBufferSize |->
     LET own == Level(value, 7 - (i - 1) \div 4) IN Sample(own, own, (i - 1) % 4)]

\* The lowest bit first.
PayloadReversed(value) ==
  [i \in 1..PayloadBufferSize |->
     LET k == (i - 1) \div 4
     IN Sample(Level(value, k - 1), Level(value, k), (i - 1) % 4)]

\* sht1x_command_payload_prepare(): the bits from 7 down to 0, each sampled
\* four times, starting with the level of the bit before it.
Payload(value) ==
  [i \in 1..PayloadBufferSize |->
     LET k == 7 - (i - 1) \div 4
     IN Sample(Level(value, k + 1), Level(value, k), (i - 1) % 4)]

CmdBufferSize == 255

VARIABLES
  job,      \* the operation on the wires and the value it writes, of which
            \* device.cmd_payload is filled anew by each write
  phase,    \* "free", then the transfers of the job: "cmd", "ack", "payload"
  cmd,      \* device.cmd
  pos,      \* bytes the uDMA has transferred
  pins,     \* levels of the output pins
  receiver  \* the sensor: clock pulses with high data, progress of the start
            \* sequence, bits since
vars == <<job, phase, cmd, pos, pins, receiver>>

TransferSize == IF phase = "payload" THEN PayloadBufferSize ELSE CommandSize(job.op)

StartSteps == 0..4

TypeOK ==
  /\ job \in [op : Commands, value : Values]
  /\ phase \in {"free", "cmd", "ack", "payload"}
  /\ cmd \in [1..CmdBufferSize -> SUBSET BOTH]
  /\ pos \in 0..CmdBufferSize
  /\ pins \in SUBSET BOTH
  /\ receiver.ones \in 0..9
  /\ receiver.start \in StartSteps
  /\ receiver.bits \in Seq(0..1)
  /\ Len(receiver.bits) <= 8

\* The pins rest, or are wherever a failed transfer has left them.
Init ==
  /\ job \in [op : Commands, value : Values]
  /\ phase = "free"
  /\ cmd = [i \in 1..CmdBufferSize |-> N]
  /\ pos = 0
  /\ pins \in SUBSET BOTH
  /\ receiver = [ones |-> 0, start |-> 4, bits |-> <<>>]

-----------------------------------------------------------------------------
(* The sensor's receiver *)

\* The transmission start: data falls while the clock is high, the clock goes
\* low and high, data rises while the clock is high, and the clock goes low.
StartStep(r, old, new) ==
  IF old = BOTH /\ new = C THEN 1 ELSE
  CASE r.start = 1 /\ old = C /\ new = N -> 2
    [] r.start = 2 /\ old = N /\ new = C -> 3
    [] r.start = 3 /\ old = C /\ new = BOTH -> 4
    [] old = new \/ r.start = 4 -> r.start
    [] OTHER -> 0

RisingEdge(old, new) == "CLOCK" \notin old /\ "CLOCK" \in new

\* Nine pulses with high data reset the interface, a start begins a command,
\* and data is sampled when the clock rises.
Hears(r, old, new) ==
  LET high == "DATA_OUT" \in new
      ones == IF RisingEdge(old, new)
              THEN (IF ~high THEN 0 ELSE IF r.ones = 9 THEN 9 ELSE r.ones + 1)
              ELSE r.ones
      start == StartStep(r, old, new)
      bits == IF start # 4 \/ r.start # 4 THEN <<>>
              ELSE IF RisingEdge(old, new) /\ Len(r.bits) < 8
                   THEN Append(r.bits, IF high THEN 1 ELSE 0)
                   ELSE r.bits
  IN [ones |-> ones, start |-> start, bits |-> bits]

-----------------------------------------------------------------------------
(* The driver *)

\* A buffer that new commands are put in front of.
AssembledInFront(op) == trans_start_pattern \o patterns[op] \o cmd

\* memcpy of the two parts; what an earlier, longer command left stays behind.
Assembled(op) ==
  LET pattern == trans_start_pattern \o patterns[op]
  IN [i \in 1..CmdBufferSize |-> IF i <= Len(pattern) THEN pattern[i] ELSE cmd[i]]

Prepare(op, value) ==
  /\ phase = "free"
  /\ op = "status_write" \/ value = 0
  /\ job' = [op |-> op, value |-> value]
  /\ phase' = "cmd"
  /\ cmd' = Assembled(op)
  /\ pos' = 0
  /\ UNCHANGED <<pins, receiver>>

\* One byte of the transfer goes to the port: both pins change at once.
Shift ==
  /\ phase \in {"cmd", "payload"}
  /\ pos < TransferSize
  /\ pos' = pos + 1
  /\ pins' = IF phase = "cmd" THEN cmd[pos + 1] ELSE Payload(job.value)[pos + 1]
  /\ receiver' = Hears(receiver, pins, pins')
  /\ UNCHANGED <<job, phase, cmd>>

\* A bus error ends a transfer early.
Abort ==
  /\ phase \in {"cmd", "payload"}
  /\ pos < TransferSize
  /\ phase' = "free"
  /\ UNCHANGED <<job, cmd, pos, pins, receiver>>

\* The acknowledge rows: the clock falls, data is released, a pulse.  Without a
\* payload the rest of the transmission leaves the pins at rest.
Acknowledge ==
  /\ phase = "cmd"
  /\ pos = TransferSize
  /\ phase' = IF job.op = "status_write" THEN "ack" ELSE "free"
  /\ pins' = D
  /\ receiver' = [ones |-> 0, start |-> 4, bits |-> <<>>]
  /\ UNCHANGED <<job, cmd, pos>>

StartPayload ==
  /\ phase = "ack"
  /\ phase' = "payload"
  /\ pos' = 0
  /\ UNCHANGED <<job, cmd, pins, receiver>>

Done ==
  /\ phase = "payload"
  /\ pos = TransferSize
  /\ phase' = "free"
  /\ pins' = D
  /\ receiver' = [ones |-> 0, start |-> 4, bits |-> <<>>]
  /\ UNCHANGED <<job, cmd, pos>>

Next ==
  \/ \E op \in Commands, value \in Values : Prepare(op, value)
  \/ Shift
  \/ Abort
  \/ Acknowledge
  \/ StartPayload
  \/ Done

Spec == Init /\ [][Next]_vars

-----------------------------------------------------------------------------
(* Properties *)

Sent(p) == phase = p /\ pos = TransferSize

\* The sensor has the bits of a byte, the highest first.
Heard(byte) ==
  /\ Len(receiver.bits) = 8
  /\ \A k \in 1..8 : receiver.bits[k] = BitOf(byte, 8 - k)

\* When a command's transfer ends, the sensor has heard address 0 and the code
\* the checksum is computed with, whatever the pins and the buffer held before
\* and although the transfer's size is written apart from the pattern.
CommandHeard == Sent("cmd") => receiver.start = 4 /\ Heard(Code[job.op])

\* The interface is reset by nine pulses before the start sequence, also when an
\* earlier transfer left the clock high.
InterfaceReset ==
  phase = "cmd" /\ pos = Len(reset_sequence) + 3 => receiver.ones = 9

\* When the payload's transfer ends the sensor has heard the value to write.
PayloadHeard == Sent("payload") => Heard(job.value)

\* The levels a transfer leaves on the pins are those module Sht1x computes from
\* the command or the value: the clock high, data at the last bit.
LastLevels ==
  (Sent("cmd") \/ Sent("payload")) =>
    pins = C \cup (IF phase = "payload" THEN Level(job.value, 0)
                   ELSE Level(Code[job.op], 0))

\* Within address, command and payload, data is stable while the clock is high and
\* around both of its edges: the level is there one sample before the clock
\* rises and still there when it falls.
Setup ==
  [][Shift /\ (phase = "payload" \/ pos > Len(trans_start_pattern) - 12)
       /\ ("CLOCK" \in pins \cup pins') =>
       pins \cap D = pins' \cap D]_vars
=============================================================================
