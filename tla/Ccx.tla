--------------------------------- MODULE Ccx --------------------------------
(***************************************************************************)
(* The CC1201 radio's driver ccx_t (src/src/ccx.h, src/src/ccx.cc) over    *)
(* the SSI device, and the main task that boots both (main_task.cc).       *)
(*                                                                         *)
(* An operation is a sequence of instructions, its calls to the SSI device *)
(* and to the pin gdo1; the boot is one, too.  The radio is what the       *)
(* driver expects of it: selected and ready it hears bytes, of which the   *)
(* first names what is accessed, and gdo1 is low exactly when it is ready. *)
(* It may never become ready.                                              *)
(*                                                                         *)
(* configure() hands the uDMA the table where the linker puts it, in the   *)
(* flash.  A TM4C123's uDMA cannot read there: its channel ends in a bus   *)
(* error at the first byte, FlashReads = {"error"}.  The other addresses   *)
(* of a transfer, burst_write()'s buffer on the stack and the module's     *)
(* data register, the uDMA reaches, so no receive channel fails here;      *)
(* module Ssi has both channels fail.                                      *)
(***************************************************************************)
EXTENDS Integers, Sequences

CONSTANTS
  main, NoTask,  \* the main task
  N,             \* length of CCx_CONFIGURATION
  FifoSize,      \* bytes the FIFOs hold
  MaxPolls,      \* limit of the polls in reset()
  FlashReads,    \* how the uDMA's read of a byte in the flash may end
  Sht1xRuns      \* whether the SHT1x driver's timer interrupts

ASSUME CcxTask == main # NoTask
ASSUME CcxConfiguration == N \in Nat \ {0}
ASSUME CcxPolls == MaxPolls \in Nat \ {0}
ASSUME CcxFifo == FifoSize \in Nat \ {0}
ASSUME CcxFlash == FlashReads \in SUBSET {"byte", "error"} \ {{}}
ASSUME CcxSwitch == Sht1xRuns \in BOOLEAN

VARIABLES
  pc, count, lock, sem, txf, rxf, ris, chans, left, out, failed, missed, chis,
  ien, pend, isr, \* the SSI device, the uDMA and the handlers: see Ssi
  op, ip,         \* the operation under way and its next instruction
  polls, ok,      \* reset(): timeout, result
  value,          \* the byte a read returns
  inputs,         \* pins that are digital inputs
  selected,       \* the chip select line
  ready,          \* the radio's oscillator runs (CHIP_RDYn)
  phase,          \* what the radio takes the next byte for
  pointer, regs,  \* the register a burst writes next, the registers
  heard           \* history: the radio was reset since reset() was called

ssi == INSTANCE Ssi WITH Tasks <- {main}, Counts <- {N}, DmaMayFail <- TRUE

device == <<pc, count, lock, sem, txf, rxf, ris, chans, left, out, failed,
            missed, chis, ien, pend, isr>>
caller == <<op, ip, polls, ok, value, inputs>>
radio == <<selected, ready, phase, pointer, regs, heard>>
vars == <<device, caller, radio>>

-----------------------------------------------------------------------------
(* The programs *)

\* CCx_SRES; CCx_EXTENDED_REGISTER | CCx_RW_BIT_bm; CCx_PARTNUMBER;
\* CCx_PARTVERSION | CCx_RW_BIT_bm; CCx_REG_BEGIN | CCx_BURST_BIT_bm;
\* CCx_CHIP_CC1201; any other byte that is received
SRES == 48
ReadExtended == 175
PARTNUMBER == 143
ReadVersion == 144
BurstWrite == 64
CHIP_CC1201 == 33
StatusByte == 0

Send(byte) == <<"send", byte>>
Keep(byte) == <<"keep", byte>>  \* the answer is the operation's result

PortA == {"gdo0", "gdo2"}

boot ==
  << <<"input", "gdo0">>, <<"input", "gdo2">>, <<"input", "gdo1">>, <<"ssi">> >>

reset ==
  << <<"select">>, <<"release">>, <<"select">>, <<"poll">>, Send(SRES),
     <<"wait_ready">>, <<"poll">>, <<"release">> >>

start_transaction == << <<"select">>, <<"await">> >>

finish_transaction == << <<"wait_ready">>, <<"release">> >>

\* Mutant: the answer to the address is taken for the register.
ext_reg_read_early(addr) ==
  start_transaction \o <<Send(ReadExtended), Keep(addr), Send(0)>> \o finish_transaction

ext_reg_read(addr) ==
  start_transaction \o <<Send(ReadExtended), Send(addr), Keep(0)>> \o finish_transaction

version == << <<"select">>, Send(ReadVersion), Keep(0), <<"release">> >>

\* The copy of the table in obuf is not what is transferred: burst_write() is given
\* the table itself.
configure ==
  start_transaction \o <<Send(BurstWrite), <<"transceive", "flash">>, <<"release">> >>

\* main_task() calls reset() and, when it returns true, part_number(); the other
\* operations have no caller at this commit and are called in its place.
Program ==
  [boot |-> boot, reset |-> reset, part_number |-> ext_reg_read(PARTNUMBER),
   version |-> version, configure |-> configure]

Operations == DOMAIN Program
Phases == {"header", "extended", "partnumber", "other", "burst"}

TypeOK ==
  /\ ssi!TypeOK
  /\ op \in Operations \cup {"none"}
  /\ ip \in 1..10
  /\ polls \in 0..MaxPolls
  /\ ok \in BOOLEAN
  /\ value \in {StatusByte, CHIP_CC1201}
  /\ inputs \subseteq {"gdo0", "gdo1", "gdo2"}
  /\ selected \in BOOLEAN
  /\ ready \in BOOLEAN
  /\ phase \in Phases
  /\ pointer \in 1..(N + 1)
  /\ regs \in [1..N -> 0..N]
  /\ heard \in BOOLEAN

\* The task starts with its boot: the chip select floats, the radio may be ready or not
\* and holds what it was configured with before the controller was reset.
Init ==
  /\ ssi!Init
  /\ op = "boot"
  /\ ip = 1
  /\ polls = 0
  /\ ok = FALSE
  /\ value = StatusByte
  /\ inputs = {}
  /\ selected \in BOOLEAN
  /\ ready \in BOOLEAN
  /\ phase = "header"
  /\ pointer = 1
  /\ regs \in {[i \in 1..N |-> 0], [i \in 1..N |-> i]}
  /\ heard = FALSE

-----------------------------------------------------------------------------
(* The radio *)

RadioReady ==
  /\ ~ready
  /\ ready' = TRUE
  /\ UNCHANGED <<device, caller, selected, phase, pointer, regs, heard>>

\* A radio that is not ready may or may not take the byte.
Hears == selected /\ ready

Answer == IF Hears /\ phase = "partnumber" THEN CHIP_CC1201 ELSE StatusByte

AfterHeader(byte) ==
  CASE byte = ReadExtended -> "extended"
    [] byte = BurstWrite -> "burst"
    [] byte = SRES -> "header"
    [] OTHER -> "other"

NextPhase(byte) ==
  CASE phase = "header" -> AfterHeader(byte)
    [] phase = "extended" -> IF byte = PARTNUMBER THEN "partnumber" ELSE "other"
    [] phase = "burst" -> "burst"
    [] OTHER -> "header"

\* A reset stops the oscillator and clears the registers.
HearsReset ==
  /\ ready' = FALSE
  /\ heard' = TRUE
  /\ regs' = [i \in 1..N |-> 0]

Hear(byte) ==
  /\ phase' = NextPhase(byte)
  /\ IF phase = "header" /\ byte = SRES THEN HearsReset ELSE
       /\ regs' = IF phase = "burst" /\ pointer <= N
                  THEN [regs EXCEPT ![pointer] = byte] ELSE regs
       /\ UNCHANGED <<ready, heard>>
  /\ pointer' = IF phase = "burst" /\ pointer <= N THEN pointer + 1 ELSE 1

Shift ==
  /\ txf # <<>>
  /\ ssi!ShiftAnswer(Answer)
  /\ \/ Hears /\ Hear(Head(txf))
     \/ selected /\ ~ready /\ Head(txf) = SRES /\ Hear(SRES)
     \/ ~Hears /\ UNCHANGED <<ready, phase, pointer, regs, heard>>
  /\ UNCHANGED <<caller, selected>>

\* gpio_pin_hw_t::is_set(): a pin that is no digital input reads as anything.
Gdo1IsSet == IF "gdo1" \in inputs THEN {~ready} ELSE BOOLEAN

-----------------------------------------------------------------------------
(* The main task *)

Instruction == Program[op][ip]

AtInstruction(name) ==
  /\ op # "none"
  /\ ip <= Len(Program[op])
  /\ Instruction[1] = name

Runs(name) == AtInstruction(name) /\ ssi!TaskMayRun

Call(o) ==
  /\ ssi!TaskMayRun
  /\ op = "none"
  /\ o # "boot"
  /\ o # "reset" => ok
  /\ op' = o
  /\ ip' = 1
  /\ ok' = TRUE
  /\ heard' = FALSE
  /\ value' = StatusByte
  /\ UNCHANGED <<device, polls, inputs, selected, ready, phase, pointer, regs>>

EndCall ==
  /\ ssi!TaskMayRun
  /\ op # "none"
  /\ ip > Len(Program[op])
  /\ op' = "none"
  /\ ok' = (ok /\ op # "boot")
  /\ UNCHANGED <<device, ip, polls, value, inputs, radio>>

\* gpio_pin_t::set_mode_input()
set_mode_input ==
  /\ Runs("input")
  /\ inputs' = inputs \cup {Instruction[2]}
  /\ ip' = ip + 1
  /\ UNCHANGED <<device, op, polls, ok, value, radio>>

\* Mutant: all pins are on the port that the SSI device resets.
ssi_dev_all_pins ==
  /\ Runs("ssi")
  /\ inputs' = {}
  /\ selected' = FALSE
  /\ ip' = ip + 1
  /\ UNCHANGED <<device, op, polls, ok, value, ready, phase, pointer, regs, heard>>

\* The SSI device's constructor: power_on() resets port A.  What it leaves of the
\* device, and flush(), are Ssi's initial state.
ssi_dev ==
  /\ Runs("ssi")
  /\ inputs' = inputs \ PortA
  /\ selected' = FALSE
  /\ ip' = ip + 1
  /\ UNCHANGED <<device, op, polls, ok, value, ready, phase, pointer, regs, heard>>

\* A change of the chip select line ends what the radio was doing.
ChipSelect ==
  /\ \/ Runs("select") /\ selected' = TRUE
     \/ Runs("release") /\ selected' = FALSE
  /\ phase' = "header"
  /\ pointer' = 1
  /\ polls' = 0
  /\ ip' = ip + 1
  /\ UNCHANGED <<device, op, ok, value, inputs, ready, regs, heard>>

\* Mutants: the counter has no limit; a poll that succeeds makes up for one that
\* did not.
PollAgainUnbounded ==
  /\ Runs("poll")
  /\ TRUE \in Gdo1IsSet
  /\ polls' = polls + 1
  /\ ok' = (ok /\ polls + 1 < MaxPolls)
  /\ UNCHANGED <<device, op, ip, value, inputs, radio>>

PollAgainOverwrites ==
  /\ Runs("poll")
  /\ TRUE \in Gdo1IsSet
  /\ polls < MaxPolls
  /\ polls' = polls + 1
  /\ ok' = (polls + 1 < MaxPolls)
  /\ UNCHANGED <<device, op, ip, value, inputs, radio>>

\* reset(): while (gdo1.is_set() && timeout < 0xffff)
PollAgain ==
  /\ Runs("poll")
  /\ TRUE \in Gdo1IsSet
  /\ polls < MaxPolls
  /\ polls' = polls + 1
  /\ ok' = (ok /\ polls + 1 < MaxPolls)
  /\ UNCHANGED <<device, op, ip, value, inputs, radio>>

\* Mutant: the counter does not end the poll.
PollEndWhenReady ==
  /\ Runs("poll")
  /\ FALSE \in Gdo1IsSet
  /\ polls' = 0
  /\ ip' = ip + 1
  /\ UNCHANGED <<device, op, ok, value, inputs, radio>>

PollEnd ==
  /\ Runs("poll")
  /\ FALSE \in Gdo1IsSet \/ polls = MaxPolls
  /\ polls' = 0
  /\ ip' = ip + 1
  /\ UNCHANGED <<device, op, ok, value, inputs, radio>>

\* ccx_t::wait_ready() polls gdo1, ssi_dev_t::wait_ready() the device's busy bit.
Wait ==
  /\ \/ Runs("await") /\ FALSE \in Gdo1IsSet
     \/ Runs("wait_ready") /\ txf = <<>>
  /\ ip' = ip + 1
  /\ UNCHANGED <<device, op, polls, ok, value, inputs, radio>>

SendWrite ==
  /\ AtInstruction("send") \/ AtInstruction("keep")
  /\ ssi!SendWrite(main, Instruction[2])
  /\ UNCHANGED <<caller, radio>>

SendRead ==
  /\ AtInstruction("send") \/ AtInstruction("keep")
  /\ ssi!SendRead(main)
  /\ value' = IF Instruction[1] = "keep" THEN Head(rxf) ELSE value
  /\ ip' = ip + 1
  /\ UNCHANGED <<op, polls, ok, inputs, radio>>

\* burst_write() hands transceive() the buffer that it was given.
Transceive ==
  /\ AtInstruction("transceive")
  /\ ssi!Transceive(main, N)
  /\ UNCHANGED <<caller, radio>>

\* burst_write() returns 1 or 0 for a transfer that is complete or given up;
\* configure() goes on the same with either.
TransceiveEnd ==
  /\ ssi!ReturnTrue(main) \/ ssi!ReturnFalse(main)
  /\ ip' = ip + 1
  /\ UNCHANGED <<op, polls, ok, value, inputs, radio>>

Step ==
  \/ EndCall \/ set_mode_input \/ ssi_dev \/ ChipSelect
  \/ PollAgain \/ PollEnd \/ Wait
  \/ SendWrite \/ SendRead
  \/ Transceive \/ TransceiveEnd
  \/ (ssi!TakeLock(main) \/ ssi!Start(main)) /\ UNCHANGED <<caller, radio>>

\* The device and the handlers go on by themselves.
Isr == ssi!Isr /\ UNCHANGED <<caller, radio>>

Reads(memory) == IF memory = "flash" THEN FlashReads ELSE {"byte"}

\* The uDMA reads the next byte for the transmit FIFO, or fails to.
ReadSource ==
  /\ AtInstruction("transceive")
  /\ ssi!CanFill
  /\ \/ "byte" \in Reads(Instruction[2]) /\ ssi!Fill
     \/ "error" \in Reads(Instruction[2]) /\ ssi!ChannelFails("tx")

Device ==
  /\ ReadSource \/ ssi!Drain \/ ssi!ReceiveTimeout
  /\ UNCHANGED <<caller, radio>>
TimerEnter == ssi!TimerEnter /\ UNCHANGED <<caller, radio>>

Next ==
  \/ \E o \in Operations : Call(o)
  \/ Step
  \/ Shift \/ Device \/ Isr \/ TimerEnter
  \/ RadioReady

\* Nothing is assumed of the radio.  Interrupts keep the task from running again and
\* again, but never for good.
Fairness == SF_vars(Step) /\ WF_vars(Isr) /\ WF_vars(Shift) /\ WF_vars(Device)

Spec == Init /\ [][Next]_vars

FairSpec == Spec /\ Fairness

-----------------------------------------------------------------------------
(* Properties *)

\* reset() returns true only if the radio was reset by this call and is ready
\* again: the timeout of either poll counts, the strobe is out before the second one,
\* and the pin is still an input after the SSI device's constructor has reset port A.
ResetTrueIsReady ==
  [][EndCall /\ op = "reset" /\ ok => heard /\ ready]_vars

\* part_number() returns the byte that the radio sent for the register it was asked
\* for: no transfer, also one whose source could not be read, and no send() before
\* leaves a byte that takes its place, and each of the three bytes gets its own answer.
PartNumberIsRead ==
  [][EndCall /\ op = "part_number" => value = CHIP_CC1201]_vars

\* burst_write() returns 1 only when the radio has all of the table, each value in
\* its register, although the receive channel's interrupt is all that tells; a
\* transfer that is broken off at any byte leaves no register with another's value.
BurstIsWritten ==
  [][TransceiveEnd =>
       /\ ssi!ReturnTrue(main) => regs = [i \in 1..N |-> i]
       /\ \A i \in 1..N : regs[i] \in {0, i}]_vars

\* Each byte goes to a selected radio, and except for reset()'s strobe to one that is
\* ready, also where version() does not wait for it and configure() neither waits for
\* the end of its transfer nor asks how it ended before it releases the chip.
BytesReachTheRadio ==
  [][Shift => selected /\ (op = "reset" \/ ready)]_vars

\* Every operation returns, whatever the radio does and also when the transfer's
\* source cannot be read: the polls that have no limit are only reached after a
\* reset() that was true.
CallReturns == op # "none" ~> op = "none"
=============================================================================
