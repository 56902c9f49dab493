--------------------------------- MODULE Ssi --------------------------------
(***************************************************************************)
(* The SSI device of src/src/ssi_dev.h: transceive(), which has the uDMA   *)
(* move a buffer through the SSI module and waits for the interrupt        *)
(* handler's semaphore, and send(), which polls for one byte.              *)
(*                                                                         *)
(* A byte of a transfer is its number in it.  On its own the module has    *)
(* the other side answer each byte with the same byte; module Ccx puts the *)
(* radio there and is the client that also calls send().  The uDMA's       *)
(* status register CHIS has bits of all its channels: the SHT1x driver's   *)
(* timer handler (src/src/sht1x.c) reads and clears it, too.               *)
(*                                                                         *)
(* Interrupts have one priority: a handler runs to its end, SSI 0 goes     *)
(* before timer 0A, and no task runs while one is pending.  A handler is   *)
(* its entry and its body: the body's few instructions are short against   *)
(* the 6400 cycles of a byte, which separate the channels' completions.    *)
(***************************************************************************)
EXTENDS Integers, Sequences

CONSTANTS
  Tasks, NoTask,
  Counts,       \* lengths of transfers
  FifoSize,     \* bytes the receive and the transmit FIFO hold
  DmaMayFail,   \* whether a channel may end in a bus error
  Sht1xRuns     \* whether the SHT1x driver's timer interrupts

ASSUME SsiTasks == NoTask \notin Tasks
ASSUME SsiCounts == Counts \subseteq Nat \ {0}
ASSUME SsiFifo == FifoSize \in Nat \ {0}
ASSUME SsiSwitches == {DmaMayFail, Sht1xRuns} \subseteq BOOLEAN

VARIABLES
  pc, count,    \* per task: where it is, the length it asked for
  lock, sem,    \* dev_lock's owner, tokens in interrupt_semaphore
  txf, rxf,     \* the FIFOs
  ris,          \* receive timeout and overrun
  chans,        \* enabled uDMA channels
  left,         \* bytes each channel has still to move
  out,          \* what was stored at out_data
  failed,       \* history: channels that have failed before
  missed,       \* history: the SHT1x driver has cleared this transfer's completion
  chis,         \* channels whose completion is noted
  ien, pend,    \* the SSI interrupt in the NVIC: enabled, pending
  isr           \* the handler that runs
taskVars == <<pc, count, lock>>
fifoVars == <<txf, rxf>>
dmaVars == <<chans, left, out, failed, missed>>
vars == <<taskVars, sem, fifoVars, ris, dmaVars, chis, ien, pend, isr>>

Channels == {"tx", "rx"}

Bytes == Nat

TypeOK ==
  /\ pc \in [Tasks -> {"idle", "lock", "start", "wait", "send"}]
  /\ count \in [Tasks -> Nat]
  /\ lock \in Tasks \cup {NoTask}
  /\ sem \in 0..1
  /\ \A fifo \in {txf, rxf} : fifo \in Seq(Bytes) /\ Len(fifo) <= FifoSize
  /\ ris \subseteq {"RT", "ROR"}
  /\ chans \subseteq Channels
  /\ left \in [Channels -> Nat]
  /\ out \in Seq(Bytes)
  /\ failed \subseteq Channels
  /\ missed \in BOOLEAN
  /\ chis \subseteq Channels
  /\ ien \in BOOLEAN
  /\ pend \in BOOLEAN
  /\ isr \in {"none", "ssi", "timer"}

\* The constructor and flush() leave empty FIFOs and the interrupt disabled.
Init ==
  /\ pc = [t \in Tasks |-> "idle"]
  /\ count = [t \in Tasks |-> 0]
  /\ lock = NoTask
  /\ sem = 0
  /\ txf = <<>>
  /\ rxf = <<>>
  /\ ris = {}
  /\ chans = {}
  /\ left = [c \in Channels |-> 0]
  /\ out = <<>>
  /\ failed = {}
  /\ missed = FALSE
  /\ chis = {}
  /\ ien = FALSE
  /\ pend = FALSE
  /\ isr = "none"

-----------------------------------------------------------------------------
(* The SSI module and the uDMA *)

CanFill == "tx" \in chans /\ Len(txf) < FifoSize
CanShift == txf # <<>>
CanDrain == "rx" \in chans /\ rxf # <<>>

\* Bytes are in the receive FIFO for 32 bit times and nobody fetches them.
CanTimeOut == rxf # <<>> /\ txf = <<>> /\ "rx" \notin chans /\ "RT" \notin ris

\* A channel has moved one byte; after its last it is done, which is noted in
\* CHIS and interrupts.
Moved(c) ==
  /\ left' = [left EXCEPT ![c] = @ - 1]
  /\ IF left[c] = 1
     THEN chans' = chans \ {c} /\ chis' = chis \cup {c} /\ pend' = TRUE
     ELSE UNCHANGED <<chans, chis, pend>>

Fill ==
  /\ CanFill
  /\ \E t \in Tasks : lock = t /\ txf' = Append(txf, count[t] - left["tx"] + 1)
  /\ Moved("tx")
  /\ UNCHANGED <<taskVars, sem, rxf, ris, out, failed, missed, ien, isr>>

\* A byte goes out while its answer comes in; an answer that finds the FIFO full
\* is lost.  The channels are served well within the time of a byte.
ShiftAnswer(answer) ==
  /\ CanShift
  /\ ~CanDrain
  /\ txf' = Tail(txf)
  /\ IF Len(rxf) < FifoSize
     THEN rxf' = Append(rxf, answer) /\ UNCHANGED <<ris, pend>>
     ELSE ris' = ris \cup {"ROR"} /\ pend' = TRUE /\ UNCHANGED rxf
  /\ UNCHANGED <<taskVars, sem, dmaVars, chis, ien, isr>>

Shift == CanShift /\ ShiftAnswer(Head(txf))

Drain ==
  /\ CanDrain
  /\ out' = Append(out, Head(rxf))
  /\ rxf' = Tail(rxf)
  /\ ris' = IF Len(rxf) = 1 THEN ris \ {"RT"} ELSE ris
  /\ Moved("rx")
  /\ UNCHANGED <<taskVars, sem, txf, failed, missed, ien, isr>>

ReceiveTimeout ==
  /\ CanTimeOut
  /\ isr # "ssi"
  /\ ris' = ris \cup {"RT"}
  /\ pend' = TRUE
  /\ UNCHANGED <<taskVars, sem, fifoVars, dmaVars, chis, ien, isr>>

\* A bus error disables the channel; nobody is told.
ChannelFails(c) ==
  /\ c \in chans
  /\ chans' = chans \ {c}
  /\ failed' = failed \cup {c}
  /\ UNCHANGED <<taskVars, sem, fifoVars, ris, left, out, missed, chis, ien, pend, isr>>

DmaError == DmaMayFail /\ \E c \in Channels : ChannelFails(c)

-----------------------------------------------------------------------------
(* Interrupt handlers *)

SsiEnter ==
  /\ isr = "none"
  /\ ien /\ pend
  /\ isr' = "ssi"
  /\ pend' = FALSE
  /\ UNCHANGED <<taskVars, sem, fifoVars, ris, dmaVars, chis, ien>>

\* Mutants: the semaphore is given for any interrupt; for the end of either
\* channel; for errors alone.
GivesAlways(flags, channels) == TRUE
GivesForTx(flags, channels) == flags # {} \/ channels # {}
GivesForErrors(flags, channels) == flags # {}

\* When handle_isr() gives the semaphore: at an error like at the end.
Gives(flags, channels) == flags # {} \/ "rx" \in channels

\* Mutants: the device's flags are not cleared, so that the interrupt is raised
\* again; the semaphore counts.
SsiBodyKeepsFlags ==
  /\ isr = "ssi"
  /\ chis' = {}
  /\ sem' = IF Gives(ris, chis) THEN 1 ELSE sem
  /\ pend' = (pend \/ ris # {})
  /\ isr' = "none"
  /\ UNCHANGED <<taskVars, fifoVars, ris, dmaVars, ien>>

SsiBodyCounts ==
  /\ isr = "ssi"
  /\ ris' = {}
  /\ chis' = {}
  /\ sem' = IF Gives(ris, chis) THEN sem + 1 ELSE sem
  /\ isr' = "none"
  /\ UNCHANGED <<taskVars, fifoVars, dmaVars, ien, pend>>

\* handle_isr()
SsiBody ==
  /\ isr = "ssi"
  /\ ris' = {}
  /\ chis' = {}
  /\ sem' = IF Gives(ris, chis) THEN 1 ELSE sem
  /\ isr' = "none"
  /\ UNCHANGED <<taskVars, fifoVars, dmaVars, ien, pend>>

\* timer0a_isr_handler() of the SHT1x driver, as far as this device goes: it
\* clears the status bits it has read, those of all channels.
TimerEnter ==
  /\ Sht1xRuns
  /\ isr = "none"
  /\ ~(ien /\ pend)
  /\ isr' = "timer"
  /\ UNCHANGED <<taskVars, sem, fifoVars, ris, dmaVars, chis, ien, pend>>

TimerBody ==
  /\ isr = "timer"
  /\ chis' = {}
  /\ missed' = (missed \/ "rx" \in chis)
  /\ isr' = "none"
  /\ UNCHANGED <<taskVars, sem, fifoVars, ris, chans, left, out, failed, ien, pend>>

-----------------------------------------------------------------------------
(* The tasks *)

TaskMayRun == isr = "none" /\ ~(ien /\ pend)

\* Nothing can give the semaphore any more: portMAX_DELAY ticks pass, as
\* INCLUDE_vTaskSuspend is 0.
Stuck ==
  /\ sem = 0
  /\ TaskMayRun
  /\ ~(CanFill \/ CanShift \/ CanDrain \/ CanTimeOut)

Goto(t, label) == pc' = [pc EXCEPT ![t] = label]

Transceive(t, n) ==
  /\ TaskMayRun
  /\ pc[t] = "idle"
  /\ Goto(t, "lock")
  /\ count' = [count EXCEPT ![t] = n]
  /\ UNCHANGED <<lock, sem, fifoVars, ris, dmaVars, chis, ien, pend, isr>>

\* xSemaphoreTake(dev_lock, portMAX_DELAY) == pdTRUE
TakeLock(t) ==
  /\ TaskMayRun
  /\ pc[t] = "lock"
  /\ lock = NoTask
  /\ lock' = t
  /\ Goto(t, "start")
  /\ UNCHANGED <<count, sem, fifoVars, ris, dmaVars, chis, ien, pend, isr>>

\* The ticks have passed while another task had the lock: transceive() is false.
LockTimeout(t) ==
  /\ Stuck
  /\ pc[t] = "lock"
  /\ lock # NoTask
  /\ Goto(t, "idle")
  /\ count' = [count EXCEPT ![t] = 0]
  /\ UNCHANGED <<lock, sem, fifoVars, ris, dmaVars, chis, ien, pend, isr>>

\* The flags are cleared and the semaphore emptied before the interrupt is
\* enabled, which may still be pending from before; the FIFOs keep what they hold.
Start(t) ==
  /\ TaskMayRun
  /\ pc[t] = "start"
  /\ Goto(t, "wait")
  /\ ris' = {}
  /\ chis' = {}
  /\ chans' = Channels
  /\ left' = [c \in Channels |-> count[t]]
  /\ out' = <<>>
  /\ missed' = FALSE
  /\ sem' = 0
  /\ ien' = TRUE
  /\ UNCHANGED <<count, lock, fifoVars, failed, pend, isr>>

\* The wait is over, with a token or without: channels and interrupt are disabled.
\* count and out_data were the caller's.
Return(t) ==
  /\ pc[t] = "wait"
  /\ Goto(t, "idle")
  /\ chans' = {}
  /\ ien' = FALSE
  /\ lock' = NoTask
  /\ count' = [count EXCEPT ![t] = 0]
  /\ out' = <<>>
  /\ missed' = FALSE
  /\ UNCHANGED <<fifoVars, ris, left, failed, chis, pend, isr>>

ReturnTrue(t) ==
  /\ TaskMayRun
  /\ sem = 1
  /\ sem' = 0
  /\ Return(t)

ReturnFalse(t) ==
  /\ Stuck
  /\ Return(t)
  /\ UNCHANGED sem

\* send(byte), a client's: the byte is written, and what is received first is
\* taken for its answer.
SendWrite(t, byte) ==
  /\ TaskMayRun
  /\ pc[t] = "idle"
  /\ Len(txf) < FifoSize
  /\ txf' = Append(txf, byte)
  /\ Goto(t, "send")
  /\ UNCHANGED <<count, lock, sem, rxf, ris, dmaVars, chis, ien, pend, isr>>

SendRead(t) ==
  /\ TaskMayRun
  /\ pc[t] = "send"
  /\ rxf # <<>>
  /\ rxf' = Tail(rxf)
  /\ ris' = IF Len(rxf) = 1 THEN ris \ {"RT"} ELSE ris
  /\ Goto(t, "idle")
  /\ UNCHANGED <<count, lock, sem, txf, dmaVars, chis, ien, pend, isr>>

TaskStep(t) ==
  \/ TakeLock(t) \/ LockTimeout(t) \/ Start(t)
  \/ ReturnTrue(t) \/ ReturnFalse(t)

Isr == SsiEnter \/ SsiBody \/ TimerBody

Next ==
  \/ \E t \in Tasks : \E n \in Counts : Transceive(t, n)
  \/ \E t \in Tasks : TaskStep(t)
  \/ Fill \/ Shift \/ Drain \/ ReceiveTimeout \/ DmaError
  \/ Isr
  \/ TimerEnter

\* The hardware goes on, and so do the handlers.  Interrupts keep a task from
\* running again and again, but never for good.
Fairness ==
  /\ \A t \in Tasks : SF_vars(TaskStep(t))
  /\ WF_vars(Isr)
  /\ WF_vars(Fill)
  /\ WF_vars(Shift)
  /\ WF_vars(Drain)
  /\ WF_vars(ReceiveTimeout)

Spec == Init /\ [][Next]_vars

FairSpec == Spec /\ Fairness

-----------------------------------------------------------------------------
(* Properties *)

\* Unless a receive channel has failed, a transfer that returns true has stored the
\* answer to each byte at the byte's index: transceive() never takes an interrupt
\* left pending by an earlier transfer, the end of the transmit channel or its
\* failure for its own end.
TrueIsComplete ==
  [][\A t \in Tasks :
       ReturnTrue(t) /\ "rx" \notin failed => out = [i \in 1..count[t] |-> i]]_vars

\* transceive() gives up only a transfer that has not received all of its bytes, or
\* whose completion the SHT1x driver's handler has cleared: also after a channel has
\* failed, and with interrupts left pending, this handler tells of the end.
FalseIsIncomplete ==
  [][\A t \in Tasks : ReturnFalse(t) => left["rx"] > 0 \/ missed]_vars

\* A transfer that was started returns, even when a channel fails: by the receive
\* timeout, the overrun or the end of the wait.
TransceiveReturns ==
  \A t \in Tasks : pc[t] = "wait" ~> pc[t] = "idle"
=============================================================================
