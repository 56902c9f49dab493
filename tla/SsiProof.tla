------------------------------ MODULE SsiProof ------------------------------
(***************************************************************************)
(* For any tasks, lengths of transfers and sizes of the FIFOs: one task at *)
(* a time uses the device, and transceive() returns true only for a        *)
(* transfer that is complete, unless a receive channel has failed.         *)
(***************************************************************************)
EXTENDS Ssi, TLAPS

-----------------------------------------------------------------------------
(* The invariant *)

\* dev_lock's owner is the one between its take and its give.
Owner ==
  /\ \A t \in Tasks : pc[t] \in {"start", "wait"} <=> lock = t
  /\ \A t \in Tasks : pc[t] \in {"lock", "start", "wait"} => count[t] > 0

\* Enabled channels are the owner's and have something left to do.
Enabled ==
  /\ chans # {} => lock \in Tasks /\ pc[lock] = "wait"
  /\ \A c \in chans : left[c] > 0
  /\ \A t \in Tasks : lock = t /\ "tx" \in chans => left["tx"] <= count[t]

Waits(t) == lock = t /\ pc[t] = "wait"

\* Between transfers the device is empty.
Rest ==
  (\A t \in Tasks : ~Waits(t)) => txf = <<>> /\ rxf = <<>>

\* The bytes after the first a, in order.
After(a, s) == \A i \in 1..Len(s) : s[i] = a + i

\* The bytes of a transfer are in memory, in the receive FIFO, in the transmit FIFO
\* and still with the uDMA, in this order.
Progress ==
  \A t \in Tasks : Waits(t) =>
    /\ Len(out) = count[t] - left["rx"]
    /\ Len(out) + Len(rxf) + Len(txf) = count[t] - left["tx"]
    /\ left["rx"] > 0 => "rx" \in chans
    /\ After(0, out)
    /\ After(Len(out), rxf)
    /\ After(Len(out) + Len(rxf), txf)

\* Nothing but the end of the receive channel leads to a token.
TokenTells ==
  \A t \in Tasks : Waits(t) /\ ("rx" \in chis \/ sem = 1) => left["rx"] = 0

Sound ==
  /\ TypeOK
  /\ Owner
  /\ Enabled

Undisturbed ==
  /\ ris = {}
  /\ Rest
  /\ Progress
  /\ TokenTells

\* A transmit channel that fails leaves the bytes that are under way where they are:
\* only a receive channel's failure keeps them.
IInv == Sound /\ ("rx" \notin failed => Undisturbed)

-----------------------------------------------------------------------------
(* Each step keeps it *)

Booleans == missed \in BOOLEAN /\ ien \in BOOLEAN /\ pend \in BOOLEAN

\* The invariant holds at reset.
LEMMA InitInvariant == Init => IInv
<1> SUFFICES ASSUME Init PROVE IInv
  OBVIOUS
<1> USE SsiTasks, SsiFifo DEF Init
<1>1. TypeOK
  <2>1. Booleans
    BY Zenon DEF Booleans
  <2>2. txf \in Seq(Bytes) /\ rxf \in Seq(Bytes) /\ out \in Seq(Bytes)
    BY DEF Bytes
  <2>3. pc \in [Tasks -> {"idle", "lock", "start", "wait", "send"}]
    BY Zenon
  <2>4. count \in [Tasks -> Nat] /\ left \in [Channels -> Nat]
    OBVIOUS
  <2> QED
    BY <2>1, <2>2, <2>3, <2>4 DEF TypeOK, Booleans
<1>2. Owner /\ Enabled
  BY DEF Owner, Enabled
<1>3. Undisturbed
  BY DEF Undisturbed, Rest, Progress, TokenTells, Waits
<1> QED
  BY <1>1, <1>2, <1>3 DEF IInv, Sound

\* Appending to a FIFO.
LEMMA AppendFacts ==
  ASSUME NEW s \in Seq(Nat), NEW e \in Nat
  PROVE  /\ Append(s, e) \in Seq(Nat)
         /\ Len(s) \in Nat
         /\ Len(Append(s, e)) = Len(s) + 1
OBVIOUS

\* Taking from a FIFO.
LEMMA TailFacts ==
  ASSUME NEW s \in Seq(Nat), s # <<>>
  PROVE  /\ Len(s) \in Nat /\ Len(s) > 0
         /\ Head(s) \in Nat
         /\ Tail(s) \in Seq(Nat)
         /\ Len(Tail(s)) = Len(s) - 1
OBVIOUS

\* A run of numbers continues behind its last,
LEMMA AppendAfter ==
  ASSUME NEW s \in Seq(Nat), NEW a \in Nat, After(a, s)
  PROVE  After(a, Append(s, a + Len(s) + 1))
<1> DEFINE e == a + Len(s) + 1
<1>1. Len(s) \in Nat /\ e \in Nat
  OBVIOUS
<1>2. SUFFICES ASSUME NEW i \in 1..Len(Append(s, e)) PROVE Append(s, e)[i] = a + i
  BY DEF After
<1>3. CASE i = Len(s) + 1
  BY <1>1, <1>3
<1>4. CASE i # Len(s) + 1
  <2>1. i \in 1..Len(s)
    BY <1>1, <1>4
  <2>2. Append(s, e)[i] = s[i]
    BY <1>1, <2>1
  <2> QED
    BY <2>1, <2>2 DEF After
<1> QED
  BY <1>3, <1>4

\* and goes on without its first.
LEMMA TailAfter ==
  ASSUME NEW s \in Seq(Nat), s # <<>>, NEW a \in Nat, After(a, s)
  PROVE  Head(s) = a + 1 /\ After(a + 1, Tail(s))
<1>1. Len(s) \in Nat /\ Len(s) > 0
  BY TailFacts
<1>2. Head(s) = a + 1
  BY <1>1 DEF After
<1>3. ASSUME NEW i \in 1..Len(Tail(s)) PROVE Tail(s)[i] = a + 1 + i
  <2>1. i + 1 \in 1..Len(s) /\ Tail(s)[i] = s[i + 1]
    BY <1>1, <1>3
  <2> QED
    BY <2>1 DEF After
<1> QED
  BY <1>2, <1>3 DEF After

\* A channel's transfer of a byte.
LEMMA MovedFacts ==
  ASSUME TypeOK, Enabled, NEW c \in chans, Moved(c)
  PROVE  /\ left' \in [Channels -> Nat]
         /\ left'[c] = left[c] - 1
         /\ \A d \in Channels : d # c => left'[d] = left[d]
         /\ chans' = IF left[c] = 1 THEN chans \ {c} ELSE chans
         /\ chis' = IF left[c] = 1 THEN chis \cup {c} ELSE chis
         /\ \A d \in chans' : left'[d] > 0
         /\ chans' \subseteq Channels /\ chis' \subseteq Channels
         /\ left[c] \in Nat /\ left[c] > 0
<1>1. c \in Channels /\ left \in [Channels -> Nat] /\ chans \subseteq Channels /\ chis \subseteq Channels
  BY DEF TypeOK
<1>2. left[c] \in Nat /\ left[c] > 0
  BY <1>1 DEF Enabled
<1>3. left' = [left EXCEPT ![c] = left[c] - 1]
  BY DEF Moved
<1>4. /\ left' \in [Channels -> Nat]
      /\ left'[c] = left[c] - 1
      /\ \A d \in Channels : d # c => left'[d] = left[d]
  BY <1>1, <1>2, <1>3
<1>5. /\ chans' = IF left[c] = 1 THEN chans \ {c} ELSE chans
      /\ chis' = IF left[c] = 1 THEN chis \cup {c} ELSE chis
  BY Zenon DEF Moved
<1>6. \A d \in chans' : left'[d] > 0
  BY <1>1, <1>2, <1>4, <1>5 DEF Enabled
<1>7. chans' \subseteq Channels /\ chis' \subseteq Channels
  BY <1>1, <1>5
<1> QED
  BY <1>2, <1>4, <1>5, <1>6, <1>7

\* The same with the channels' names.
LEMMA MovedTx ==
  ASSUME TypeOK, Enabled, "tx" \in chans, Moved("tx")
  PROVE  /\ left'["tx"] = left["tx"] - 1 /\ left'["rx"] = left["rx"]
         /\ left["tx"] \in Nat /\ left["tx"] > 0
         /\ chans' = IF left["tx"] = 1 THEN chans \ {"tx"} ELSE chans
         /\ "rx" \in chis' => "rx" \in chis
<1>1. "rx" \in Channels /\ "tx" \in Channels
  BY DEF Channels
<1> QED
  BY <1>1, MovedFacts

\* The effect of a byte the receive channel moves.
LEMMA MovedRx ==
  ASSUME TypeOK, Enabled, "rx" \in chans, Moved("rx")
  PROVE  /\ left'["rx"] = left["rx"] - 1 /\ left'["tx"] = left["tx"]
         /\ left["rx"] \in Nat /\ left["rx"] > 0
         /\ chans' = IF left["rx"] = 1 THEN chans \ {"rx"} ELSE chans
         /\ chis' = IF left["rx"] = 1 THEN chis \cup {"rx"} ELSE chis
<1>1. "rx" \in Channels /\ "tx" \in Channels
  BY DEF Channels
<1> QED
  BY <1>1, MovedFacts

\* No step breaks types and exclusion.
LEMMA StaysSound ==
  ASSUME IInv, [Next]_vars
  PROVE  Sound'
<1> USE SsiTasks, SsiCounts, SsiFifo DEF IInv, Sound, TypeOK, Owner, Enabled, Channels, Bytes
<1>1. ASSUME NEW t \in Tasks, NEW n \in Counts, Transceive(t, n) PROVE Sound'
  BY <1>1, SMTT(60) DEF Transceive, Goto, taskVars, fifoVars, dmaVars
<1>2. ASSUME NEW t \in Tasks, TakeLock(t) PROVE Sound'
  BY <1>2, SMTT(60) DEF TakeLock, Goto, taskVars, fifoVars, dmaVars
<1>3. ASSUME NEW t \in Tasks, LockTimeout(t) PROVE Sound'
  BY <1>3, SMTT(60) DEF LockTimeout, Goto, taskVars, fifoVars, dmaVars
<1>4. ASSUME NEW t \in Tasks, Start(t) PROVE Sound'
  <2> USE <1>4 DEF Start, Goto, taskVars, fifoVars, dmaVars
  <2>1. Booleans'
    BY Zenon DEF Booleans, Start, Goto, taskVars, fifoVars, dmaVars
  <2>2. TypeOK'
    BY <2>1, SMTT(30) DEF Booleans
  <2>3. Owner'
    BY SMTT(30)
  <2>4. Enabled'
    BY SMTT(30)
  <2> QED
    BY <2>2, <2>3, <2>4
<1>5. ASSUME NEW t \in Tasks, ReturnTrue(t) PROVE Sound'
  <2> USE <1>5 DEF ReturnTrue, Return, Goto, taskVars, fifoVars, dmaVars
  <2>1. Booleans'
    BY Zenon DEF Booleans, ReturnTrue, Return, Goto, taskVars, fifoVars, dmaVars
  <2>2. TypeOK'
    BY <2>1, SMTT(30) DEF Booleans
  <2>3. Owner'
    BY SMTT(30)
  <2>4. Enabled'
    BY SMTT(30)
  <2> QED
    BY <2>2, <2>3, <2>4
<1>6. ASSUME NEW t \in Tasks, ReturnFalse(t) PROVE Sound'
  <2> USE <1>6 DEF ReturnFalse, Return, Goto, taskVars, fifoVars, dmaVars
  <2>1. Booleans'
    BY Zenon DEF Booleans, ReturnFalse, Return, Goto, taskVars, fifoVars, dmaVars
  <2>2. TypeOK'
    BY <2>1, SMTT(30) DEF Booleans
  <2>3. Owner'
    BY SMTT(30)
  <2>4. Enabled'
    BY SMTT(30)
  <2> QED
    BY <2>2, <2>3, <2>4
<1>7. ASSUME Fill PROVE Sound'
  <2> USE <1>7 DEF Fill, CanFill, taskVars
  <2>1. PICK t \in Tasks : lock = t /\ txf' = Append(txf, count[t] - left["tx"] + 1)
    OBVIOUS
  <2>2. count[t] - left["tx"] + 1 \in Nat
    BY <2>1
  <2>3. txf' \in Seq(Nat) /\ Len(txf') <= FifoSize
    BY <2>1, <2>2, AppendFacts
  <2> HIDE <1>7 DEF Fill
  <2>4. Moved("tx") /\ "tx" \in chans /\ UNCHANGED <<taskVars, sem, rxf, ris, out, failed, missed, ien, isr>>
    BY <1>7 DEF Fill
  <2>5. Booleans'
    BY <2>4, Zenon DEF Booleans, Moved
  <2>6. TypeOK'
    BY <2>3, <2>4, <2>5, MovedFacts DEF Booleans
  <2>7. Owner'
    BY <2>4
  <2>8. Enabled'
    BY <2>4, MovedFacts
  <2> QED
    BY <2>6, <2>7, <2>8
<1>8. ASSUME Shift PROVE Sound'
  <2>1. /\ txf # <<>> /\ txf' = Tail(txf)
        /\ \/ Len(rxf) < FifoSize /\ rxf' = Append(rxf, Head(txf)) /\ UNCHANGED ris
           \/ ris' = ris \cup {"ROR"} /\ UNCHANGED rxf
        /\ UNCHANGED <<taskVars, sem, dmaVars, chis, ien, isr>>
    BY <1>8 DEF Shift, CanShift, ShiftAnswer
  <2>2. /\ txf' \in Seq(Nat) /\ Len(txf') <= FifoSize
        /\ rxf' \in Seq(Nat) /\ Len(rxf') <= FifoSize
    <3>1. txf' \in Seq(Nat) /\ Len(txf') <= FifoSize /\ Head(txf) \in Nat
      BY <2>1, TailFacts
    <3>2. rxf' \in Seq(Nat) /\ Len(rxf') <= FifoSize
      <4>1. CASE rxf' = Append(rxf, Head(txf)) /\ Len(rxf) < FifoSize
        BY <3>1, <4>1, AppendFacts
      <4>2. CASE UNCHANGED rxf
        BY <4>2
      <4> QED
        BY <2>1, <4>1, <4>2
    <3> QED
      BY <3>1, <3>2
  <2>3. Booleans'
    BY <1>8, Zenon DEF Booleans, Shift, ShiftAnswer, dmaVars
  <2>4. TypeOK'
    BY <2>1, <2>2, <2>3 DEF Booleans, taskVars, dmaVars
  <2>5. Owner' /\ Enabled'
    BY <2>1 DEF taskVars, dmaVars
  <2> QED
    BY <2>4, <2>5
<1>9. ASSUME Drain PROVE Sound'
  <2>1. /\ Moved("rx") /\ "rx" \in chans /\ rxf # <<>>
        /\ out' = Append(out, Head(rxf)) /\ rxf' = Tail(rxf)
        /\ ris' \subseteq ris
        /\ UNCHANGED <<taskVars, sem, txf, failed, missed, ien, isr>>
    BY <1>9 DEF Drain, CanDrain
  <2>2. /\ rxf' \in Seq(Nat) /\ Len(rxf') <= FifoSize
        /\ out' \in Seq(Nat)
    BY <2>1, TailFacts, AppendFacts
  <2>3. Booleans'
    BY <2>1, Zenon DEF Booleans, Moved
  <2>4. TypeOK'
    <3>1. /\ left' \in [Channels -> Nat]
          /\ chans' \subseteq Channels /\ chis' \subseteq Channels
      <4> HIDE DEF IInv, Sound, TypeOK, Owner, Enabled, Channels, Bytes
      <4> QED
        BY <2>1, MovedFacts DEF IInv, Sound
    <3> QED
      BY <2>1, <2>2, <2>3, <3>1 DEF Booleans, taskVars
  <2>5. Owner'
    BY <2>1 DEF taskVars
  <2>6. Enabled'
    <3>1. \A c \in chans' : left'[c] > 0
      <4> HIDE DEF IInv, Sound, TypeOK, Owner, Enabled, Channels, Bytes
      <4> QED
        BY <2>1, MovedFacts DEF IInv, Sound
    <3>2. left'["tx"] = left["tx"] /\ chans' \subseteq chans
      <4> HIDE DEF IInv, Sound, TypeOK, Owner, Enabled, Channels, Bytes
      <4> QED
        BY <2>1, MovedRx DEF IInv, Sound
    <3> QED
      BY <2>1, <3>1, <3>2 DEF taskVars
  <2> QED
    BY <2>4, <2>5, <2>6
<1>10. ASSUME ReceiveTimeout PROVE Sound'
  BY <1>10, SMTT(60) DEF ReceiveTimeout, CanTimeOut, taskVars, fifoVars, dmaVars
<1>11. ASSUME DmaError PROVE Sound'
  BY <1>11, SMTT(60) DEF DmaError, ChannelFails, taskVars, fifoVars, dmaVars
<1>12. ASSUME SsiEnter PROVE Sound'
  <2> USE <1>12 DEF SsiEnter, taskVars, fifoVars, dmaVars
  <2>1. Booleans'
    BY Zenon DEF Booleans, SsiEnter, taskVars, fifoVars, dmaVars
  <2>2. TypeOK'
    BY <2>1, SMTT(30) DEF Booleans
  <2>3. Owner'
    BY SMTT(30)
  <2>4. Enabled'
    BY SMTT(30)
  <2> QED
    BY <2>2, <2>3, <2>4
<1>13. ASSUME SsiBody PROVE Sound'
  BY <1>13, SMTT(60) DEF SsiBody, Gives, taskVars, fifoVars, dmaVars
<1>14. ASSUME TimerEnter PROVE Sound'
  BY <1>14, SMTT(60) DEF TimerEnter, taskVars, fifoVars, dmaVars
<1>15. ASSUME TimerBody PROVE Sound'
  BY <1>15, SMTT(60) DEF TimerBody, taskVars, fifoVars, dmaVars
<1>16. ASSUME UNCHANGED vars PROVE Sound'
  BY <1>16, SMTT(60) DEF vars, taskVars, fifoVars, dmaVars
<1> QED
  BY <1>1, <1>2, <1>3, <1>4, <1>5, <1>6, <1>7, <1>8, <1>9, <1>10, <1>11, <1>12, <1>13, <1>14, <1>15, <1>16 DEF Next, TaskStep, Isr

\* Unless a receive channel fails, no step breaks the run of numbers.
LEMMA StaysUndisturbed ==
  ASSUME IInv, [Next]_vars, "rx" \notin failed, "rx" \notin failed', Sound'
  PROVE  Undisturbed'
<1> USE SsiTasks, SsiCounts, SsiFifo DEF IInv, Sound, TypeOK, Owner, Enabled, Undisturbed, Rest, Progress, TokenTells, Waits, Channels, Bytes
<1>1. ASSUME NEW t \in Tasks, NEW n \in Counts, Transceive(t, n) PROVE Undisturbed'
  BY <1>1, SMTT(60) DEF Transceive, Goto, taskVars, fifoVars, dmaVars
<1>2. ASSUME NEW t \in Tasks, TakeLock(t) PROVE Undisturbed'
  BY <1>2, SMTT(60) DEF TakeLock, Goto, taskVars, fifoVars, dmaVars
<1>3. ASSUME NEW t \in Tasks, LockTimeout(t) PROVE Undisturbed'
  BY <1>3, SMTT(60) DEF LockTimeout, Goto, taskVars, fifoVars, dmaVars
<1>4. ASSUME NEW t \in Tasks, Start(t) PROVE Undisturbed'
  <2>1. /\ txf' = <<>> /\ rxf' = <<>> /\ out' = <<>>
        /\ ris' = {} /\ chis' = {} /\ sem' = 0 /\ chans' = Channels
        /\ left' = [c \in Channels |-> count[t]] /\ UNCHANGED <<count, lock>>
        /\ pc' = [pc EXCEPT ![t] = "wait"]
    <3>1. \A u \in Tasks : ~Waits(u)
      BY <1>4 DEF Start
    <3> QED
      BY <1>4, <3>1 DEF Start, Goto, fifoVars
  <2>2. lock = t /\ \A u \in Tasks : Waits(u)' => u = t
    BY <1>4, <2>1 DEF Start
  <2>3. Progress'
    BY <2>1, <2>2 DEF After
  <2>4. Rest' /\ TokenTells'
    BY <2>1, <2>2
  <2> QED
    BY <2>1, <2>3, <2>4
<1>5. ASSUME NEW t \in Tasks, ReturnTrue(t) PROVE Undisturbed'
  BY <1>5, SMTT(60) DEF ReturnTrue, Return, Goto, taskVars, fifoVars, dmaVars
<1>6. ASSUME NEW t \in Tasks, ReturnFalse(t) PROVE Undisturbed'
  BY <1>6, SMTT(60) DEF ReturnFalse, Return, Goto, Stuck, CanFill, CanShift, CanDrain, taskVars, fifoVars, dmaVars
<1>7. ASSUME Fill PROVE Undisturbed'
  <2>1. PICK t \in Tasks : lock = t /\ txf' = Append(txf, count[t] - left["tx"] + 1)
    BY <1>7 DEF Fill
  <2>2. /\ Moved("tx") /\ "tx" \in chans
        /\ UNCHANGED <<pc, count, lock, sem, rxf, ris, out>>
    BY <1>7 DEF Fill, CanFill, taskVars
  <2>3. Waits(t) /\ \A u \in Tasks : Waits(u)' => u = t
    BY <2>1, <2>2
  <2>4. /\ left'["tx"] = left["tx"] - 1 /\ left'["rx"] = left["rx"]
        /\ left["tx"] \in Nat /\ left["tx"] > 0
        /\ chans' = IF left["tx"] = 1 THEN chans \ {"tx"} ELSE chans
        /\ "rx" \in chis' => "rx" \in chis
    <3> HIDE DEF IInv, Sound, TypeOK, Owner, Enabled, Channels, Bytes
    <3> QED
      BY <2>2, MovedTx DEF IInv, Sound
  <2>5. Len(txf) \in Nat /\ Len(rxf) \in Nat /\ Len(out) \in Nat
    <3>1. txf \in Seq(Nat) /\ rxf \in Seq(Nat) /\ out \in Seq(Nat)
      OBVIOUS
    <3> QED
      BY <3>1, AppendFacts
  <2>6. txf' = Append(txf, Len(out) + Len(rxf) + Len(txf) + 1)
    BY <2>1, <2>3
  <2>7. Len(txf') = Len(txf) + 1 /\ After(Len(out) + Len(rxf), txf')
    BY <2>3, <2>5, <2>6, AppendAfter, AppendFacts
  <2>8. left'["rx"] > 0 => "rx" \in chans'
    BY <2>3, <2>4, SMTT(30)
  <2>9. Progress'
    <3>1. /\ Len(out) = count[t] - left["rx"]
          /\ Len(out) + Len(rxf) + Len(txf') = count[t] - left'["tx"]
      <4>1. /\ count[t] \in Nat
            /\ Len(out) = count[t] - left["rx"]
            /\ Len(out) + Len(rxf) + Len(txf) = count[t] - left["tx"]
        BY <2>3
      <4> HIDE DEF IInv, Sound, TypeOK, Owner, Enabled, Undisturbed, Progress
      <4> QED
        BY <2>4, <2>5, <2>7, <4>1
    <3>2. After(0, out) /\ After(Len(out), rxf)
      BY <2>3
    <3> QED
      BY <2>2, <2>3, <2>4, <2>7, <2>8, <3>1, <3>2
  <2>10. Rest' /\ TokenTells' /\ ris' = {}
    BY <2>2, <2>3, <2>4
  <2> QED
    BY <2>9, <2>10
<1>8. ASSUME Shift PROVE Undisturbed'
  <2>1. /\ txf # <<>> /\ txf' = Tail(txf) /\ ~CanDrain
        /\ UNCHANGED <<pc, count, lock, sem, left, chans, out, chis>>
    BY <1>8 DEF Shift, CanShift, ShiftAnswer, taskVars, dmaVars
  <2>2. PICK t \in Tasks : Waits(t) /\ \A u \in Tasks : Waits(u)' => u = t
    BY <2>1
  <2>3. /\ Len(txf) \in Nat /\ Len(rxf) \in Nat /\ Len(out) \in Nat
        /\ Len(txf) > 0
    BY <2>1, TailFacts
  <2>4. rxf = <<>>
    <3>1. left["rx"] > 0
      BY <2>2, <2>3, SMTT(30)
    <3> QED
      BY <2>1, <2>2, <3>1 DEF CanDrain
  <2>5. rxf' = Append(rxf, Head(txf)) /\ UNCHANGED ris
    BY <1>8, <2>4 DEF Shift, ShiftAnswer
  <2>6. Head(txf) = Len(out) + 1 /\ After(Len(out) + 1, txf') /\ Len(txf') = Len(txf) - 1
    <3>1. Len(rxf) = 0 /\ After(Len(out), txf)
      BY <2>2, <2>3, <2>4
    <3> QED
      BY <2>1, <2>3, <3>1, TailAfter, TailFacts
  <2>7. Len(rxf') = 1 /\ After(Len(out), rxf')
    BY <2>3, <2>4, <2>5, <2>6 DEF After
  <2>8. Progress'
    BY <2>1, <2>2, <2>3, <2>4, <2>6, <2>7
  <2>9. Rest' /\ TokenTells' /\ ris' = {}
    BY <2>1, <2>2, <2>5
  <2> QED
    BY <2>8, <2>9
<1>9. ASSUME Drain PROVE Undisturbed'
  <2>1. /\ Moved("rx") /\ "rx" \in chans /\ rxf # <<>>
        /\ out' = Append(out, Head(rxf)) /\ rxf' = Tail(rxf)
        /\ ris' = {}
        /\ UNCHANGED <<pc, count, lock, sem, txf>>
    BY <1>9 DEF Drain, CanDrain, taskVars
  <2>2. PICK t \in Tasks : Waits(t) /\ \A u \in Tasks : Waits(u)' => u = t
    BY <2>1
  <2>3. /\ left'["rx"] = left["rx"] - 1 /\ left'["tx"] = left["tx"]
        /\ left["rx"] \in Nat /\ left["rx"] > 0
        /\ chans' = IF left["rx"] = 1 THEN chans \ {"rx"} ELSE chans
        /\ chis' = IF left["rx"] = 1 THEN chis \cup {"rx"} ELSE chis
    <3> HIDE DEF IInv, Sound, TypeOK, Owner, Enabled, Channels, Bytes
    <3> QED
      BY <2>1, MovedRx DEF IInv, Sound
  <2>4. /\ Len(txf) \in Nat /\ Len(rxf) \in Nat /\ Len(out) \in Nat
        /\ Len(rxf') = Len(rxf) - 1
    BY <2>1, TailFacts, SMTT(30)
  <2>5. Head(rxf) = Len(out) + 1 /\ After(Len(out) + 1, rxf')
    BY <2>1, <2>2, <2>4, TailAfter
  <2>6. Len(out') = Len(out) + 1 /\ After(0, out')
    BY <2>1, <2>2, <2>4, <2>5, AppendAfter, AppendFacts
  <2>7. left'["rx"] > 0 => "rx" \in chans'
    BY <2>1, <2>3
  <2>8. After(Len(out') + Len(rxf'), txf')
    <3>1. Len(out') + Len(rxf') = Len(out) + Len(rxf)
      BY <2>4, <2>6
    <3> QED
      BY <2>1, <2>2, <3>1
  <2>9. Progress'
    <3>1. /\ Len(out') = count[t] - left'["rx"]
          /\ Len(out') + Len(rxf') + Len(txf) = count[t] - left'["tx"]
      <4>1. /\ count[t] \in Nat /\ left["tx"] \in Nat
            /\ Len(out) = count[t] - left["rx"]
            /\ Len(out) + Len(rxf) + Len(txf) = count[t] - left["tx"]
        BY <2>2
      <4> HIDE DEF IInv, Sound, TypeOK, Owner, Enabled, Undisturbed, Progress
      <4> QED
        <5>1. /\ Len(out') = Len(out) + 1 /\ left'["rx"] = left["rx"] - 1
              /\ left["rx"] \in Nat /\ Len(out) \in Nat
          BY <2>3, <2>4, <2>6
        <5>2. Len(out') = count[t] - left'["rx"]
          BY <4>1, <5>1, SMTT(30)
        <5>3. Len(out') + Len(rxf') = Len(out) + Len(rxf) /\ left'["tx"] = left["tx"]
          BY <2>3, <2>4, <5>1
        <5> QED
          BY <4>1, <5>2, <5>3
    <3>2. After(0, out') /\ After(Len(out'), rxf')
      BY <2>5, <2>6
    <3> QED
      BY <2>1, <2>2, <2>7, <2>8, <3>1, <3>2
  <2>10. Rest' /\ TokenTells'
    BY <2>1, <2>2, <2>3
  <2> QED
    BY <2>1, <2>9, <2>10
<1>10. ASSUME ReceiveTimeout PROVE Undisturbed'
  BY <1>10, SMTT(60) DEF ReceiveTimeout, CanTimeOut, taskVars, fifoVars, dmaVars
<1>11. ASSUME DmaError PROVE Undisturbed'
  <2>1. /\ "rx" \in chans => "rx" \in chans'
        /\ UNCHANGED <<pc, count, lock, sem, txf, rxf, ris, left, out, chis>>
    BY <1>11 DEF DmaError, ChannelFails, taskVars, fifoVars
  <2>2. Rest' /\ Progress' /\ TokenTells'
    BY <2>1
  <2> QED
    BY <2>1, <2>2
<1>12. ASSUME SsiEnter PROVE Undisturbed'
  BY <1>12, SMTT(60) DEF SsiEnter, taskVars, fifoVars, dmaVars
<1>13. ASSUME SsiBody PROVE Undisturbed'
  <2>1. /\ ris' = {} /\ chis' = {}
        /\ sem' = 1 => sem = 1 \/ "rx" \in chis
        /\ UNCHANGED <<pc, count, lock, txf, rxf, left, chans, out>>
    BY <1>13 DEF SsiBody, Gives, taskVars, fifoVars, dmaVars
  <2>2. Rest' /\ Progress' /\ TokenTells'
    BY <2>1
  <2> QED
    BY <2>1, <2>2
<1>14. ASSUME TimerEnter PROVE Undisturbed'
  BY <1>14, SMTT(60) DEF TimerEnter, taskVars, fifoVars, dmaVars
<1>15. ASSUME TimerBody PROVE Undisturbed'
  BY <1>15, SMTT(60) DEF TimerBody, taskVars, fifoVars, dmaVars
<1>16. ASSUME UNCHANGED vars PROVE Undisturbed'
  BY <1>16, SMTT(60) DEF vars, taskVars, fifoVars, dmaVars
<1> QED
  BY <1>1, <1>2, <1>3, <1>4, <1>5, <1>6, <1>7, <1>8, <1>9, <1>10, <1>11, <1>12, <1>13, <1>14, <1>15, <1>16 DEF Next, TaskStep, Isr

\* IInv holds in every state.
LEMMA Invariance == Spec => []IInv
<1>1. IInv /\ [Next]_vars => IInv'
  <2> SUFFICES ASSUME IInv, [Next]_vars PROVE IInv'
    OBVIOUS
  <2>1. Sound'
    BY StaysSound
  <2>2. "rx" \notin failed' => "rx" \notin failed
    BY DEF Next, TaskStep, Isr, Transceive, TakeLock, LockTimeout, Start, ReturnTrue, ReturnFalse, Return, Fill, Shift, ShiftAnswer, Drain, ReceiveTimeout, DmaError, ChannelFails, SsiEnter, SsiBody, TimerEnter, TimerBody, dmaVars, vars
  <2>3. "rx" \notin failed' => Undisturbed'
    BY <2>1, <2>2, StaysUndisturbed
  <2> QED
    BY <2>1, <2>3 DEF IInv
<1> QED
  BY <1>1, InitInvariant, PTL DEF Spec

-----------------------------------------------------------------------------
(* The theorems *)

\* For any tasks, lengths and FIFOs every variable keeps its type: no FIFO is filled
\* past its end, no channel moves more than it was given, and a second completion is
\* not counted.
THEOREM TypeCorrect == Spec => []TypeOK
<1>1. IInv => TypeOK
  BY DEF IInv, Sound
<1> QED
  BY <1>1, Invariance, PTL

\* dev_lock's owner alone is between its take and its give, and only for it do the
\* uDMA's channels run.
THEOREM Exclusion == Spec => [](Owner /\ Enabled)
<1>1. IInv => Owner /\ Enabled
  BY DEF IInv, Sound
<1> QED
  BY <1>1, Invariance, PTL

\* For any tasks, lengths and FIFOs, transceive() returns true only for a transfer that
\* stored each byte's answer at the byte's index, unless a receive channel has failed.
THEOREM ReturnsComplete == Spec => TrueIsComplete
<1>1. ASSUME IInv, NEW t \in Tasks, ReturnTrue(t), "rx" \notin failed
      PROVE  out = [i \in 1..count[t] |-> i]
  <2>1. Waits(t) /\ sem = 1
    BY <1>1 DEF IInv, Sound, Owner, ReturnTrue, Return, Waits
  <2>2. /\ out \in Seq(Nat) /\ count[t] \in Nat
        /\ left["rx"] = 0 /\ Len(out) = count[t] - left["rx"] /\ After(0, out)
    BY <1>1, <2>1 DEF IInv, Sound, TypeOK, Bytes, Undisturbed, Progress, TokenTells
  <2>3. Len(out) = count[t] /\ \A i \in 1..count[t] : out[i] = i
    BY <2>2 DEF After
  <2> QED
    BY <2>2, <2>3
<1>2. IInv /\ [Next]_vars =>
        [\A t \in Tasks : ReturnTrue(t) /\ "rx" \notin failed => out = [i \in 1..count[t] |-> i]]_vars
  BY <1>1
<1> QED
  BY <1>2, Invariance, PTL DEF Spec, TrueIsComplete

-----------------------------------------------------------------------------
(* Transfers that are given up, also after a channel has failed *)

\* A receive channel that is done has told so, to the semaphore or to a handler that
\* runs or is going to, unless the SHT1x driver's handler was first.
EndIsTold ==
  \A t \in Tasks : Waits(t) =>
    /\ ien
    /\ left["rx"] = 0 /\ ~missed =>
         sem = 1 \/ ("rx" \in chis /\ (isr = "ssi" \/ pend))

\* Handlers pass the end of the receive channel on, or note that they have not.
LEMMA HandlersTell ==
  ASSUME Sound, EndIsTold, Isr \/ TimerEnter
  PROVE  EndIsTold'
<1> USE DEF Sound, TypeOK, EndIsTold, Waits, taskVars, fifoVars, dmaVars
<1>1. CASE SsiEnter
  BY <1>1 DEF SsiEnter
<1>2. CASE SsiBody
  BY <1>2 DEF SsiBody, Gives
<1>3. CASE TimerEnter
  BY <1>3 DEF TimerEnter
<1>4. CASE TimerBody
  BY <1>4 DEF TimerBody
<1> QED
  BY <1>1, <1>2, <1>3, <1>4 DEF Isr

\* Channels and FIFOs: the last byte notes its completion and interrupts.
LEMMA HardwareTells ==
  ASSUME Sound, EndIsTold, Fill \/ Shift \/ Drain \/ ReceiveTimeout \/ DmaError
  PROVE  EndIsTold'
<1> USE DEF Sound, EndIsTold, Waits, taskVars, fifoVars, dmaVars
<1>1. CASE Fill
  <2>1. left'["rx"] = left["rx"] /\ chis \subseteq chis' /\ (pend => pend')
    BY <1>1, MovedFacts DEF Fill, CanFill, TypeOK, Moved, Channels
  <2> QED
    BY <1>1, <2>1 DEF Fill
<1>2. CASE Shift
  BY <1>2 DEF Shift, ShiftAnswer
<1>3. CASE Drain
  <2>1. "rx" \in chans /\ Moved("rx") /\ UNCHANGED <<taskVars, sem, missed, ien, isr>>
    BY <1>3 DEF Drain, CanDrain
  <2>2. left["rx"] \in Nat /\ left["rx"] > 0 /\ left'["rx"] = left["rx"] - 1
    BY <2>1, MovedRx
  <2>3. left'["rx"] = 0 => "rx" \in chis' /\ pend'
    BY <2>1, <2>2 DEF Moved
  <2> QED
    BY <2>1, <2>3
<1>4. CASE ReceiveTimeout
  BY <1>4 DEF ReceiveTimeout
<1>5. CASE DmaError
  BY <1>5 DEF DmaError, ChannelFails
<1> QED
  BY <1>1, <1>2, <1>3, <1>4, <1>5

\* A transfer begins with all of its bytes still to come, and its end is read once.
LEMMA TasksTell ==
  ASSUME Sound, EndIsTold, NEW t \in Tasks, TaskStep(t) \/ \E n \in Counts : Transceive(t, n)
  PROVE  EndIsTold'
<1> USE SsiTasks DEF Sound, TypeOK, Owner, EndIsTold, Waits, Goto, taskVars, fifoVars, dmaVars
<1>1. CASE \E n \in Counts : Transceive(t, n)
  BY <1>1 DEF Transceive
<1>2. CASE TakeLock(t)
  BY <1>2 DEF TakeLock
<1>3. CASE LockTimeout(t)
  BY <1>3 DEF LockTimeout
<1>4. CASE Start(t)
  BY <1>4 DEF Start, Channels
<1>5. CASE ReturnTrue(t) \/ ReturnFalse(t)
  BY <1>5 DEF ReturnTrue, ReturnFalse, Return
<1> QED
  BY <1>1, <1>2, <1>3, <1>4, <1>5 DEF TaskStep

\* transceive() gives up no transfer whose last byte has arrived, unless the SHT1x
\* driver's handler has cleared its completion: for any tasks, lengths and FIFOs, and
\* also after channels have failed.
THEOREM GivesUpIncomplete == Spec => FalseIsIncomplete
<1>1. Init => EndIsTold
  BY DEF Init, EndIsTold, Waits
<1>2. Sound /\ EndIsTold /\ [Next]_vars => EndIsTold'
  <2> SUFFICES ASSUME Sound, EndIsTold, [Next]_vars PROVE EndIsTold'
    OBVIOUS
  <2>1. CASE UNCHANGED vars
    BY <2>1 DEF vars, taskVars, fifoVars, dmaVars, EndIsTold, Waits
  <2> QED
    BY <2>1, HandlersTell, HardwareTells, TasksTell DEF Next
<1>3. ASSUME Sound, EndIsTold, NEW t \in Tasks, ReturnFalse(t)
      PROVE  left["rx"] > 0 \/ missed
  <2>1. Waits(t) /\ sem = 0 /\ isr = "none" /\ ~(ien /\ pend)
    BY <1>3 DEF Sound, Owner, ReturnFalse, Return, Stuck, TaskMayRun, Waits
  <2>2. left["rx"] \in Nat
    BY <1>3 DEF Sound, TypeOK, Channels
  <2> QED
    BY <1>3, <2>1, <2>2 DEF EndIsTold
<1>4. Sound /\ EndIsTold /\ [Next]_vars =>
        [\A t \in Tasks : ReturnFalse(t) => left["rx"] > 0 \/ missed]_vars
  BY <1>3
<1>5. IInv => Sound
  BY DEF IInv
<1> QED
  BY <1>1, <1>2, <1>4, <1>5, Invariance, PTL DEF Spec, FalseIsIncomplete
=============================================================================
