-------------------------- MODULE Sht1xOutcomeProof --------------------------
(***************************************************************************)
(* Proofs about what a call of Sht1x comes to, for every set of tasks, of  *)
(* API calls and of register values, with failing uDMA transfers: results  *)
(* say what became of the transmission (ErrorIsHonest, OkIsTrue,           *)
(* WaitEndsForAReason, and for one task ConversionMatchesResolution), and  *)
(* the bits of an answer get to their places (LockStep).  With writable    *)
(* flags only, it follows that a free driver agrees with a sensor that     *)
(* heard everything, and never blames it: SettingsInSync and               *)
(* NoSpuriousFailure.                                                      *)
(***************************************************************************)
EXTENDS Sht1xProof

-----------------------------------------------------------------------------
(* The invariant of the outcomes *)

Heard == "heard" \in fact

ValueHeard == "payloadHeard" \in fact

\* From the end of its pattern to the row that samples the acknowledge the sensor
\* answers a command if and only if it heard it, and only then the table goes on.
CommandAnswered ==
  /\ dma = "cmd" => ~Heard
  /\ state.step \in {"FIN", "ACK"} /\ dma = "off" =>
       /\ sensor.phase = "heard" <=> Heard
       /\ Heard => clk = 1
  /\ state.step \in {"ACKC", "ACKE"} =>
       sensor.phase = IF Heard THEN "ack" ELSE "idle"
  /\ (\E t \in Tasks : Waits(t)) /\ state.step \notin CommandSteps \cup {"FAIL"} => Heard

\* The same for the value a write sends after its command.
ValueAnswered ==
  /\ state.step \in CommandSteps \cup {"PAYLOAD"} \/ dma = "payload" => ~ValueHeard
  /\ state.step \in {"PAYLOAD_FIN", "PAYLOAD_ACK"} /\ dma = "off" =>
       /\ sensor.phase = IF ValueHeard THEN "pheard" ELSE "idle"
       /\ ValueHeard => clk = 1
  /\ state.step \in {"PAYLOAD_ACKC", "PAYLOAD_ACKE"} =>
       sensor.phase = IF ValueHeard THEN "pack" ELSE "idle"

Honest(t) ==
  /\ error = "NO_CMD_ACK" <=> ~Heard
  /\ error = "NO_PAYLOAD_ACK" <=> call[t].op = "status_write" /\ Heard /\ ~ValueHeard

\* At the end of a transmission device.error is what happened, and a write that got
\* to the end without an error was heard.
HonestResults ==
  \A t \in Tasks :
    /\ Waits(t) /\ state.step = "END" /\ call[t].op = "status_write" => ValueHeard
    /\ Waits(t) /\ (sem = 1 \/ isr = "fault") => Honest(t)
    /\ pc[t] = "finish" => Honest(t)

EInv == CommandAnswered /\ ValueAnswered /\ HonestResults

-----------------------------------------------------------------------------
(* The handlers, and outcomes *)

\* The rows whose error is not OK.
LEMMA ErrorRows ==
  ASSUME NEW s \in States, s.step # "FAIL", NEW input \in {0, 1}
  PROVE  /\ NextError(s, input) = "NO_CMD_ACK" <=> s.step = "ACKE" /\ input = 1
         /\ NextError(s, input) = "NO_PAYLOAD_ACK" <=> s.step = "PAYLOAD_ACKE" /\ input = 1
         /\ s.step \in {"ACKE", "PAYLOAD_ACKE"} /\ input = 1 => NextState(s, input).step = "FAIL"
BY DEF States, NextError, NextState, Refused, FAIL, Row

\* The rows up to an acknowledge follow each other, and only they lead to it.
LEMMA AnswerOrder ==
  ASSUME NEW s \in States, RowExists(s), NEW input \in {0, 1}
  PROVE  LET n == NextState(s, input)
         IN /\ n.step # "FIN"
            /\ n.step = "ACK" => s.step = "FIN"
            /\ n.step = "ACKC" => s.step = "ACK"
            /\ n.step = "ACKE" => s.step = "ACKC"
            /\ n.step = "PAYLOAD" => s.step \in CommandSteps
            /\ n.step = "PAYLOAD_FIN" => s.step = "PAYLOAD"
            /\ n.step = "PAYLOAD_ACK" => s.step = "PAYLOAD_FIN"
            /\ n.step = "PAYLOAD_ACKC" => s.step = "PAYLOAD_ACK"
            /\ n.step = "PAYLOAD_ACKE" => s.step = "PAYLOAD_ACKC"
            /\ s.step \in {"FIN", "ACK", "ACKC"} => n.step \in CommandSteps
            /\ s.step = "PAYLOAD" => n.step = "PAYLOAD_FIN"
            /\ s.step = "ACKE" /\ input = 1 => n.step = "FAIL"
<1>1. LET n == NextState(s, input)
      IN /\ n.step = "PAYLOAD" => s.step \in CommandSteps
         /\ s.step \in {"FIN", "ACK", "ACKC"} => n.step \in CommandSteps
         /\ s.step = "PAYLOAD" => n.step = "PAYLOAD_FIN"
         /\ s.step = "ACKE" /\ input = 1 => n.step = "FAIL"
  <2> USE StepNames, StraightTyped DEF States, RowExists, CommandSteps
  <2>1. CASE Refused(s, input)
    BY <2>1 DEF NextState, Refused, FAIL, Row
  <2>2. CASE ~Refused(s, input) /\ s.step \in DOMAIN Straight
    BY <2>2 DEF NextState, Follow, Straight
  <2>3. CASE ~Refused(s, input) /\ s.step \notin DOMAIN Straight
    BY <2>3 DEF NextState, Refused, Follow, Row, FAIL, END, AfterCommand, AfterDataBit,
       AfterByteAck, AfterCrcBit, Seqs
  <2> QED
    BY <2>1, <2>2, <2>3
<1>2. LET n == NextState(s, input)
      IN n.step = "PAYLOAD_FIN" => s.step = "PAYLOAD"
  BY RowSuccessors
<1> QED
  BY <1>1, <1>2, RowSuccessors, RowOrder

\* Whoever samples an acknowledge reads whether the sensor heard.
LEMMA Sampling ==
  ASSUME Known, EInv, NEW outputs, Process(outputs)
  PROVE  \E input \in {0, 1} :
           /\ state' = NextState(state, input) /\ error' = NextError(state, input)
           /\ state \in States /\ RowExists(state) /\ state.step # "FAIL"
           /\ state.step = "ACKE" => (input = 0 <=> Heard)
           /\ state.step = "PAYLOAD_ACKE" => (input = 0 <=> ValueHeard)
<1>1. PICK input \in {0, 1} :
        /\ input \in DataLevels(sensor, dout)
        /\ state' = NextState(state, input) /\ error' = NextError(state, input)
        /\ state \in States
        /\ isr \in {"timer", "gpio"}
  BY ProcessRow DEF Known
<1>2. RowExists(state) /\ state.step # "FAIL"
  BY <1>1, WhenProcessing DEF Known, AInv, Commands, Results, Waits
<1>3. state.step = "ACKE" => (input = 0 <=> Heard)
  BY <1>1 DEF Known, AInv, Lines, EInv, CommandAnswered, DataLevels
<1>4. state.step = "PAYLOAD_ACKE" => (input = 0 <=> ValueHeard)
  BY <1>1 DEF Known, AInv, Lines, EInv, ValueAnswered, DataLevels
<1> QED
  BY <1>1, <1>2, <1>3, <1>4

\* What the handlers' arms do to the sensor in front of an acknowledge.
SensorAsRowSays ==
  /\ state.step \in {"FIN", "PAYLOAD_FIN"} => UNCHANGED <<clk, sensor>>
  /\ state.step \in {"ACK", "PAYLOAD_ACK"} => ClockLow
  /\ state.step \in {"ACKC", "PAYLOAD_ACKC"} => UNCHANGED sensor

FactsKept == (Heard' <=> Heard) /\ (ValueHeard' <=> ValueHeard)

\* A handler's step keeps sensor and history together.
LEMMA ArmKeepsAnswers ==
  ASSUME Known, EInv, NEW outputs, Process(outputs), SensorAsRowSays, FactsKept,
         dma' = IF state.step = "PAYLOAD" THEN "payload" ELSE dma
  PROVE  CommandAnswered' /\ ValueAnswered'
<1>1. PICK input \in {0, 1} :
        /\ state' = NextState(state, input)
        /\ state \in States /\ RowExists(state) /\ state.step # "FAIL"
        /\ state.step = "ACKE" => (input = 0 <=> Heard)
  BY Sampling
<1>2. dma = "off" /\ pc' = pc /\ \E t \in Tasks : Waits(t)
  BY WhenProcessing DEF Known, Process, Waits, taskVars
<1>3. /\ state'.step # "FIN"
      /\ state'.step = "ACK" => state.step = "FIN"
      /\ state'.step = "ACKC" => state.step = "ACK"
      /\ state'.step = "ACKE" => state.step = "ACKC"
      /\ state'.step = "PAYLOAD" => state.step \in CommandSteps
      /\ state'.step = "PAYLOAD_FIN" => state.step = "PAYLOAD"
      /\ state'.step = "PAYLOAD_ACK" => state.step = "PAYLOAD_FIN"
      /\ state'.step = "PAYLOAD_ACKC" => state.step = "PAYLOAD_ACK"
      /\ state'.step = "PAYLOAD_ACKE" => state.step = "PAYLOAD_ACKC"
      /\ state.step \in {"FIN", "ACK", "ACKC"} => state'.step \in CommandSteps
      /\ state.step = "PAYLOAD" => state'.step = "PAYLOAD_FIN"
      /\ state.step = "ACKE" /\ input = 1 => state'.step = "FAIL"
  BY <1>1, AnswerOrder
<1>4. state.step \in {"ACK", "PAYLOAD_ACK"} /\ clk = 1 =>
        sensor' = SensorFalls(sensor, dout, payload)
  BY DEF SensorAsRowSays, ClockLow
<1>5. CommandAnswered'
  <2>1. state'.step = "ACK" =>
          (sensor'.phase = "heard" <=> Heard) /\ (Heard => clk' = 1)
    BY <1>2, <1>3 DEF EInv, CommandAnswered, SensorAsRowSays
  <2>2. state'.step = "ACKC" => sensor'.phase = IF Heard THEN "ack" ELSE "idle"
    BY <1>2, <1>3, <1>4 DEF EInv, CommandAnswered, SensorAsRowSays, ClockLow, Known, QInv,
       Acknowledging, SensorFalls, TypeOK, SensorStates
  <2>3. state'.step = "ACKE" => sensor'.phase = IF Heard THEN "ack" ELSE "idle"
    BY <1>3 DEF EInv, CommandAnswered, SensorAsRowSays
  <2>4. state'.step \notin CommandSteps \cup {"FAIL"} => Heard
    BY <1>1, <1>2, <1>3 DEF EInv, CommandAnswered, CommandSteps
  <2> QED
    BY <1>2, <1>3, <2>1, <2>2, <2>3, <2>4 DEF CommandAnswered, FactsKept
<1>6. ValueAnswered'
  <2>1. state'.step \in CommandSteps \cup {"PAYLOAD", "PAYLOAD_FIN"} \/ state.step = "PAYLOAD" =>
          ~ValueHeard
    BY <1>3 DEF EInv, ValueAnswered, CommandSteps
  <2>2. state'.step = "PAYLOAD_ACK" =>
          /\ sensor'.phase = IF ValueHeard THEN "pheard" ELSE "idle"
          /\ ValueHeard => clk' = 1
    BY <1>2, <1>3 DEF EInv, ValueAnswered, SensorAsRowSays
  <2>3. state'.step = "PAYLOAD_ACKC" => sensor'.phase = IF ValueHeard THEN "pack" ELSE "idle"
    BY <1>2, <1>3, <1>4 DEF EInv, ValueAnswered, SensorAsRowSays, ClockLow, Known, SensorFalls,
       TypeOK, SensorStates
  <2>4. state'.step = "PAYLOAD_ACKE" => sensor'.phase = IF ValueHeard THEN "pack" ELSE "idle"
    BY <1>3 DEF EInv, ValueAnswered, SensorAsRowSays
  <2> QED
    BY <1>2, <1>3, <2>1, <2>2, <2>3, <2>4 DEF ValueAnswered, FactsKept
<1> QED
  BY <1>5, <1>6

\* The verdict of a row on the waiting task's call.
LEMMA RowIsHonest ==
  ASSUME Known, EInv, NEW outputs, Process(outputs), FactsKept, NEW t \in Tasks, Waits(t)
  PROVE  /\ error' # "OK" \/ state.step = "END" => Honest(t)'
         /\ state'.step = "END" /\ call[t].op = "status_write" => ValueHeard
<1>1. PICK input \in {0, 1} :
        /\ state' = NextState(state, input) /\ error' = NextError(state, input)
        /\ state \in States /\ RowExists(state) /\ state.step # "FAIL"
        /\ state.step = "ACKE" => (input = 0 <=> Heard)
        /\ state.step = "PAYLOAD_ACKE" => (input = 0 <=> ValueHeard)
  BY Sampling
<1>2. /\ call' = call /\ cmd = call[t].op /\ cmd \in Operations
      /\ state.seq \in {SeqOf[cmd], "NONE"}
  BY DEF Process, taskVars, Known, TypeOK, AInv, Commands
<1>3. /\ error' = "NO_CMD_ACK" <=> state.step = "ACKE" /\ ~Heard
      /\ error' = "NO_PAYLOAD_ACK" <=> state.step = "PAYLOAD_ACKE" /\ ~ValueHeard
      /\ error' \in {"OK", "NO_CMD_ACK", "NO_PAYLOAD_ACK"}
  BY <1>1, ErrorRows, RowErrors
<1>4. state.step = "PAYLOAD_ACKE" => Heard /\ call[t].op = "status_write"
  <2>1. state.step = "PAYLOAD_ACKE" => Heard
    BY DEF EInv, CommandAnswered, CommandSteps
  <2>2. state.step = "PAYLOAD_ACKE" => state.seq = "SREGW"
    BY <1>1 DEF RowExists, PayloadSteps
  <2> QED
    BY <1>2, <2>1, <2>2, SequenceOfCall
<1>5. state.step = "END" =>
        Heard /\ (call[t].op = "status_write" => ValueHeard)
  BY DEF EInv, CommandAnswered, CommandSteps, HonestResults
<1>6. state'.step = "END" /\ call[t].op = "status_write" => ValueHeard
  <2>1. state.step = "END" <=> state.seq = "NONE"
    BY <1>1, RowSuccessors DEF RowExists
  <2>2. CASE state.seq = "SREGW" /\ state'.step = "END"
    <3>1. state.step = "PAYLOAD_ACKE" /\ input = 0
      BY <1>1, <2>2, RowSuccessors
    <3> QED
      BY <1>1, <3>1
  <2> QED
    BY <1>2, <1>5, <2>1, <2>2, SequenceOfCall
<1>7. error' # "OK" \/ state.step = "END" => Honest(t)'
  BY <1>2, <1>3, <1>4, <1>5 DEF Honest, FactsKept
<1> QED
  BY <1>6, <1>7

\* It records the error that happened.
LEMMA ArmIsHonest ==
  ASSUME Known, EInv, NEW outputs, Process(outputs), Continue, SensorAsRowSays, FactsKept,
         sem' = sem, dma' = IF state.step = "PAYLOAD" THEN "payload" ELSE dma
  PROVE  EInv'
<1>1. UNCHANGED <<pc, call>> /\ isr \in {"timer", "gpio"}
  BY DEF Process, taskVars
<1>2. sem' = 0 /\ \E t \in Tasks : Waits(t)
  BY <1>1, WhenProcessing DEF Known, Waits
<1>3. \A t \in Tasks : pc'[t] # "finish"
  BY <1>1, <1>2 DEF Known, MutualExclusion, Waits
<1>4. isr' = "fault" <=> error' # "OK"
  BY DEF Continue
<1>5. HonestResults'
  BY <1>1, <1>2, <1>3, <1>4, RowIsHonest DEF HonestResults, Waits, FactsKept
<1> QED
  BY <1>5, ArmKeepsAnswers DEF EInv

\* Which arm a row has, as far as the sensor's answers go.
LEMMA AnswerRows ==
  ASSUME Known, NEW outputs, Process(outputs)
  PROVE  /\ "TIMER_ENABLE" \notin outputs => state.step \notin {"FIN", "PAYLOAD_FIN"}
         /\ "PAYLOAD" \notin outputs => state.step # "PAYLOAD"
         /\ outputs = {"PAYLOAD"} => state.step = "PAYLOAD"
         /\ "OUTPUT_ACK_START" \notin outputs => state.step \notin {"ACK", "PAYLOAD_ACK"}
         /\ "OUTPUT_ACK_RISING_EDGE" \notin outputs =>
              state.step \notin {"ACKC", "PAYLOAD_ACKC"}
<1>1. state \in States /\ Output(state) \in outputs
  BY DEF Known, TypeOK, Process
<1> QED
  BY <1>1, RowOutputs, MoreOutputs

\* Ending a transmission leaves the facts, and with them the verdict.
LEMMA DoneIsHonest ==
  ASSUME Known, EInv, isr # "none", sem' = 1, dma' = dma, FactsKept,
         UNCHANGED <<pc, call>>,
         state'.step \in {"END", "FAIL"},
         \A t \in Tasks : Waits(t) =>
           /\ Honest(t)'
           /\ state'.step = "END" => Heard /\ (call[t].op = "status_write" => ValueHeard)
  PROVE  EInv'
<1>1. dma = "off" /\ \E t \in Tasks : Waits(t)
  BY WhenProcessing DEF Known, Waits
<1>2. \A t \in Tasks : pc'[t] # "finish"
  BY <1>1 DEF Known, MutualExclusion, Waits
<1>3. CommandAnswered' /\ ValueAnswered'
  BY <1>1 DEF CommandAnswered, ValueAnswered, CommandSteps, FactsKept, Waits
<1>4. HonestResults'
  BY <1>1, <1>2 DEF HonestResults, FactsKept, Waits
<1> QED
  BY <1>3, <1>4 DEF EInv

\* The handlers,
LEMMA IsrIsHonest ==
  ASSUME Known, EInv, Isr
  PROVE  EInv'
<1>1. CASE TimerIsr \/ GpioIsr
  <2>1. /\ UNCHANGED <<pc, call, sem, state, error, dma, clk, sensor, fact>>
        /\ isr' # "fault"
    BY <1>1 DEF TimerIsr, GpioIsr, taskVars, rtosVars, deviceVars, pinVars
  <2> QED
    BY <2>1 DEF EInv, CommandAnswered, ValueAnswered, HonestResults, Waits, Honest, Heard,
       ValueHeard
<1>2. ASSUME NEW outputs, Process(outputs), Continue, FactsKept, sem' = sem, dma' = dma,
             "PAYLOAD" \notin outputs,
             state.step \in {"FIN", "PAYLOAD_FIN"} => UNCHANGED <<clk, sensor>>,
             state.step \in {"ACK", "PAYLOAD_ACK"} => ClockLow,
             state.step \in {"ACKC", "PAYLOAD_ACKC"} => UNCHANGED sensor
      PROVE  EInv'
  BY <1>2, AnswerRows, ArmIsHonest DEF SensorAsRowSays
<1>3. fact' = fact \/ fact' = fact \cup {"late"} => FactsKept
  BY DEF FactsKept, Heard, ValueHeard
<1>4. CASE ProcessTimerEnable
  BY <1>2, <1>3, <1>4, AnswerRows DEF ProcessTimerEnable, pinVars
<1>5. CASE ProcessPayload
  <2>1. state.step = "PAYLOAD"
    BY <1>5, AnswerRows DEF ProcessPayload
  <2> QED
    BY <1>3, <1>5, <2>1, ArmIsHonest DEF ProcessPayload, SensorAsRowSays
<1>6. CASE ProcessCrcFallingEdge
  BY <1>2, <1>3, <1>6, AnswerRows DEF ProcessCrcFallingEdge
<1>7. CASE ProcessDataFallingEdge
  BY <1>2, <1>3, <1>7, AnswerRows DEF ProcessDataFallingEdge
<1>8. CASE ProcessRisingEdge
  BY <1>2, <1>3, <1>8, AnswerRows DEF ProcessRisingEdge, ClockHigh, sourceVars
<1>9. CASE ProcessInputAckStart
  BY <1>2, <1>3, <1>9, AnswerRows DEF ProcessInputAckStart
<1>10. CASE ProcessOutputAckFallingEdge
  BY <1>2, <1>3, <1>10, AnswerRows DEF ProcessOutputAckFallingEdge
<1>11. CASE ProcessReleaseData
  BY <1>2, <1>3, <1>11, AnswerRows DEF ProcessReleaseData
<1>12. CASE ProcessAckWait
  BY <1>2, <1>3, <1>12, AnswerRows DEF ProcessAckWait
<1>13. CASE ProcessWaitReady
  BY <1>2, <1>3, <1>13, AnswerRows DEF ProcessWaitReady
<1>14. CASE ProcessDone
  <2>1. /\ Process({"DONE"}) /\ FactsKept /\ sem' = 1 /\ dma' = dma
        /\ isr # "none" /\ UNCHANGED <<pc, call>>
    BY <1>3, <1>14 DEF ProcessDone, TransmissionDone, Process, taskVars
  <2>2. state.step = "END" /\ state'.step \in {"END", "FAIL"}
    <3>1. PICK input \in {0, 1} :
            /\ state' = NextState(state, input)
            /\ state \in States /\ state.step # "FAIL"
      BY <2>1, Sampling
    <3>2. Output(state) = "DONE"
      BY <2>1 DEF Process
    <3> QED
      BY <3>1, <3>2, RowOutputs, RowOrder
  <2>3. ASSUME NEW t \in Tasks, Waits(t)
        PROVE  Honest(t)' /\ Heard /\ (call[t].op = "status_write" => ValueHeard)
    BY <2>1, <2>2, <2>3, RowIsHonest DEF EInv, CommandAnswered, CommandSteps, HonestResults
  <2> QED
    BY <2>1, <2>2, <2>3, DoneIsHonest
<1>15. CASE ProcessError
  <2>1. /\ isr = "fault" /\ UNCHANGED <<pc, call, state, error>>
        /\ FactsKept /\ sem' = 1 /\ dma' = dma
    BY <1>3, <1>15 DEF ProcessError, TransmissionDone, taskVars, deviceVars
  <2>2. state'.step = "FAIL"
    BY <2>1 DEF Known, QInv, Ending
  <2>3. \A t \in Tasks : Waits(t) => Honest(t)'
    BY <2>1 DEF EInv, HonestResults, Honest, FactsKept
  <2> QED
    BY <2>1, <2>2, <2>3, DoneIsHonest
<1> QED
  BY <1>1, <1>4, <1>5, <1>6, <1>7, <1>8, <1>9, <1>10, <1>11, <1>12, <1>13, <1>14, <1>15
  DEF Isr

-----------------------------------------------------------------------------
(* The peripherals and the tasks, and outcomes *)

\* the peripherals and the sensor,
LEMMA HardwareIsHonest ==
  ASSUME Known, EInv, TimerTick \/ Transfer \/ SensorReady
  PROVE  EInv'
<1>1. UNCHANGED <<pc, call, sem, state, error, isr>>
  BY DEF TimerTick, Transfer, DmaDone, DmaError, SensorReady, taskVars, rtosVars, deviceVars
<1>2. CASE TimerTick
  <2>1. UNCHANGED <<dma, clk, sensor>> /\ FactsKept
    BY <1>2 DEF TimerTick, pinVars, FactsKept, Heard, ValueHeard
  <2> QED
    BY <1>1, <2>1 DEF EInv, CommandAnswered, ValueAnswered, HonestResults, Waits, Honest,
       FactsKept
<1>3. CASE SensorReady
  <2>1. /\ sensor.phase = "measuring" /\ sensor'.phase = "send"
        /\ UNCHANGED <<dma, clk, fact>>
    BY <1>3 DEF SensorReady, pinVars, Known, TypeOK, SensorStates
  <2> QED
    BY <1>1, <2>1 DEF EInv, CommandAnswered, ValueAnswered, HonestResults, Waits, Honest,
       Heard, ValueHeard
<1>4. CASE Transfer
  <2>1. /\ dma # "off" /\ dma' = "off"
        /\ \/ /\ dma = "cmd" /\ clk' = 1 /\ sensor'.phase = IF Heard' THEN "heard" ELSE "idle"
              /\ ~ValueHeard'
           \/ /\ dma = "payload" /\ clk' = 1 /\ (Heard' <=> Heard)
              /\ sensor'.phase = IF ValueHeard' THEN "pheard" ELSE "idle"
           \/ /\ sensor'.phase = "idle" /\ FactsKept
    <3>1. ~ValueHeard \/ dma = "cmd"
      BY <1>4 DEF Transfer, DmaDone, DmaError, EInv, ValueAnswered, Known, TypeOK
    <3> QED
      BY <1>4, <3>1 DEF Transfer, DmaDone, DmaError, SensorHears, SensorHearsPayload, Known,
         TypeOK, SensorStates, Heard, ValueHeard, FactsKept
  <2>2. /\ state.step = IF dma = "cmd" THEN "FIN" ELSE "PAYLOAD_FIN"
        /\ isr = "none" /\ sem = 0
    BY <2>1 DEF Known, QInv, TransferRuns, TokenIsLast, Silent, TypeOK
  <2>3. \A t \in Tasks : pc[t] # "finish"
    BY <2>1 DEF Known, QInv, RestsUnused, MutualExclusion
  <2>4. CommandAnswered'
    BY <1>1, <2>1, <2>2 DEF EInv, CommandAnswered, CommandSteps, Known, TypeOK, Waits, FactsKept
  <2>5. ValueAnswered'
    BY <1>1, <2>1, <2>2 DEF EInv, ValueAnswered, CommandSteps, Known, TypeOK, FactsKept
  <2>6. HonestResults'
    BY <1>1, <2>2, <2>3 DEF HonestResults
  <2> QED
    BY <2>4, <2>5, <2>6 DEF EInv
<1> QED
  BY <1>2, <1>3, <1>4

\* and the tasks keep the invariant.
LEMMA TaskIsHonest ==
  ASSUME Known, EInv, NEW t \in Tasks,
         \/ TaskStep(t)
         \/ \E op \in Ops, arg \in StatusArgs \cup {{}} : Call(t, op, arg)
  PROVE  EInv'
<1>1. CASE Start(t)
  <2>1. /\ pc[t] = "start" /\ pc' = [pc EXCEPT ![t] = "wait"] /\ isr' = "none" /\ sem' = sem
        /\ state' = Row(SeqOf[call[t].op], "FIN", 0) /\ dma' = "cmd"
        /\ ~Heard' /\ ~ValueHeard'
    BY <1>1 DEF Start, SensorReadStart, StatusWriteStart, StatusReadStart, SoftwareResetStart,
       Prepare, Goto, TaskMayRun, SeqOf, Measurements, rtosVars, Heard, ValueHeard
  <2>2. \A u \in Tasks : u # t => pc[u] \notin {"start", "wait", "finish"}
    BY <2>1 DEF Known, MutualExclusion
  <2>3. sem = 0
    BY <2>1, <2>2 DEF Known, QInv, RestsUnused
  <2>4. CommandAnswered' /\ ValueAnswered'
    BY <2>1 DEF CommandAnswered, ValueAnswered, CommandSteps, Row
  <2>5. HonestResults'
    BY <2>1, <2>2, <2>3 DEF HonestResults, Known, TypeOK, Row, Waits
  <2> QED
    BY <2>4, <2>5 DEF EInv
<1>2. CASE ~Start(t)
  <2>1. /\ UNCHANGED <<state, error, dma, isr, clk, sensor, fact>>
        /\ \A u \in Tasks : u # t => pc'[u] = pc[u] /\ call'[u] = call[u]
        /\ \/ pc'[t] \notin {"wait", "finish"} /\ sem' = sem
           \/ pc[t] = "wait" /\ sem = 1 /\ pc'[t] = "finish" /\ call'[t] = call[t] /\ sem' = 0
    BY <1>2 DEF TaskStep, Call, TakeLock, LockTimeout, TakeSem, InterruptTimeout, ReadResult,
       SensorReadFinish, StatusWriteFinish, StatusReadFinish, SoftwareResetFinish, Finish,
       Convert, Goto, Return, rtosVars, deviceVars, sourceVars, pinVars, Known, TypeOK
  <2>2. CommandAnswered' /\ ValueAnswered'
    BY <2>1 DEF EInv, CommandAnswered, ValueAnswered, Waits, Heard, ValueHeard
  <2>3. HonestResults'
    BY <2>1 DEF EInv, HonestResults, Honest, Waits, Heard, ValueHeard
  <2> QED
    BY <2>2, <2>3 DEF EInv
<1> QED
  BY <1>1, <1>2

-----------------------------------------------------------------------------

\* Nothing is claimed before the first call.
LEMMA InitHonest == Init => EInv
BY DEF Init, EInv, CommandAnswered, ValueAnswered, HonestResults, Waits, CommandSteps, END, Row

\* No step makes an error code lie.
LEMMA HonestStep ==
  ASSUME Known, EInv, [Next]_vars
  PROVE  EInv'
<1>1. CASE UNCHANGED vars
  BY <1>1 DEF vars, taskVars, rtosVars, deviceVars, sourceVars, pinVars, EInv, CommandAnswered,
     ValueAnswered, HonestResults, Waits, Honest, Heard, ValueHeard
<1> QED
  BY <1>1, TaskIsHonest, IsrIsHonest, HardwareIsHonest DEF Next

\* A caller that gets an error code can tell from it how far the transmission came:
\* whichever transfer failed and whatever the calls before left behind, the code is
\* that of the acknowledge the sensor did not give.
THEOREM Honesty == Spec => []ErrorIsHonest
<1>1. Init => EInv
  BY InitHonest
<1>2. Known /\ EInv /\ [Next]_vars => EInv'
  BY HonestStep
<1>3. Known /\ EInv => ErrorIsHonest
  <2> SUFFICES ASSUME Known, EInv, NEW t \in Tasks, pc[t] = "finish"
               PROVE  /\ error \in {"OK", "NO_CMD_ACK", "NO_PAYLOAD_ACK"}
                      /\ (error = "NO_CMD_ACK") = ("heard" \notin fact)
                      /\ (error = "NO_PAYLOAD_ACK") =
                           (call[t].op = "status_write" /\ "heard" \in fact
                              /\ "payloadHeard" \notin fact)
    BY DEF ErrorIsHonest
  <2>1. Verdict(t) /\ Honest(t)
    BY DEF Known, AInv, Results, EInv, HonestResults
  <2> QED
    BY <2>1 DEF Verdict, Honest, Heard, ValueHeard
<1> QED
  BY <1>1, <1>2, <1>3, KnownAlways, PTL DEF Spec
-----------------------------------------------------------------------------
(* An OK is true *)

\* The checksum's seed is always made of the driver's copy of the register.
SeedOfStatus == crcInit = status

\* The seed is written wherever the driver's copy of the register is.
LEMMA SeedStep == SeedOfStatus /\ [Next]_vars => SeedOfStatus'
<1> SUFFICES ASSUME SeedOfStatus, [Next]_vars PROVE SeedOfStatus'
  OBVIOUS
<1>1. CASE Isr \/ TimerTick \/ Transfer \/ SensorReady \/ UNCHANGED vars
  BY <1>1 DEF SeedOfStatus, Isr, TimerTick, Transfer, DmaDone, DmaError, SensorReady, TimerIsr,
     GpioIsr, ProcessTimerEnable, ProcessPayload, ProcessCrcFallingEdge,
     ProcessDataFallingEdge, ProcessRisingEdge, ProcessInputAckStart,
     ProcessOutputAckFallingEdge, ProcessReleaseData, ProcessAckWait, ProcessWaitReady,
     ProcessDone, ProcessError, Process, settingVars, vars
<1>2. ASSUME NEW t \in Tasks,
             \/ TaskStep(t)
             \/ \E op \in Ops, arg \in StatusArgs \cup {{}} : Call(t, op, arg)
      PROVE  SeedOfStatus'
  BY <1>2 DEF SeedOfStatus, TaskStep, Call, TakeLock, LockTimeout, Start, SensorReadStart,
     StatusWriteStart, StatusReadStart, SoftwareResetStart, Prepare, TakeSem,
     InterruptTimeout, ReadResult, SensorReadFinish, StatusWriteFinish, StatusReadFinish,
     SoftwareResetFinish, Convert, settingVars
<1> QED
  BY <1>1, <1>2 DEF Next

\* The step that ends a call.
LEMMA EndOfCall ==
  ASSUME TypeOK, [Next]_vars, NEW t \in Tasks, Returns(t)
  PROVE  ReadResult(t)
<1>1. pc[t] = "finish" /\ pc'[t] # pc[t]
  BY DEF Returns
<1>2. ~(Isr \/ TimerTick \/ Transfer \/ SensorReady \/ UNCHANGED vars)
  BY <1>1, TasksUntouched DEF vars, taskVars
<1>3. PICK u \in Tasks : TaskStep(u) \/ \E op \in Ops, arg \in StatusArgs \cup {{}} : Call(u, op, arg)
  BY <1>2 DEF Next
<1>4. pc' = [pc EXCEPT ![u] = pc'[u]] /\ (pc[u] = "finish" => ReadResult(u))
  BY <1>3 DEF TaskStep, Call, TakeLock, LockTimeout, Start, SensorReadStart, StatusWriteStart,
     StatusReadStart, SoftwareResetStart, Prepare, TakeSem, InterruptTimeout, ReadResult,
     SensorReadFinish, StatusWriteFinish, StatusReadFinish, SoftwareResetFinish, Convert,
     Goto, Return, TypeOK
<1> QED
  BY <1>1, <1>4 DEF TypeOK

\* The step that ends a call with OK.
LEMMA OkStep ==
  ASSUME Known, EInv, SeedOfStatus, [Next]_vars, NEW t \in Tasks, Returns(t), ret'[t] = "OK"
  PROVE  /\ "heard" \in fact
         /\ call[t].op = "status_write" => sensor.status = call[t].arg \cap SREG_bm
         /\ call[t].op = "software_reset" => sensor.status = {}
         /\ call[t].arg \subseteq SREG_bm =>
              status' = sensor.status /\ crcInit' = sensor.status
<1>1. ReadResult(t)
  BY EndOfCall DEF Known
<1>2. /\ Verdict(t) /\ Honest(t) /\ call[t] \in Calls
      /\ call[t].op = "status_write" \/ call[t].arg = {}
  BY <1>1 DEF Returns, Known, TypeOK, AInv, Results, Calling, EInv, HonestResults
<1>3. error = "OK"
  BY <1>1, <1>2 DEF ReadResult, SensorReadFinish, StatusWriteFinish, StatusReadFinish,
     SoftwareResetFinish, Return, Known, TypeOK
<1>4. Heard /\ Promise(t)
  BY <1>2, <1>3 DEF Honest, Verdict
<1>5. CASE StatusWriteFinish(t) \/ SoftwareResetFinish(t)
  BY <1>2, <1>4, <1>5 DEF StatusWriteFinish, SoftwareResetFinish, Heard, Promise, Writers, Written
<1>6. CASE StatusReadFinish(t)
  BY <1>3, <1>4, <1>6 DEF StatusReadFinish, Return, Heard, Known, TypeOK
<1>7. CASE SensorReadFinish(t)
  <2>1. ReadingArrived /\ UNCHANGED settingVars /\ call[t].op \in Measurements
    BY <1>3, <1>7 DEF SensorReadFinish, Return, Known, TypeOK
  <2> QED
    BY <1>4, <2>1 DEF ReadingArrived, CrcAccepts, settingVars, SeedOfStatus, Heard, Measurements
<1> QED
  BY <1>1, <1>5, <1>6, <1>7 DEF ReadResult

\* A success is never a left-over: when a call returns OK the sensor has heard its
\* command, has the register the call wrote, and the driver's copy and seed are the
\* sensor's.
THEOREM Truth == Spec => OkIsTrue
<1>1. Init => EInv
  BY InitHonest
<1>2. Known /\ EInv /\ [Next]_vars => EInv'
  BY HonestStep
<1>3. Init => SeedOfStatus
  BY DEF Init, SeedOfStatus
<1>4. Known /\ EInv /\ SeedOfStatus /\ [Next]_vars =>
        [\A t \in Tasks : Returns(t) /\ ret'[t] = "OK" =>
           /\ "heard" \in fact
           /\ call[t].op = "status_write" => sensor.status = call[t].arg \cap SREG_bm
           /\ call[t].op = "software_reset" => sensor.status = {}
           /\ call[t].arg \subseteq SREG_bm =>
                status' = sensor.status /\ crcInit' = sensor.status]_vars
  BY OkStep
<1> QED
  BY <1>1, <1>2, <1>3, <1>4, SeedStep, KnownAlways, PTL DEF Spec, OkIsTrue

-----------------------------------------------------------------------------
(* A reading and the resolution *)

\* A reading that is still to be converted has the resolution of the driver's settings.
Unconverted == \A t \in Tasks : pc[t] = "convert" => taken[t] = status

\* Only another task could change the settings before the conversion.
LEMMA SoleTaskConverts ==
  ASSUME TypeOK, SeedOfStatus, Unconverted, [Next]_vars, \A t, u \in Tasks : t = u
  PROVE  Unconverted'
<1>1. CASE Isr \/ TimerTick \/ Transfer \/ SensorReady \/ UNCHANGED vars
  <2>1. UNCHANGED <<pc, taken, status>>
    BY <1>1 DEF Isr, TimerTick, Transfer, DmaDone, DmaError, SensorReady, TimerIsr,
       GpioIsr, ProcessTimerEnable, ProcessPayload, ProcessCrcFallingEdge,
       ProcessDataFallingEdge, ProcessRisingEdge, ProcessInputAckStart,
       ProcessOutputAckFallingEdge, ProcessReleaseData, ProcessAckWait, ProcessWaitReady,
       ProcessDone, ProcessError, Process, settingVars, taskVars, vars
  <2> QED
    BY <2>1 DEF Unconverted
<1>2. ASSUME NEW t \in Tasks,
             \/ TaskStep(t)
             \/ \E op \in Ops, arg \in StatusArgs \cup {{}} : Call(t, op, arg)
      PROVE  Unconverted'
  <2>1. Tasks = {t} /\ pc \in [Tasks -> {"idle", "lock", "start", "wait", "finish", "convert"}]
    BY DEF TypeOK
  <2>2. CASE SensorReadFinish(t)
    <3>1. pc'[t] = "convert" => error = "OK" /\ ReadingArrived
      BY <2>1, <2>2 DEF SensorReadFinish, Goto, Return
    <3>2. pc'[t] = "convert" => taken'[t] = status'
      BY <2>1, <2>2, <3>1 DEF SensorReadFinish, settingVars, TypeOK, SeedOfStatus,
         ReadingArrived, CrcAccepts
    <3> QED
      BY <2>1, <3>2 DEF Unconverted
  <2>3. CASE ~SensorReadFinish(t)
    <3>1. pc'[t] # "convert"
      BY <1>2, <2>1, <2>3 DEF TaskStep, Call, TakeLock, LockTimeout, Start, SensorReadStart,
         StatusWriteStart, StatusReadStart, SoftwareResetStart, Prepare, TakeSem,
         InterruptTimeout, ReadResult, StatusWriteFinish, StatusReadFinish,
         SoftwareResetFinish, Convert, Goto, Return
    <3> QED
      BY <2>1, <3>1 DEF Unconverted
  <2> QED
    BY <2>2, <2>3
<1> QED
  BY <1>1, <1>2 DEF Next

\* A driver with one task converts each reading with the resolution it was taken
\* with, although a write that the sensor did not hear changes device.status: the other
\* task is all that goes wrong where ConversionMatchesResolution is violated.
THEOREM SoleTask ==
  ASSUME \A t, u \in Tasks : t = u
  PROVE  Spec => ConversionMatchesResolution
<1>1. Init => SeedOfStatus /\ Unconverted
  BY DEF Init, SeedOfStatus, Unconverted
<1>2. TypeOK /\ SeedOfStatus /\ Unconverted /\ [Next]_vars => Unconverted'
  BY SoleTaskConverts
<1>3. Unconverted /\ [Next]_vars =>
        [\A t \in Tasks : Convert(t) => ("LOW_RES" \in status) = ("LOW_RES" \in taken[t])]_vars
  BY DEF Unconverted, Convert
<1> QED
  BY <1>1, <1>2, <1>3, SeedStep, TypeCorrect, PTL DEF Spec, ConversionMatchesResolution

-----------------------------------------------------------------------------
(* A wait ends for a reason *)

\* While the driver waits for the sensor a tick of its timer is the slow one's and
\* an edge on the data line is the sensor's.
WaitJustified ==
  state.step = "WAIT_READY" =>
    /\ load = "LO"
    /\ "RIS" \in timer \/ "RIS" \in gpio \/ isr \in {"timer", "gpio"} =>
         sensor.phase = "send" \/ "timeout" \in fact

\* The table waits after the acknowledge of a measurement only.
LEMMA WaitComesFrom ==
  ASSUME NEW s \in States, RowExists(s), NEW input \in {0, 1},
         NextState(s, input).step = "WAIT_READY"
  PROVE  s.step = "ACKE" /\ s.seq = "SENSOR"
<1> USE StepNames, StraightTyped DEF States, RowExists, CommandSteps
<1>1. CASE Refused(s, input)
  BY <1>1 DEF NextState, Refused, FAIL, Row
<1>2. CASE ~Refused(s, input) /\ s.step \in DOMAIN Straight
  BY <1>2 DEF NextState, Follow, Straight
<1>3. CASE ~Refused(s, input) /\ s.step \notin DOMAIN Straight
  BY <1>3 DEF NextState, Refused, Follow, Row, FAIL, END, AfterCommand, AfterDataBit,
     AfterByteAck, AfterCrcBit, Seqs
<1> QED
  BY <1>1, <1>2, <1>3

\* What ends a wait is there when it ends.
LEMMA WaitStep ==
  ASSUME Known, WaitJustified, [Next]_vars
  PROVE  WaitJustified'
<1>1. CASE ProcessAckWait
  <2>1. PICK input \in {0, 1} :
          /\ state' = NextState(state, input) /\ error' = NextError(state, input)
          /\ state \in States
    BY <1>1, ProcessRow DEF ProcessAckWait, Known
  <2>2. state'.step = "WAIT_READY" => isr' = "none"
    BY <1>1, <2>1, RowOrder DEF ProcessAckWait, Continue
  <2> QED
    BY <1>1, <2>2 DEF ProcessAckWait, WaitJustified
<1>2. ASSUME NEW outputs, Process(outputs), "OUTPUT_ACK_WAIT" \notin outputs
      PROVE  state'.step # "WAIT_READY"
  <2>1. PICK input \in {0, 1} :
          /\ state' = NextState(state, input)
          /\ state \in States /\ RowExists(state) /\ Output(state) \in outputs
    BY <1>2, ProcessRow DEF Known, AInv, Commands
  <2>2. ~(state.step = "ACKE" /\ state.seq = "SENSOR")
    BY <1>2, <2>1, RowOutputs
  <2> QED
    BY <2>1, <2>2, WaitComesFrom
<1>3. CASE Isr /\ ~ProcessAckWait /\ ~TimerIsr /\ ~GpioIsr /\ ~ProcessError
  BY <1>2, <1>3 DEF Isr, ProcessTimerEnable, ProcessPayload, ProcessCrcFallingEdge,
     ProcessDataFallingEdge, ProcessRisingEdge, ProcessInputAckStart,
     ProcessOutputAckFallingEdge, ProcessReleaseData, ProcessWaitReady, ProcessDone,
     WaitJustified
<1>4. CASE ProcessError
  BY <1>4 DEF ProcessError, deviceVars, Known, QInv, Ending, WaitJustified
<1>5. CASE TimerIsr \/ GpioIsr
  BY <1>5 DEF TimerIsr, GpioIsr, deviceVars, WaitJustified
<1>6. CASE TimerTick
  BY <1>6 DEF TimerTick, deviceVars, WaitJustified
<1>7. CASE SensorReady
  BY <1>7 DEF SensorReady, deviceVars, Known, TypeOK, SensorStates, WaitJustified
<1>8. CASE Transfer
  BY <1>8 DEF Transfer, DmaDone, DmaError, deviceVars, Known, QInv, TransferRuns, WaitJustified
<1>9. ASSUME NEW t \in Tasks,
             \/ TaskStep(t)
             \/ \E op \in Ops, arg \in StatusArgs \cup {{}} : Call(t, op, arg)
      PROVE  WaitJustified'
  <2>1. CASE Start(t)
    BY <2>1 DEF Start, SensorReadStart, StatusWriteStart, StatusReadStart, SoftwareResetStart,
       Prepare, Row, WaitJustified
  <2>2. CASE ~Start(t)
    BY <1>9, <2>2 DEF TaskStep, Call, TakeLock, LockTimeout, TakeSem, InterruptTimeout,
       ReadResult, SensorReadFinish, StatusWriteFinish, StatusReadFinish,
       SoftwareResetFinish, Finish, Convert, deviceVars, sourceVars, WaitJustified
  <2> QED
    BY <2>1, <2>2
<1>10. CASE UNCHANGED vars
  BY <1>10 DEF vars, deviceVars, sourceVars, WaitJustified
<1> QED
  BY <1>1, <1>3, <1>4, <1>5, <1>6, <1>7, <1>8, <1>9, <1>10 DEF Next

\* Neither an edge nor a tick from before the wait ends it: the driver goes on to the
\* bits of the answer because the sensor has them or has had its time.
THEOREM Reason == Spec => WaitEndsForAReason
<1>1. Init => WaitJustified
  BY DEF Init, WaitJustified, END, Row
<1>2. Known /\ WaitJustified /\ [Next]_vars => WaitJustified'
  BY WaitStep
<1>3. Known /\ WaitJustified /\ [Next]_vars =>
        [ProcessWaitReady => sensor.phase = "send" \/ "timeout" \in fact]_vars
  BY RowOutputs DEF ProcessWaitReady, Process, Known, TypeOK, WaitJustified
<1> QED
  BY <1>1, <1>2, <1>3, KnownAlways, PTL DEF Spec, WaitEndsForAReason

-----------------------------------------------------------------------------
(* The invariant of the answers *)

ReadingSteps == BitSteps \cup ByteAckSteps

Late == "late" \in fact

\* The bits that states[] counts in the rows of an answer.
RowInRange(s) ==
  /\ s.step \in {"DATA", "DATAC"} => s.bit < AnswerBits(s)
  /\ s.step \in {"BYTE_ACKS", "BYTE_ACK", "BYTE_ACKC"} => s.bit \in {0, 8} /\ s.bit < AnswerBits(s)
  /\ s.step \in {"CRC", "CRCC"} => s.bit < 8
  /\ s.step = "WAIT_READY" => s.seq = "SENSOR"

\* Of an answer of so many data bits this many bits have come.
Progress(n, bits) ==
  /\ Holds(data, 16, 1, IF n < bits THEN n ELSE bits)
  /\ Holds(crc, 8, bits + 1, n)

InStep ==
  /\ sensor.sent = Sampled(state)
  /\ sensor.phase = IF state.step \in BitSteps THEN "send" ELSE "byteack"
  /\ clk = 1 <=> state.step \in {"DATAC", "CRCC", "BYTE_ACKC", "CRC_ACKC"}
  /\ Progress(Sampled(state), AnswerBits(state))
  /\ load = "NR"

\* Up to the answer the registers are empty and the sensor has sent nothing.
Fresh ==
  /\ state.step \in CommandSteps \cup {"WAIT_READY"} =>
       /\ Progress(0, AnswerBits(state)) /\ ~Late
       /\ dma = "off" /\ sensor.phase # "idle" => sensor.sent = 0
  /\ state.step \in CommandSteps => load = "NR"
  /\ state.step = "WAIT_READY" => clk = 0 /\ sensor.phase \in {"measuring", "send"}

\* The driver pulls the data line through a byte's acknowledge.
AckLow == state.step \in {"BYTE_ACK", "BYTE_ACKC"} => dout = 0

\* The registers hold a whole answer to the call.
Arrived(t) ==
  /\ call[t].op \in Measurements =>
       data = [i \in 1..16 |-> i] /\ crc = [i \in 1..8 |-> 16 + i]
  /\ call[t].op = "status_read" =>
       data = [i \in 1..16 |-> IF i > 8 THEN i - 8 ELSE 0] /\ crc = [i \in 1..8 |-> 8 + i]

Arrivals ==
  \A t \in Tasks :
    /\ Waits(t) /\ state.step = "FAIL" => error # "OK"
    /\ Waits(t) /\ state.step = "END" /\ ~Late => Arrived(t)
    /\ pc[t] = "finish" /\ error = "OK" /\ ~Late => Arrived(t)

LInv ==
  /\ RowInRange(state)
  /\ state.step \in ReadingSteps /\ ~Late => InStep
  /\ Fresh
  /\ AckLow
  /\ Arrivals

-----------------------------------------------------------------------------
(* The table, and answers *)

\* How an answer is entered and left.
LEMMA ReadingRows ==
  ASSUME NEW s \in States, RowExists(s), RowInRange(s), NEW input \in {0, 1}
  PROVE  LET n == NextState(s, input)
         IN /\ RowInRange(n)
            /\ n.step \in ReadingSteps =>
                 \/ s.step \in ReadingSteps
                 \/ s.step = "WAIT_READY" /\ n = Row("SENSOR", "DATA", 15)
                 \/ s.step = "ACKE" /\ s.seq = "SREGR" /\ input = 0 /\ n = Row("SREGR", "DATA", 7)
            /\ n.step = "BYTE_ACK" => s.step = "BYTE_ACKS"
            /\ n.step = "BYTE_ACKC" => s.step = "BYTE_ACK"
            /\ n.step = "END" => s.step \in {"CRC_ACKC", "END", "ACKE", "PAYLOAD_ACKE"}
            /\ n.step = "END" /\ s.step = "ACKE" => s.seq = "SOFT_RESET"
<1> USE StepNames, StraightTyped
    DEF States, RowExists, CommandSteps, PayloadSteps, ReadingSteps, BitSteps, ByteAckSteps,
        RowInRange, AnswerBits
<1>1. CASE Refused(s, input)
  BY <1>1 DEF NextState, Refused, FAIL, Row
<1>2. CASE ~Refused(s, input) /\ s.step \in DOMAIN Straight
  BY <1>2 DEF NextState, Follow, Straight
<1>3. CASE ~Refused(s, input) /\ s.step \notin DOMAIN Straight
  BY <1>3, SMTT(30) DEF NextState, Refused, Follow, Row, FAIL, END, AfterCommand, AfterDataBit,
     AfterByteAck, AfterCrcBit, Seqs
<1> QED
  BY <1>1, <1>2, <1>3

\* How the rows of an answer follow each other, and how they count its bits: a byte
\* is complete where the sensor's is.
LEMMA ReadingOrder ==
  ASSUME NEW s \in States, RowExists(s), RowInRange(s), s.step \in ReadingSteps,
         NEW input \in {0, 1}
  PROVE  LET n == NextState(s, input)
             bits == AnswerBits(s)
             sent == Sampled(s)
         IN /\ bits \in {8, 16} /\ sent \in Nat
            /\ n.step = "END" \/ AnswerBits(n) = bits
            /\ s.step = "DATA" => n.step = "DATAC" /\ Sampled(n) = sent
            /\ s.step = "DATAC" =>
                 /\ n.step = IF sent \in {7, 15, 23} THEN "BYTE_ACKS" ELSE "DATA"
                 /\ sent < bits /\ Sampled(n) = sent + 1
            /\ s.step = "BYTE_ACKS" => n.step = "BYTE_ACK" /\ Sampled(n) = sent
            /\ s.step = "BYTE_ACK" => n.step = "BYTE_ACKC" /\ Sampled(n) = sent
            /\ s.step = "BYTE_ACKC" =>
                 n.step \in {"DATA", "CRC"} /\ sent <= bits /\ Sampled(n) = sent
            /\ s.step = "CRC" => n.step = "CRCC" /\ Sampled(n) = sent
            /\ s.step = "CRCC" =>
                 /\ n.step \in IF sent \in {7, 15, 23} THEN {"CRC_ACK", "CRC_ACKS"} ELSE {"CRC"}
                 /\ sent >= bits /\ Sampled(n) = sent + 1
            /\ s.step = "CRC_ACKS" => n.step = "CRC_ACK" /\ Sampled(n) = sent
            /\ s.step = "CRC_ACK" => n.step = "CRC_ACKC" /\ Sampled(n) = sent
            /\ s.step = "CRC_ACKC" => n.step = "END" /\ sent = bits + 8
<1> USE StepNames, StraightTyped
    DEF States, RowExists, CommandSteps, PayloadSteps, ReadingSteps, BitSteps, ByteAckSteps,
        RowInRange, AnswerBits, Sampled, NextState, Refused
<1>1. CASE s.step \in DOMAIN Straight
  <2> DEFINE n == NextState(s, input)
  <2>1. n = [s EXCEPT !.step = Straight[s.step]]
    BY <1>1 DEF Follow
  <2>2. n.step = Straight[s.step] /\ n.seq = s.seq /\ n.bit = s.bit
    BY <2>1
  <2>3. s.step \in {"DATA", "BYTE_ACKS", "BYTE_ACK", "CRC", "CRC_ACKS", "CRC_ACK"}
    BY <1>1 DEF Straight
  <2>4. n.step = CASE s.step = "DATA" -> "DATAC" [] s.step = "BYTE_ACKS" -> "BYTE_ACK"
                   [] s.step = "BYTE_ACK" -> "BYTE_ACKC" [] s.step = "CRC" -> "CRCC"
                   [] s.step = "CRC_ACKS" -> "CRC_ACK" [] s.step = "CRC_ACK" -> "CRC_ACKC"
    BY <2>2, <2>3 DEF Straight
  <2> HIDE DEF n
  <2>5. AnswerBits(n) = AnswerBits(s) /\ Sampled(n) = Sampled(s)
    BY <2>2, <2>3, <2>4
  <2>6. AnswerBits(s) \in {8, 16} /\ Sampled(s) \in Nat
    BY <2>3
  <2> QED
    BY <2>3, <2>4, <2>5, <2>6 DEF n
<1>2. CASE s.step = "DATAC"
  BY <1>2 DEF Follow, Straight, AfterDataBit, Row
<1>3. CASE s.step = "BYTE_ACKC"
  BY <1>3 DEF Follow, Straight, AfterByteAck, Row
<1>4. CASE s.step = "CRCC"
  BY <1>4 DEF Follow, Straight, AfterCrcBit, Row
<1>5. CASE s.step = "CRC_ACKC"
  BY <1>5 DEF Follow, Straight, END, Row
<1> QED
  BY <1>1, <1>2, <1>3, <1>4, <1>5 DEF Straight

\* Which rows move the clock and sample while an answer is read.
LEMMA ReadingOutputs ==
  ASSUME NEW s \in States
  PROVE  /\ Output(s) = "CRC_FALLING_EDGE" <=> s.step = "CRCC"
         /\ Output(s) = "DATA_FALLING_EDGE" <=> s.step = "DATAC"
         /\ Output(s) = "READ_RISING_EDGE" <=> s.step \in {"DATA", "CRC"}
         /\ Output(s) = "INPUT_ACK_RISING_EDGE" <=> s.step \in {"BYTE_ACK", "CRC_ACK"}
         /\ Output(s) = "OUTPUT_ACK_RISING_EDGE" <=> s.step \in {"ACKC", "PAYLOAD_ACKC"}
         /\ Output(s) = "INPUT_ACK_START" <=> s.step \in {"BYTE_ACKS", "CRC_ACKS"}
         /\ Output(s) = "INPUT_ACK_FALLING_EDGE" <=> s.step \in {"BYTE_ACKC", "CRC_ACKC"}
         /\ Output(s) = "OUTPUT_ACK_START" <=> s.step \in {"ACK", "PAYLOAD_ACK"}
         /\ Output(s) = "OUTPUT_ACK_FALLING_EDGE" <=>
              s.step = "PAYLOAD_ACKE" \/ (s.step = "ACKE" /\ s.seq # "SENSOR")
BY StepNames DEF States, Output, StepOutput

-----------------------------------------------------------------------------
(* The shift registers *)

\* A data bit goes into the data register, and pushes nothing out but empty places.
LEMMA DataShifts ==
  ASSUME data \in Register(16), NEW bits \in {8, 16}, NEW n \in Nat, n < bits, Progress(n, bits),
         data' = ShiftIn(data, 16, n + 1), crc' = crc
  PROVE  Progress(n + 1, bits)'
<1>1. \A i \in 1..16 : data'[i] = IF i < 16 THEN data[i + 1] ELSE n + 1
  BY DEF ShiftIn
<1>2. Holds(data', 16, 1, n + 1)
  BY <1>1 DEF Progress, Holds
<1>3. Holds(crc', 8, bits + 1, n + 1)
  BY DEF Progress, Holds
<1> QED
  BY <1>2, <1>3 DEF Progress

\* A checksum bit goes into crc.
LEMMA CrcShifts ==
  ASSUME crc \in Register(8), NEW bits \in {8, 16}, NEW n \in Nat, n >= bits, Progress(n, bits),
         crc' = ShiftIn(crc, 8, n + 1), data' = data
  PROVE  Progress(n + 1, bits)'
<1>1. \A i \in 1..8 : crc'[i] = IF i < 8 THEN crc[i + 1] ELSE n + 1
  BY DEF ShiftIn
<1>2. Holds(crc', 8, bits + 1, n + 1)
  BY <1>1 DEF Progress, Holds
<1> QED
  BY <1>2 DEF Progress

\* Zeroed registers hold no bit of an answer.
LEMMA EmptyRegisters ==
  ASSUME data = [i \in 1..16 |-> 0], crc = [i \in 1..8 |-> 0], NEW bits \in {8, 16}
  PROVE  Progress(0, bits)
BY DEF Progress, Holds

\* After the last bit they hold the whole answer.
LEMMA FullRegisters ==
  ASSUME data \in Register(16), crc \in Register(8), NEW bits \in {8, 16},
         Progress(bits + 8, bits)
  PROVE  /\ bits = 16 => data = [i \in 1..16 |-> i] /\ crc = [i \in 1..8 |-> 16 + i]
         /\ bits = 8 => /\ data = [i \in 1..16 |-> IF i > 8 THEN i - 8 ELSE 0]
                        /\ crc = [i \in 1..8 |-> 8 + i]
<1>1. \A i \in 1..8 : crc[i] = bits + i
  BY DEF Progress, Holds
<1>2. \A i \in 1..16 : data[i] = IF bits - (16 - i) >= 1 THEN bits - (16 - i) ELSE 0
  BY DEF Progress, Holds
<1> QED
  BY <1>1, <1>2 DEF Register

-----------------------------------------------------------------------------
(* The handlers, and answers *)

\* What the arms of sht1x_process() but the wait's end do, by the row they are at.
ArmEffect ==
  /\ state.step \in {"FIN", "PAYLOAD_FIN", "BYTE_ACKS", "CRC_ACKS"} => UNCHANGED <<clk, sensor>>
  /\ state.step \in {"ACK", "ACKE", "DATAC", "CRCC", "BYTE_ACKC", "CRC_ACKC"} => ClockLow
  /\ state.step \in {"ACKC", "DATA", "CRC", "BYTE_ACK", "CRC_ACK"} =>
       clk' = 1 /\ UNCHANGED sensor
  /\ data' = IF state.step = "DATAC" THEN ShiftIn(data, 16, BitOnLine(sensor)) ELSE data
  /\ crc' = IF state.step = "CRCC" THEN ShiftIn(crc, 8, BitOnLine(sensor)) ELSE crc
  /\ state.step \in ReadingSteps \cup {"FIN", "ACK", "ACKC"} \/ (state.step = "ACKE" /\ state.seq = "SREGR") =>
       load' = load
  /\ state.step \in {"BYTE_ACKS", "CRC_ACKS"} => dout' = 0
  /\ state.step \in {"BYTE_ACK", "CRC_ACK"} => dout' = dout
  /\ state.step # "PAYLOAD" => dma' = dma

\* What the arms of sht1x_process that read an answer do.
LEMMA ArmEffects ==
  ASSUME Known, Isr, isr \in {"timer", "gpio"}, ~ProcessWaitReady
  PROVE  /\ ArmEffect /\ fact' = fact
         /\ state.step # "WAIT_READY"
         /\ \E outputs : Process(outputs)
<1>1. state \in States
  BY DEF Known, TypeOK
<1> USE DEF ArmEffect, ReadingSteps, BitSteps, ByteAckSteps, pinVars
<1>2. CASE ProcessTimerEnable
  <2>1. state.step \in {"FIN", "PAYLOAD_FIN"}
    BY <1>1, <1>2, RowOutputs, ReadingOutputs DEF ProcessTimerEnable, Process
  <2> QED
    BY <1>2, <2>1 DEF ProcessTimerEnable
<1>3. CASE ProcessPayload
  <2>1. state.step \in {"PAYLOAD"}
    BY <1>1, <1>3, RowOutputs, ReadingOutputs DEF ProcessPayload, Process
  <2> QED
    BY <1>3, <2>1 DEF ProcessPayload
<1>4. CASE ProcessCrcFallingEdge
  <2>1. state.step \in {"CRCC"}
    BY <1>1, <1>4, RowOutputs, ReadingOutputs DEF ProcessCrcFallingEdge, Process
  <2> QED
    BY <1>4, <2>1 DEF ProcessCrcFallingEdge
<1>5. CASE ProcessDataFallingEdge
  <2>1. state.step \in {"DATAC"}
    BY <1>1, <1>5, RowOutputs, ReadingOutputs DEF ProcessDataFallingEdge, Process
  <2> QED
    BY <1>5, <2>1 DEF ProcessDataFallingEdge
<1>6. CASE ProcessRisingEdge
  <2>1. state.step \in {"DATA", "CRC", "BYTE_ACK", "CRC_ACK", "ACKC", "PAYLOAD_ACKC"}
    BY <1>1, <1>6, RowOutputs, ReadingOutputs DEF ProcessRisingEdge, Process
  <2> QED
    BY <1>6, <2>1 DEF ProcessRisingEdge, ClockHigh, sourceVars
<1>7. CASE ProcessInputAckStart
  <2>1. state.step \in {"BYTE_ACKS", "CRC_ACKS"}
    BY <1>1, <1>7, RowOutputs, ReadingOutputs DEF ProcessInputAckStart, Process
  <2> QED
    BY <1>7, <2>1 DEF ProcessInputAckStart
<1>8. CASE ProcessOutputAckFallingEdge
  <2>1. state.step \in {"PAYLOAD_ACKE", "ACKE"}
    BY <1>1, <1>8, RowOutputs, ReadingOutputs DEF ProcessOutputAckFallingEdge, Process
  <2> QED
    BY <1>8, <2>1 DEF ProcessOutputAckFallingEdge
<1>9. CASE ProcessReleaseData
  <2>1. state.step \in {"BYTE_ACKC", "CRC_ACKC", "ACK", "PAYLOAD_ACK"}
    BY <1>1, <1>9, RowOutputs, ReadingOutputs DEF ProcessReleaseData, Process
  <2> QED
    BY <1>9, <2>1 DEF ProcessReleaseData
<1>10. CASE ProcessAckWait
  <2>1. state.step \in {"ACKE"} /\ state.seq = "SENSOR"
    BY <1>1, <1>10, RowOutputs, ReadingOutputs DEF ProcessAckWait, Process
  <2> QED
    BY <1>10, <2>1 DEF ProcessAckWait
<1>11. CASE ProcessDone
  <2>1. state.step \in {"END", "FAIL"}
    BY <1>1, <1>11, RowOutputs, ReadingOutputs DEF ProcessDone, Process
  <2> QED
    BY <1>11, <2>1 DEF ProcessDone, TransmissionDone
<1>12. ~TimerIsr /\ ~GpioIsr /\ ~ProcessError
  BY DEF TimerIsr, GpioIsr, ProcessError
<1> QED
  BY <1>2, <1>3, <1>4, <1>5, <1>6, <1>7, <1>8, <1>9, <1>10, <1>11, <1>12 DEF Isr

\* The sensor's side of a step.
LEMMA BitSent ==
  ASSUME TypeOK, ClockLow, clk = 1, sensor.phase = "send"
  PROVE  /\ BitOnLine(sensor) = sensor.sent + 1
         /\ sensor'.sent = sensor.sent + 1
         /\ sensor'.phase = IF sensor.sent \in {7, 15, 23} THEN "byteack" ELSE "send"
BY DEF ClockLow, SensorFalls, EndBit, BitOnLine, TypeOK, SensorStates

\* The sensor goes on to the next byte when the driver acknowledged this one.
LEMMA ByteAcknowledged ==
  ASSUME TypeOK, ClockLow, clk = 1, sensor.phase = "byteack", dout = 0,
         sensor.sent < StreamLength(sensor.cmd)
  PROVE  sensor'.phase = "send" /\ sensor'.sent = sensor.sent
BY DEF ClockLow, SensorFalls, TypeOK, SensorStates

\* What the waiting call's sequence says of its command.
LEMMA ReadingCommand ==
  ASSUME Known, isr # "none", sensor.phase # "idle",
         state.step \in ReadingSteps \cup {"WAIT_READY"} \/ state.step \in CommandSteps
  PROVE  /\ sensor.cmd = cmd /\ state.seq = SeqOf[cmd] /\ cmd \in Operations
         /\ state.seq = "SENSOR" <=> cmd \in Measurements
         /\ state.seq = "SREGR" <=> cmd = "status_read"
<1>1. PICK t \in Tasks : Waits(t)
  BY WhenProcessing DEF Known, Waits
<1>2. sensor.cmd = cmd
  BY <1>1, WhenProcessing DEF Known, AInv, SensorFollows
<1>3. state.seq \in {SeqOf[cmd], "NONE"} /\ RowExists(state) /\ cmd \in Operations
      /\ state \in States
  BY <1>1 DEF Known, TypeOK, AInv, Commands
<1>4. state.seq # "NONE"
  BY <1>3 DEF RowExists, ReadingSteps, BitSteps, ByteAckSteps, CommandSteps, PayloadSteps
<1> QED
  BY <1>2, <1>3, <1>4 DEF SeqOf, Operations, Measurements

\* One row further in an answer.
LEMMA ReadingGoesOn ==
  ASSUME Known, LInv, NEW outputs, Process(outputs), ArmEffect,
         state.step \in ReadingSteps, ~Late, state'.step \in ReadingSteps
  PROVE  InStep'
<1>1. PICK input \in {0, 1} :
        state' = NextState(state, input) /\ state \in States /\ isr # "none"
  BY ProcessRow DEF Known
<1>2. RowExists(state) /\ RowInRange(state) /\ InStep
  BY DEF Known, AInv, Commands, LInv
<1>3. PICK bits \in {8, 16}, sent \in Nat :
        bits = AnswerBits(state) /\ sent = Sampled(state) /\ AnswerBits(state') = bits
  BY <1>1, <1>2, ReadingOrder DEF ReadingSteps, BitSteps, ByteAckSteps
<1>4. /\ sensor.sent = sent /\ Progress(sent, bits) /\ load' = "NR"
      /\ sensor.phase = IF state.step \in BitSteps THEN "send" ELSE "byteack"
      /\ clk = 1 <=> state.step \in {"DATAC", "CRCC", "BYTE_ACKC", "CRC_ACKC"}
  BY <1>2, <1>3 DEF InStep, ArmEffect
<1>5. data \in Register(16) /\ crc \in Register(8) /\ TypeOK /\ clk \in {0, 1}
  BY DEF Known, TypeOK
<1>6. CASE state.step \in {"DATA", "CRC", "BYTE_ACK", "CRC_ACK"}
  <2>1. /\ state'.step \in {"DATAC", "CRCC", "BYTE_ACKC", "CRC_ACKC"}
        /\ state'.step \in BitSteps <=> state.step \in BitSteps
        /\ Sampled(state') = sent
    BY <1>1, <1>2, <1>3, <1>6, ReadingOrder DEF BitSteps
  <2>2. clk' = 1 /\ UNCHANGED <<sensor, data, crc>>
    BY <1>6 DEF ArmEffect
  <2> QED
    BY <1>3, <1>4, <2>1, <2>2 DEF InStep, Progress
<1>7. CASE state.step \in {"BYTE_ACKS", "CRC_ACKS"}
  <2>1. state'.step \in {"BYTE_ACK", "CRC_ACK"} /\ Sampled(state') = sent
    BY <1>1, <1>2, <1>3, <1>7, ReadingOrder
  <2>2. UNCHANGED <<clk, sensor, data, crc>>
    BY <1>7 DEF ArmEffect
  <2> QED
    BY <1>3, <1>4, <1>7, <2>1, <2>2 DEF InStep, Progress, BitSteps
<1>8. CASE state.step = "DATAC"
  <2>1. /\ state'.step = IF sent \in {7, 15, 23} THEN "BYTE_ACKS" ELSE "DATA"
        /\ sent < bits /\ Sampled(state') = sent + 1
    BY <1>1, <1>2, <1>3, <1>8, ReadingOrder
  <2>2. ClockLow /\ data' = ShiftIn(data, 16, BitOnLine(sensor)) /\ crc' = crc
    BY <1>8 DEF ArmEffect
  <2>3. /\ BitOnLine(sensor) = sent + 1 /\ sensor'.sent = sent + 1
        /\ sensor'.phase = IF sent \in {7, 15, 23} THEN "byteack" ELSE "send"
    BY <1>4, <1>5, <1>8, <2>2, BitSent DEF BitSteps
  <2>4. Progress(sent + 1, bits)'
    BY <1>3, <1>4, <1>5, <2>1, <2>2, <2>3, DataShifts
  <2>5. clk' = 0
    BY <2>2 DEF ClockLow
  <2> QED
    BY <1>3, <1>4, <2>1, <2>3, <2>4, <2>5 DEF InStep, BitSteps
<1>9. CASE state.step = "CRCC"
  <2>1. /\ state'.step \in IF sent \in {7, 15, 23} THEN {"CRC_ACK", "CRC_ACKS"} ELSE {"CRC"}
        /\ sent >= bits /\ Sampled(state') = sent + 1
    BY <1>1, <1>2, <1>3, <1>9, ReadingOrder
  <2>2. ClockLow /\ crc' = ShiftIn(crc, 8, BitOnLine(sensor)) /\ data' = data
    BY <1>9 DEF ArmEffect
  <2>3. /\ BitOnLine(sensor) = sent + 1 /\ sensor'.sent = sent + 1
        /\ sensor'.phase = IF sent \in {7, 15, 23} THEN "byteack" ELSE "send"
    BY <1>4, <1>5, <1>9, <2>2, BitSent DEF BitSteps
  <2>4. Progress(sent + 1, bits)'
    BY <1>3, <1>4, <1>5, <2>1, <2>2, <2>3, CrcShifts
  <2>5. clk' = 0
    BY <2>2 DEF ClockLow
  <2> QED
    BY <1>3, <1>4, <2>1, <2>3, <2>4, <2>5 DEF InStep, BitSteps
<1>10. CASE state.step = "BYTE_ACKC"
  <2>1. state'.step \in {"DATA", "CRC"} /\ sent <= bits /\ Sampled(state') = sent
    BY <1>1, <1>2, <1>3, <1>10, ReadingOrder
  <2>2. ClockLow /\ UNCHANGED <<data, crc>> /\ dout = 0
    BY <1>10 DEF ArmEffect, LInv, AckLow
  <2>3. sensor.phase = "byteack" /\ sent < StreamLength(sensor.cmd)
    BY <1>1, <1>3, <1>4, <1>10, <2>1, ReadingCommand
    DEF ReadingSteps, BitSteps, ByteAckSteps, AnswerBits, StreamLength
  <2>4. sensor'.phase = "send" /\ sensor'.sent = sent
    BY <1>4, <1>5, <1>10, <2>2, <2>3, ByteAcknowledged
  <2>5. clk' = 0
    BY <2>2 DEF ClockLow
  <2> QED
    BY <1>3, <1>4, <2>1, <2>2, <2>4, <2>5 DEF InStep, Progress, BitSteps
<1>11. state.step # "CRC_ACKC"
  BY <1>1, <1>2, ReadingOrder DEF ReadingSteps, BitSteps, ByteAckSteps
<1> QED
  BY <1>6, <1>7, <1>8, <1>9, <1>10, <1>11 DEF ReadingSteps, BitSteps, ByteAckSteps

\* The acknowledge of a command ends, the clock falls.
LEMMA AckEnds ==
  ASSUME TypeOK, ClockLow, clk = 1, sensor.phase = "ack"
  PROVE  clk' = 0 /\ sensor'.phase = AfterAck[sensor.cmd] /\ sensor'.sent = sensor.sent
BY DEF ClockLow, SensorFalls, EndAck, TypeOK, SensorStates

\* The row that samples a command's acknowledge leads to the first row of the answer
\* or to the wait for it.
LEMMA AnswerBegins ==
  ASSUME Known, EInv, LInv, NEW outputs, Process(outputs), ArmEffect, fact' = fact,
         state.step = "ACKE", state'.step \in ReadingSteps \cup {"WAIT_READY"}
  PROVE  /\ sensor'.sent = 0 /\ clk' = 0 /\ data' = data /\ crc' = crc
         /\ \/ state' = Row("SREGR", "DATA", 7) /\ sensor'.phase = "send" /\ load' = "NR"
            \/ state'.step = "WAIT_READY" /\ sensor'.phase = "measuring"
<1>1. PICK input \in {0, 1} :
        /\ state' = NextState(state, input)
        /\ state \in States /\ RowExists(state)
        /\ state.step = "ACKE" => (input = 0 <=> Heard)
  BY Sampling
<1>2. RowInRange(state) /\ isr # "none" /\ dma = "off"
  BY WhenProcessing DEF LInv, Process, Known
<1>3. CASE state'.step \in ReadingSteps
  <2>1. state.seq = "SREGR" /\ input = 0 /\ state' = Row("SREGR", "DATA", 7)
    BY <1>1, <1>2, <1>3, ReadingRows DEF ReadingSteps, BitSteps, ByteAckSteps
  <2>2. sensor.phase = "ack" /\ clk = 1 /\ ClockLow /\ sensor.sent = 0 /\ TypeOK
    BY <1>1, <1>2, <2>1 DEF EInv, CommandAnswered, Known, AInv, Lines, ArmEffect, LInv, Fresh,
       CommandSteps
  <2>3. sensor.cmd = "status_read"
    BY <1>2, <2>1, <2>2, ReadingCommand DEF CommandSteps
  <2> QED
    <3>1. sensor'.sent = 0 /\ clk' = 0 /\ sensor'.phase = "send"
      BY <2>2, <2>3, AckEnds DEF AfterAck
    <3>2. UNCHANGED <<data, crc, load>>
      BY <2>1 DEF ArmEffect
    <3>3. load = "NR"
      BY DEF LInv, Fresh, CommandSteps
    <3> QED
      BY <2>1, <3>1, <3>2, <3>3
<1>4. CASE state'.step = "WAIT_READY"
  <2>1. state.seq = "SENSOR"
    BY <1>1, <1>4, WaitComesFrom
  <2>2. input = 0
    BY <1>1, <1>4 DEF NextState, Refused, FAIL, Row
  <2>3. sensor.phase = "ack" /\ clk = 1 /\ ClockLow /\ sensor.sent = 0 /\ TypeOK
    BY <1>1, <1>2, <2>2 DEF EInv, CommandAnswered, Known, AInv, Lines, ArmEffect, LInv, Fresh,
       CommandSteps
  <2>4. sensor.cmd \in Measurements
    BY <1>2, <2>1, <2>3, ReadingCommand DEF CommandSteps
  <2> QED
    BY <1>4, <2>1, <2>3, <2>4, AckEnds DEF AfterAck, ArmEffect, Measurements
<1> QED
  BY <1>3, <1>4

\* Empty registers fit an answer of either length.
LEMMA AnswerBitsKept ==
  ASSUME NEW bits \in {8, 16}, NEW other \in {8, 16}, Progress(0, bits)
  PROVE  Progress(0, other)
BY DEF Progress, Holds

\* Nothing is recorded before the answer.
LEMMA ArmKeepsFresh ==
  ASSUME Known, EInv, LInv, NEW outputs, Process(outputs), ArmEffect, fact' = fact,
         state.step # "WAIT_READY"
  PROVE  Fresh'
<1>1. PICK input \in {0, 1} :
        /\ state' = NextState(state, input) /\ state \in States /\ RowExists(state)
        /\ state' \in States
  BY ProcessRow, NextStateTyped DEF Known, AInv, Commands
<1>2. dma = "off" /\ (Late' <=> Late)
  BY WhenProcessing DEF Process, Known, Late
<1>3. CASE state'.step \in CommandSteps
  <2>1. /\ state.step \in {"FIN", "ACK", "ACKC"} /\ state'.step # "FIN"
    BY <1>1, <1>3, AnswerOrder DEF CommandSteps
  <2>2. UNCHANGED <<data, crc, load>> /\ dma' = "off"
    BY <1>2, <2>1 DEF ArmEffect
  <2>3. sensor.phase \in {"heard", "ack", "idle"}
    BY <1>2, <2>1 DEF Known, QInv, Acknowledging
  <2>4. /\ sensor'.sent = sensor.sent
        /\ sensor.phase = "idle" => sensor'.phase = "idle"
    <3>1. CASE state.step = "ACK"
      <4>1. ClockLow /\ sensor.phase # "ack"
        BY <1>2, <3>1 DEF ArmEffect, Known, QInv, Acknowledging
      <4> QED
        BY <2>3, <4>1 DEF ClockLow, SensorFalls, Known, TypeOK, SensorStates
    <3>2. CASE state.step # "ACK"
      BY <2>1, <3>2 DEF ArmEffect
    <3> QED
      BY <3>1, <3>2
  <2>5. Progress(0, AnswerBits(state'))
    BY AnswerBitsKept, <2>1 DEF LInv, Fresh, CommandSteps, AnswerBits
  <2>6. Progress(0, AnswerBits(state))'
    BY <2>2, <2>5 DEF Progress
  <2> QED
    BY <1>2, <1>3, <2>1, <2>2, <2>4, <2>6 DEF LInv, Fresh, CommandSteps
<1>4. CASE state'.step = "WAIT_READY"
  <2>1. state.step = "ACKE"
    BY <1>1, <1>4, WaitComesFrom
  <2>2. sensor'.sent = 0 /\ clk' = 0 /\ data' = data /\ crc' = crc /\ sensor'.phase = "measuring"
    BY <1>4, <2>1, AnswerBegins DEF Row
  <2>3. Progress(0, AnswerBits(state'))
    BY AnswerBitsKept, <2>1 DEF LInv, Fresh, CommandSteps, AnswerBits
  <2>4. Progress(0, AnswerBits(state))'
    BY <2>2, <2>3 DEF Progress
  <2> QED
    BY <1>2, <1>4, <2>1, <2>2, <2>4 DEF LInv, Fresh, CommandSteps
<1> QED
  BY <1>3, <1>4 DEF Fresh

\* A row of the answer records its bit, or moves the clock to it.
LEMMA ArmKeepsLockStep ==
  ASSUME Known, EInv, LInv, NEW outputs, Process(outputs), ArmEffect, fact' = fact,
         state.step # "WAIT_READY", state'.step \in ReadingSteps, ~Late'
  PROVE  InStep'
<1>1. PICK input \in {0, 1} :
        /\ state' = NextState(state, input) /\ state \in States
        /\ RowExists(state) /\ RowInRange(state)
  BY ProcessRow DEF Known, AInv, Commands, LInv
<1>2. ~Late
  BY DEF Late
<1>3. CASE state.step \in ReadingSteps
  BY <1>2, <1>3, ReadingGoesOn
<1>4. CASE state.step \notin ReadingSteps
  <2>1. state.step = "ACKE"
    BY <1>1, <1>4, ReadingRows
  <2>2. /\ sensor'.sent = 0 /\ clk' = 0 /\ data' = data /\ crc' = crc
        /\ state' = Row("SREGR", "DATA", 7) /\ sensor'.phase = "send" /\ load' = "NR"
    BY <2>1, AnswerBegins DEF ReadingSteps, BitSteps, ByteAckSteps
  <2>3. Sampled(state') = 0 /\ AnswerBits(state') = 8
    BY <2>2 DEF Sampled, AnswerBits, Row
  <2>4. Progress(0, 8)
    BY AnswerBitsKept, <2>1 DEF LInv, Fresh, CommandSteps, AnswerBits
  <2>5. Progress(0, 8)'
    BY <2>2, <2>4 DEF Progress
  <2>6. Progress(Sampled(state), AnswerBits(state))'
    BY <2>3, <2>5
  <2> QED
    BY <2>2, <2>3, <2>6 DEF InStep, BitSteps, Row
<1> QED
  BY <1>3, <1>4

\* The registers are full when the table gets to its end.
LEMMA ArmArrives ==
  ASSUME Known, EInv, LInv, NEW outputs, Process(outputs),
         data' = IF state.step = "DATAC" THEN data' ELSE data,
         crc' = IF state.step = "CRCC" THEN crc' ELSE crc,
         Late => Late'
  PROVE  Arrivals'
<1>1. PICK input \in {0, 1} :
        /\ state' = NextState(state, input) /\ error' = NextError(state, input)
        /\ state \in States /\ RowExists(state) /\ state.step # "FAIL"
  BY Sampling
<1>2. RowInRange(state) /\ UNCHANGED <<pc, call>> /\ isr # "none"
  BY DEF LInv, Process, taskVars
<1>3. \A t \in Tasks : pc'[t] # "finish"
  BY <1>2, WhenProcessing DEF Known, MutualExclusion
<1>4. state'.step = "FAIL" => error' # "OK"
  BY <1>1, RowErrors
<1>5. ASSUME NEW t \in Tasks, Waits(t), state'.step = "END", ~Late
      PROVE  Arrived(t)'
  <2>1. /\ state.step \in {"CRC_ACKC", "END", "ACKE", "PAYLOAD_ACKE"}
        /\ state.step = "ACKE" => state.seq = "SOFT_RESET"
    BY <1>1, <1>2, <1>5, ReadingRows
  <2>2. UNCHANGED <<data, crc>>
    BY <2>1
  <2>3. call[t].op = cmd /\ state.seq \in {SeqOf[cmd], "NONE"} /\ cmd \in Operations
    BY <1>5 DEF Known, TypeOK, AInv, Commands
  <2>4. CASE state.step = "END"
    BY <1>2, <1>5, <2>2, <2>4 DEF LInv, Arrivals, Arrived
  <2>5. CASE state.step \in {"ACKE", "PAYLOAD_ACKE"}
    <3>1. state.seq \in {"SOFT_RESET", "SREGW"}
      BY <1>1, <2>1, <2>5 DEF RowExists, PayloadSteps
    <3>2. cmd \in Writers
      BY <2>3, <3>1, SequenceOfCall DEF Writers
    <3> QED
      BY <1>2, <2>3, <3>2 DEF Arrived, Writers, Measurements
  <2>6. CASE state.step = "CRC_ACKC"
    <3>1. state.seq \in {"SENSOR", "SREGR"} /\ InStep
      BY <1>1, <1>5, <2>6 DEF RowExists, LInv, ReadingSteps, ByteAckSteps, CommandSteps,
         PayloadSteps
    <3>2. Progress(AnswerBits(state) + 8, AnswerBits(state)) /\ AnswerBits(state) \in {8, 16}
      BY <2>6, <3>1 DEF InStep, Sampled, AnswerBits
    <3>3. /\ cmd \in Measurements => AnswerBits(state) = 16
          /\ cmd = "status_read" => AnswerBits(state) = 8
      BY <2>3, <3>1 DEF SeqOf, AnswerBits, Measurements, Operations
    <3>4. Arrived(t)
      BY <2>3, <3>2, <3>3, FullRegisters DEF Arrived, Known, TypeOK
    <3> QED
      BY <1>2, <2>2, <3>4 DEF Arrived
  <2> QED
    BY <2>1, <2>4, <2>5, <2>6
<1> QED
  BY <1>2, <1>3, <1>4, <1>5 DEF Arrivals, Waits

\* The end of the wait enters the answer at its first bit.
LEMMA WaitReadyKeeps ==
  ASSUME Known, EInv, LInv, ProcessWaitReady
  PROVE  LInv'
<1>1. PICK input \in {0, 1} :
        /\ state' = NextState(state, input) /\ state \in States /\ RowExists(state)
        /\ state.step = "WAIT_READY" /\ RowInRange(state)
  BY ProcessRow, RowOutputs DEF ProcessWaitReady, Known, AInv, Commands, LInv
<1>2. state' = Row("SENSOR", "DATA", 15)
  BY <1>1 DEF RowInRange, NextState, Refused, Follow, Straight
<1>3. RowInRange(state') /\ Fresh' /\ AckLow'
  BY <1>2 DEF Row, RowInRange, AnswerBits, Fresh, AckLow, CommandSteps
<1>4. Arrivals'
  BY ArmArrives DEF ProcessWaitReady, Late
<1>5. ASSUME ~Late' PROVE InStep'
  <2>1. sensor.phase = "send" /\ clk = 0
    BY <1>1, <1>5 DEF ProcessWaitReady, LInv, Fresh, Late
  <2>2. sensor.sent = 0 /\ Progress(0, 16)
    BY <1>1, <2>1, WhenProcessing, AnswerBitsKept
    DEF LInv, Fresh, AnswerBits, ProcessWaitReady, Process, Known, CommandSteps
  <2>3. UNCHANGED <<data, crc, sensor>> /\ clk' = 0 /\ load' = "NR"
    BY <2>1 DEF ProcessWaitReady, ClockLow
  <2>4. Sampled(state') = 0 /\ AnswerBits(state') = 16
    BY <1>2 DEF Sampled, AnswerBits, Row
  <2>5. Progress(0, 16)'
    BY <2>2, <2>3 DEF Progress
  <2> QED
    BY <1>2, <2>1, <2>2, <2>3, <2>4, <2>5 DEF InStep, BitSteps, Row
<1> QED
  BY <1>3, <1>4, <1>5 DEF LInv

\* The handlers,
LEMMA IsrInStep ==
  ASSUME Known, EInv, LInv, Isr
  PROVE  LInv'
<1>1. CASE TimerIsr \/ GpioIsr
  <2>1. UNCHANGED <<pc, call, state, error, data, crc, load, dma, clk, dout, sensor, fact>>
    BY <1>1 DEF TimerIsr, GpioIsr, taskVars, deviceVars, pinVars
  <2> QED
    BY <2>1 DEF LInv, InStep, Fresh, AckLow, Arrivals, Arrived, Progress, Late, Waits
<1>2. CASE isr \in {"timer", "gpio"} /\ ~ProcessWaitReady
  <2>1. /\ ArmEffect /\ fact' = fact /\ state.step # "WAIT_READY"
        /\ \E outputs : Process(outputs)
    BY <1>2, ArmEffects
  <2>2. PICK outputs : Process(outputs)
    BY <2>1
  <2>3. PICK input \in {0, 1} :
          /\ state' = NextState(state, input) /\ state \in States
          /\ RowExists(state) /\ RowInRange(state)
    BY <2>2, ProcessRow DEF Known, AInv, Commands, LInv
  <2>4. RowInRange(state)'
    BY <2>3, ReadingRows
  <2>5. AckLow'
    BY <2>1, <2>3, ReadingRows DEF ArmEffect, LInv, AckLow
  <2>6. Arrivals'
    BY <2>1, <2>2, ArmArrives DEF ArmEffect, Late
  <2> QED
    BY <2>1, <2>2, <2>4, <2>5, <2>6, ArmKeepsFresh, ArmKeepsLockStep DEF LInv
<1>3. CASE ProcessError
  <2>1. /\ UNCHANGED <<pc, call, state, error, data, crc, fact>>
        /\ isr = "fault"
    BY <1>3 DEF ProcessError, taskVars, deviceVars
  <2>2. state.step = "FAIL"
    BY <2>1 DEF Known, QInv, Ending
  <2>3. Arrivals'
    BY <2>1 DEF LInv, Arrivals, Arrived, Late, Waits
  <2> QED
    BY <2>1, <2>2, <2>3
    DEF LInv, Fresh, AckLow, RowInRange, ReadingSteps, BitSteps, ByteAckSteps, CommandSteps
<1>4. TimerIsr \/ GpioIsr \/ ProcessError \/ isr \in {"timer", "gpio"}
  BY DEF Isr, ProcessTimerEnable, ProcessPayload, ProcessCrcFallingEdge,
     ProcessDataFallingEdge, ProcessRisingEdge, ProcessInputAckStart,
     ProcessOutputAckFallingEdge, ProcessReleaseData, ProcessAckWait, ProcessWaitReady,
     ProcessDone, Process
<1> QED
  BY <1>1, <1>2, <1>3, <1>4, WaitReadyKeeps

-----------------------------------------------------------------------------
(* The peripherals and the tasks, and answers *)

\* the peripherals and the sensor,
LEMMA HardwareInStep ==
  ASSUME Known, EInv, LInv, TimerTick \/ Transfer \/ SensorReady
  PROVE  LInv'
<1>1. UNCHANGED <<pc, call, state, error, data, crc, load>>
  BY DEF TimerTick, Transfer, DmaDone, DmaError, SensorReady, taskVars, deviceVars
<1>2. CASE TimerTick
  <2>1. UNCHANGED <<dma, clk, dout, sensor>> /\ (Late' <=> Late)
    BY <1>2 DEF TimerTick, pinVars, Late
  <2> QED
    BY <1>1, <2>1 DEF LInv, InStep, Fresh, AckLow, Arrivals, Arrived, Progress, Waits
<1>3. CASE SensorReady
  <2>1. /\ sensor.phase = "measuring" /\ sensor'.phase = "send" /\ sensor'.sent = sensor.sent
        /\ UNCHANGED <<dma, clk, dout>> /\ (Late' <=> Late)
    BY <1>3 DEF SensorReady, pinVars, Known, TypeOK, SensorStates, Late
  <2>2. ~(state.step \in ReadingSteps /\ ~Late)
    BY <2>1 DEF LInv, InStep
  <2> QED
    BY <1>1, <2>1, <2>2 DEF LInv, Fresh, AckLow, Arrivals, Arrived, Progress, Waits
<1>4. CASE Transfer
  <2>1. state.step \in {"FIN", "PAYLOAD_FIN"} /\ dma # "off" /\ state \in States
    BY <1>4 DEF Transfer, DmaDone, DmaError, Known, TypeOK, QInv, TransferRuns
  <2>2. state.step = "FIN" => dma = "cmd"
    BY <2>1 DEF Known, TypeOK, QInv, TransferRuns
  <2>3. state.step = "FIN" => (sensor'.phase # "idle" => sensor'.sent = 0)
    BY <1>4, <2>2 DEF Transfer, DmaDone, DmaError, SensorHears, Known, TypeOK, SensorStates
  <2>4. Late' => Late
    BY <1>4 DEF Transfer, DmaDone, DmaError, Late
  <2>5. Fresh'
    BY <1>1, <2>1, <2>3, <2>4 DEF LInv, Fresh, Progress, CommandSteps
  <2>6. Arrivals'
    <3>1. \A t \in Tasks : pc[t] # "finish"
      BY <2>1 DEF Known, QInv, RestsUnused, MutualExclusion
    <3> QED
      BY <1>1, <2>1, <3>1 DEF Arrivals
  <2> QED
    BY <1>1, <2>1, <2>5, <2>6
    DEF LInv, AckLow, ReadingSteps, BitSteps, ByteAckSteps
<1> QED
  BY <1>2, <1>3, <1>4

\* and the tasks keep row, clock and sensor in step.
LEMMA TaskInStep ==
  ASSUME Known, EInv, LInv, NEW t \in Tasks,
         \/ TaskStep(t)
         \/ \E op \in Ops, arg \in StatusArgs \cup {{}} : Call(t, op, arg)
  PROVE  LInv'
<1>1. CASE Start(t)
  <2>1. /\ pc[t] = "start" /\ pc' = [pc EXCEPT ![t] = "wait"]
        /\ state' = Row(SeqOf[call[t].op], "FIN", 0) /\ dma' = "cmd" /\ load' = "NR" /\ ~Late'
        /\ data' = [i \in 1..16 |-> 0] /\ crc' = [i \in 1..8 |-> 0]
    BY <1>1 DEF Start, SensorReadStart, StatusWriteStart, StatusReadStart, SoftwareResetStart,
       Prepare, Goto, SeqOf, Measurements, Late
  <2>2. \A u \in Tasks : u # t => pc[u] \notin {"start", "wait", "finish"}
    BY <2>1 DEF Known, MutualExclusion
  <2>3. Progress(0, AnswerBits(state))'
    BY <2>1 DEF Progress, Holds, AnswerBits
  <2>4. Arrivals'
    BY <2>1, <2>2 DEF Arrivals, Known, TypeOK, Row, Waits
  <2> QED
    BY <2>1, <2>3, <2>4 DEF LInv, RowInRange, Fresh, AckLow, Row, ReadingSteps, BitSteps,
       ByteAckSteps, CommandSteps
<1>2. CASE ~Start(t)
  <2>1. /\ UNCHANGED <<state, error, data, crc, load, dma, clk, dout, sensor, fact>>
        /\ \A u \in Tasks : u # t => pc'[u] = pc[u] /\ call'[u] = call[u]
        /\ \/ pc'[t] \notin {"wait", "finish"}
           \/ pc[t] = "wait" /\ sem = 1 /\ pc'[t] = "finish" /\ call'[t] = call[t]
    BY <1>2 DEF TaskStep, Call, TakeLock, LockTimeout, TakeSem, InterruptTimeout, ReadResult,
       SensorReadFinish, StatusWriteFinish, StatusReadFinish, SoftwareResetFinish, Finish,
       Convert, Goto, Return, rtosVars, deviceVars, sourceVars, pinVars, Known, TypeOK
  <2>2. sem = 1 => state.step \in {"END", "FAIL"}
    BY DEF Known, QInv, Ending
  <2>3. Arrivals'
    BY <2>1, <2>2 DEF LInv, Arrivals, Arrived, Late, Waits
  <2> QED
    BY <2>1, <2>3 DEF LInv, InStep, Fresh, AckLow, Progress, Late
<1> QED
  BY <1>1, <1>2

\* No step gets them out of step.
LEMMA InStepStep ==
  ASSUME Known, EInv, LInv, [Next]_vars
  PROVE  LInv'
<1>1. CASE UNCHANGED vars
  BY <1>1 DEF vars, taskVars, deviceVars, sourceVars, pinVars, LInv, InStep, Fresh, AckLow,
     Arrivals, Arrived, Progress, Late, Waits
<1> QED
  BY <1>1, TaskInStep, IsrInStep, HardwareInStep DEF Next

\* What the driver knows, and what a call's history and the sensor say, fit together in
\* every state.
THEOREM Knowledge == Spec => [](Known /\ EInv /\ LInv)
<1>1. Init => EInv
  BY InitHonest
<1>2. Known /\ EInv /\ [Next]_vars => EInv'
  BY HonestStep
<1>3. Init => LInv
  BY DEF Init, LInv, RowInRange, Fresh, AckLow, Arrivals, END, Row, ReadingSteps, BitSteps,
     ByteAckSteps, CommandSteps, Waits
<1>4. Known /\ EInv /\ LInv /\ [Next]_vars => LInv'
  BY InStepStep
<1> QED
  BY <1>1, <1>2, <1>3, <1>4, KnownAlways, PTL DEF Spec

\* Unless the driver gave up waiting, each bit the sensor puts out is recorded once and
\* in its place: stale edges and ticks may advance the table early, never out of step.
THEOREM Answering == Spec => []LockStep
<1>1. LInv => LockStep
  BY DEF LInv, LockStep, InStep, Progress, ReadingSteps, Late
<1> QED
  BY <1>1, Knowledge, PTL

-----------------------------------------------------------------------------
(* Agreeing with a sensor that hears *)

Deaf == "deaf" \in fact

\* A sensor that hears every pattern acknowledges it, and the driver's copy of its
\* register is out of date only while a call writes it.
Synced(t) ==
  /\ Waits(t) \/ pc[t] = "finish" => (call[t].op \in Readers => status = sensor.status)
  /\ pc[t] = "finish" => error = "OK"
  /\ Waits(t) =>
       /\ dma # "cmd" => Heard
       /\ state.step = "PAYLOAD" \/ dma = "payload" => sensor.phase = "payload"
       /\ state.step \in PayloadSteps \ {"PAYLOAD"} /\ dma = "off" => ValueHeard
       /\ state.step # "FAIL"

Sync ==
  /\ \A t \in Tasks : call[t].arg \subseteq SREG_bm
  /\ ~Deaf =>
       /\ TransactionArmed
       /\ SeedOfStatus
       /\ (\A t \in Tasks : pc[t] \notin {"wait", "finish"}) => status = sensor.status
       /\ \A t \in Tasks : Synced(t)

KnownAll == Known /\ EInv /\ LInv

\* Where the value of a write follows, and which rows fail.
LEMMA PayloadRows ==
  ASSUME NEW s \in States, RowExists(s), NEW input \in {0, 1}
  PROVE  LET n == NextState(s, input)
         IN /\ n.step = "PAYLOAD" => s.step = "ACKE" /\ s.seq = "SREGW" /\ input = 0
            /\ n.step = "FAIL" =>
                 s.step = "FAIL" \/ (s.step \in {"ACKE", "PAYLOAD_ACKE"} /\ input = 1)
<1> USE StepNames, StraightTyped DEF States, RowExists, CommandSteps
<1>1. CASE Refused(s, input)
  BY <1>1 DEF NextState, Refused, FAIL, Row
<1>2. CASE ~Refused(s, input) /\ s.step \in DOMAIN Straight
  BY <1>2 DEF NextState, Follow, Straight
<1>3. CASE ~Refused(s, input) /\ s.step = "ACKE"
  <2>1. NextState(s, input) = AfterCommand[s.seq] /\ input = 0
    BY <1>3 DEF NextState, Refused, Follow, Straight
  <2> QED
    BY <1>3, <2>1 DEF AfterCommand, Row, END, Seqs
<1>4. CASE ~Refused(s, input) /\ s.step \notin DOMAIN Straight \cup {"ACKE"}
  BY <1>4 DEF NextState, Follow, Row, FAIL, END, AfterDataBit, AfterByteAck, AfterCrcBit
<1> QED
  BY <1>1, <1>2, <1>3, <1>4

\* The handlers' arms.
LEMMA ArmKeepsSynced ==
  ASSUME KnownAll, NEW outputs, Process(outputs), SensorMoves, FactsKept,
         state.step = "ACKE" /\ state.seq = "SREGW" => ClockLow,
         dma' = IF state.step = "PAYLOAD" THEN "payload" ELSE dma,
         state.step = "PAYLOAD" => UNCHANGED sensor,
         NEW t \in Tasks, Synced(t), Waits(t)
  PROVE  Synced(t)'
<1>1. PICK input \in {0, 1} :
        /\ state' = NextState(state, input)
        /\ state \in States /\ RowExists(state) /\ state.step # "FAIL"
        /\ state.step = "ACKE" => (input = 0 <=> Heard)
        /\ state.step = "PAYLOAD_ACKE" => (input = 0 <=> ValueHeard)
  BY Sampling DEF KnownAll
<1>2. UNCHANGED <<pc, call, status, cmd>> /\ dma = "off" /\ isr # "none"
  BY WhenProcessing DEF Process, taskVars, settingVars, bufferVars, KnownAll, Known
<1>3. Heard /\ (state.step \in PayloadSteps \ {"PAYLOAD"} => ValueHeard)
  BY <1>2 DEF Synced
<1>4. call[t].op \in Readers => status' = sensor'.status
  BY <1>2, RegisterFalls DEF Synced, SensorMoves, KnownAll, Known, Readers
<1>5. state'.step = "PAYLOAD" => sensor'.phase = "payload"
  <2> SUFFICES ASSUME state'.step = "PAYLOAD" PROVE sensor'.phase = "payload"
    OBVIOUS
  <2>1. state.step = "ACKE" /\ state.seq = "SREGW" /\ ClockLow
    BY <1>1, PayloadRows
  <2>2. sensor.phase = "ack" /\ clk = 1 /\ TypeOK
    BY <1>3, <2>1 DEF KnownAll, EInv, CommandAnswered, Known, AInv, Lines
  <2>3. sensor.cmd = cmd /\ state.seq = SeqOf[cmd] /\ cmd \in Operations
    BY <1>2, <2>1, <2>2, ReadingCommand DEF KnownAll, CommandSteps
  <2>4. cmd = "status_write"
    BY <2>1, <2>3, SequenceOfCall
  <2> QED
    BY <2>1, <2>2, <2>3, <2>4, AckEnds DEF AfterAck
<1>6. dma' = "payload" => sensor'.phase = "payload"
  BY <1>2 DEF Synced
<1>7. state'.step \in PayloadSteps \ {"PAYLOAD"} /\ dma' = "off" => ValueHeard
  BY <1>1, <1>2, <1>3, AnswerOrder DEF PayloadSteps
<1>8. state'.step # "FAIL"
  BY <1>1, <1>3, PayloadRows DEF PayloadSteps
<1> QED
  BY <1>2, <1>3, <1>4, <1>5, <1>6, <1>7, <1>8 DEF Synced, FactsKept, Waits

\* What all arms of sht1x_process have in common.
LEMMA HandlerMoves ==
  ASSUME Known, Isr
  PROVE  /\ UNCHANGED <<pc, call, status, crcInit>>
         /\ SensorMoves /\ FactsKept /\ (Deaf' <=> Deaf)
         /\ isr \in {"timer", "gpio"} =>
              /\ state.step = "ACKE" /\ state.seq = "SREGW" => ClockLow
              /\ dma' = IF state.step = "PAYLOAD" THEN "payload" ELSE dma
              /\ state.step = "PAYLOAD" => UNCHANGED sensor
              /\ \E outputs : Process(outputs)
         /\ isr \notin {"timer", "gpio"} /\ ~ProcessError => TimerIsr \/ GpioIsr
<1>1. state \in States /\ dout \in {0, 1}
  BY DEF Known, TypeOK
<1>2. CASE TimerIsr \/ GpioIsr
  BY <1>2 DEF TimerIsr, GpioIsr, SensorMoves, FactsKept, Deaf, Heard, ValueHeard, taskVars,
     settingVars
<1>3. CASE ProcessError
  BY <1>3 DEF ProcessError, TransmissionDone, SensorMoves, FactsKept, Deaf, Heard, ValueHeard,
     taskVars, settingVars
<1>4. CASE ProcessWaitReady
  <2>1. state.step = "WAIT_READY"
    BY <1>1, <1>4, RowOutputs DEF ProcessWaitReady, Process
  <2>2. /\ Process({"WAIT_READY"}) /\ ClockLow /\ dma' = dma
        /\ fact' = fact \/ fact' = fact \cup {"late"}
    BY <1>4 DEF ProcessWaitReady
  <2>3. SensorMoves
    BY <1>1, <2>2 DEF ClockLow, SensorMoves
  <2>4. FactsKept /\ (Deaf' <=> Deaf)
    BY <2>2 DEF FactsKept, Deaf, Heard, ValueHeard
  <2>5. UNCHANGED <<pc, call, status, crcInit>> /\ isr \in {"timer", "gpio"}
    BY <2>2 DEF Process, taskVars, settingVars
  <2> QED
    BY <2>1, <2>2, <2>3, <2>4, <2>5
<1>5. CASE isr \in {"timer", "gpio"} /\ ~ProcessWaitReady
  <2>1. ArmEffect /\ fact' = fact /\ \E outputs : Process(outputs)
    BY <1>5, ArmEffects
  <2>2. SensorMoves
    BY <1>1, <1>5 DEF Isr, TimerIsr, GpioIsr, ProcessTimerEnable, ProcessPayload,
       ProcessCrcFallingEdge, ProcessDataFallingEdge, ProcessRisingEdge, ClockHigh,
       ProcessInputAckStart, ProcessOutputAckFallingEdge, ProcessReleaseData, ProcessAckWait,
       ProcessDone, ProcessError, TransmissionDone, ClockLow, SensorMoves
  <2>3. state.step = "PAYLOAD" => UNCHANGED sensor /\ dma' = "payload"
    BY <1>1, <1>5, RowOutputs DEF Isr, TimerIsr, GpioIsr, ProcessTimerEnable, ProcessPayload,
       ProcessCrcFallingEdge, ProcessDataFallingEdge, ProcessRisingEdge, ProcessInputAckStart,
       ProcessOutputAckFallingEdge, ProcessReleaseData, ProcessAckWait, ProcessDone,
       ProcessError, Process
  <2>4. UNCHANGED <<pc, call, status, crcInit>>
    BY <2>1 DEF Process, taskVars, settingVars
  <2> QED
    BY <1>5, <2>1, <2>2, <2>3, <2>4 DEF ArmEffect, FactsKept, Deaf, Heard, ValueHeard
<1>6. TimerIsr \/ GpioIsr \/ ProcessError \/ isr \in {"timer", "gpio"}
  BY DEF Isr, ProcessTimerEnable, ProcessPayload, ProcessCrcFallingEdge,
     ProcessDataFallingEdge, ProcessRisingEdge, ProcessInputAckStart,
     ProcessOutputAckFallingEdge, ProcessReleaseData, ProcessAckWait, ProcessWaitReady,
     ProcessDone, Process
<1> QED
  BY <1>2, <1>3, <1>4, <1>5, <1>6

\* The handlers,
LEMMA IsrKeepsSync ==
  ASSUME KnownAll, Sync, Isr
  PROVE  Sync'
<1>1. Known
  BY DEF KnownAll
<1>2. \A t \in Tasks : (call[t].arg \subseteq SREG_bm)'
  BY <1>1, HandlerMoves DEF Sync
<1>3. ASSUME ~Deaf'
      PROVE  /\ TransactionArmed' /\ SeedOfStatus'
             /\ \E t \in Tasks : Waits(t)
             /\ \A t \in Tasks : Synced(t)'
  <2>1. ~Deaf /\ TransactionArmed /\ SeedOfStatus /\ \A t \in Tasks : Synced(t)
    BY <1>1, <1>3, HandlerMoves DEF Sync
  <2>2. TransactionArmed' /\ SeedOfStatus'
    BY <1>1, <2>1, HandlerMoves, IsrArmed DEF TransactionArmed, SeedOfStatus, Known
  <2>3. PICK t \in Tasks : Waits(t)
    <3>1. isr # "none" \/ pend # {}
      BY DEF Isr, TimerIsr, GpioIsr, ProcessTimerEnable, ProcessPayload,
         ProcessCrcFallingEdge, ProcessDataFallingEdge, ProcessRisingEdge,
         ProcessInputAckStart, ProcessOutputAckFallingEdge, ProcessReleaseData,
         ProcessAckWait, ProcessWaitReady, ProcessDone, ProcessError, Process
    <3> QED
      BY <1>1, <3>1 DEF Known, QInv, RestsUnused, Waits
  <2>4. \A u \in Tasks : u # t => pc[u] \notin {"wait", "finish"}
    BY <1>1, <2>3 DEF Known, MutualExclusion, Waits
  <2>5. Synced(t)'
    <3>1. CASE TimerIsr \/ GpioIsr
      BY <2>1, <3>1 DEF Synced, TimerIsr, GpioIsr, taskVars, settingVars, deviceVars, Waits,
         Heard, ValueHeard
    <3>2. CASE isr \in {"timer", "gpio"}
      BY <1>1, <2>1, <2>3, <3>2, HandlerMoves, ArmKeepsSynced
    <3>3. ~ProcessError
      BY <1>1, <2>1, <2>3 DEF ProcessError, Known, QInv, Ending, Synced
    <3> QED
      BY <1>1, <3>1, <3>2, <3>3, HandlerMoves
  <2>6. \A u \in Tasks : Synced(u)'
    BY <1>1, <2>4, <2>5, HandlerMoves DEF Synced, Waits
  <2> QED
    BY <2>2, <2>3, <2>6
<1> QED
  BY <1>1, <1>2, <1>3, HandlerMoves DEF Sync, Waits

\* the peripherals and the sensor,
LEMMA HardwareKeepsSync ==
  ASSUME KnownAll, Sync, TimerTick \/ Transfer \/ SensorReady
  PROVE  Sync'
<1>1. UNCHANGED <<pc, call, state, error, status, crcInit>> /\ Known
  BY DEF TimerTick, Transfer, DmaDone, DmaError, SensorReady, taskVars, deviceVars, settingVars,
     KnownAll
<1> SUFFICES ASSUME ~Deaf' PROVE Sync'
  BY <1>1 DEF Sync
<1>2. ~Deaf /\ ~DmaError
  BY DEF TimerTick, Transfer, DmaDone, DmaError, SensorReady, Deaf
<1>3. TransactionArmed'
  BY <1>1, <1>2, HardwareArmed DEF Sync, TransactionArmed, Known
<1>4. sensor'.status = sensor.status
  BY <1>1, <1>2 DEF TimerTick, Transfer, DmaDone, SensorReady, SensorHears, SensorHearsPayload,
     Known, TypeOK, SensorStates
<1>5. ASSUME NEW t \in Tasks PROVE Synced(t)'
  <2>1. Synced(t)
    BY <1>2 DEF Sync
  <2>2. CASE TimerTick
    BY <1>1, <2>1, <2>2 DEF TimerTick, Synced, Waits, Heard, ValueHeard
  <2>3. CASE SensorReady
    BY <1>1, <1>4, <2>1, <2>3 DEF SensorReady, Synced, Waits, Heard, ValueHeard
  <2>4. CASE DmaDone
    <3>1. state.step = (IF dma = "cmd" THEN "FIN" ELSE "PAYLOAD_FIN") /\ dma' = "off"
          /\ dma \in {"cmd", "payload"}
      BY <1>1, <2>4 DEF DmaDone, Known, TypeOK, QInv, TransferRuns
    <3>2. Waits(t) => Heard' /\ (dma = "payload" => ValueHeard')
      BY <1>1, <2>1, <2>4 DEF DmaDone, SensorHearsPayload, Synced, Heard, ValueHeard, Deaf,
         Known, TypeOK, SensorStates
    <3> QED
      BY <1>1, <1>4, <2>1, <3>1, <3>2 DEF Synced, Waits, PayloadSteps
  <2> QED
    BY <1>2, <2>2, <2>3, <2>4 DEF Transfer
<1> QED
  BY <1>1, <1>2, <1>3, <1>4, <1>5 DEF Sync, SeedOfStatus

\* and the tasks keep driver and sensor in agreement.
LEMMA TaskKeepsSync ==
  ASSUME KnownAll, Sync, StatusArgs \subseteq SUBSET SREG_bm, NEW t \in Tasks,
         \/ TaskStep(t)
         \/ \E op \in Ops, arg \in StatusArgs \cup {{}} : Call(t, op, arg)
  PROVE  Sync'
<1> USE DEF Goto, Return, KnownAll, Known, TypeOK
<1>1. \A u \in Tasks : (call[u].arg \subseteq SREG_bm)'
  <2>1. \/ UNCHANGED call
        \/ call' = [call EXCEPT ![t] = Idle]
        \/ \E op \in Ops, arg \in StatusArgs \cup {{}} :
             call' = [call EXCEPT ![t] = [op |-> op, arg |-> arg]]
    BY DEF TaskStep, Call, TakeLock, LockTimeout, Start, SensorReadStart, StatusWriteStart,
       StatusReadStart, SoftwareResetStart, Prepare, TakeSem, InterruptTimeout, ReadResult,
       SensorReadFinish, StatusWriteFinish, StatusReadFinish, SoftwareResetFinish, Convert
  <2> QED
    BY <2>1 DEF Sync, Idle
<1> SUFFICES ASSUME ~Deaf' PROVE Sync'
  BY <1>1 DEF Sync
<1>2. ~Deaf
  BY DEF TaskStep, Call, TakeLock, LockTimeout, Start, SensorReadStart, StatusWriteStart,
     StatusReadStart, SoftwareResetStart, Prepare, TakeSem, InterruptTimeout, ReadResult,
     SensorReadFinish, StatusWriteFinish, StatusReadFinish, SoftwareResetFinish, Finish,
     Convert, Deaf
<1>3. /\ TransactionArmed /\ SeedOfStatus /\ \A u \in Tasks : Synced(u)
      /\ (\A u \in Tasks : pc[u] \notin {"wait", "finish"}) => status = sensor.status
  BY <1>2 DEF Sync
<1>4. TransactionArmed' /\ SeedOfStatus'
  <2>1. [Next]_vars /\ ~DmaError
    BY DEF Next, TaskStep, Call, TakeLock, LockTimeout, Start, SensorReadStart,
       StatusWriteStart, StatusReadStart, SoftwareResetStart, Prepare, TakeSem,
       InterruptTimeout, ReadResult, SensorReadFinish, StatusWriteFinish, StatusReadFinish,
       SoftwareResetFinish, Finish, Convert, DmaError, Deaf, Sync
  <2> QED
    BY <1>3, <2>1, ArmedStep, SeedStep
<1>5. ~InterruptTimeout(t)
  BY <1>3 DEF InterruptTimeout, Stuck, TaskMayRun, TransactionArmed, InterruptComing,
     CompletionAwaited
<1>6. ASSUME UNCHANGED <<state, error, status, dma, sensor, fact>>,
             \A u \in Tasks : u # t => pc'[u] = pc[u] /\ call'[u] = call[u],
             pc[t] \notin {"wait", "finish"}, pc'[t] \notin {"wait", "finish"}
      PROVE  /\ \A u \in Tasks : Synced(u)'
             /\ (\A u \in Tasks : pc'[u] \notin {"wait", "finish"}) => status' = sensor'.status
  BY <1>3, <1>6 DEF Synced, Waits, Heard, ValueHeard
<1>7. CASE \E op \in Ops, arg \in StatusArgs \cup {{}} : Call(t, op, arg)
  BY <1>1, <1>4, <1>6, <1>7 DEF Call, Sync, rtosVars, deviceVars, settingVars, sourceVars
<1>8. CASE TakeLock(t) \/ LockTimeout(t) \/ Convert(t)
  BY <1>1, <1>4, <1>6, <1>8
  DEF TakeLock, LockTimeout, Convert, Sync, rtosVars, deviceVars, settingVars, sourceVars
<1>9. ASSUME pc[t] \in {"start", "wait", "finish"}
      PROVE  \A u \in Tasks : u # t => pc[u] \notin {"wait", "finish"}
  BY <1>9 DEF MutualExclusion
<1>10. CASE Start(t)
  <2>1. /\ pc[t] = "start" /\ pc' = [pc EXCEPT ![t] = "wait"]
        /\ state' = Row(SeqOf[call[t].op], "FIN", 0) /\ dma' = "cmd"
        /\ UNCHANGED <<call, status, sensor>>
    BY <1>10 DEF Start, SensorReadStart, StatusWriteStart, StatusReadStart, SoftwareResetStart,
       Prepare, SeqOf, Measurements, settingVars
  <2>2. status = sensor.status
    BY <1>3, <1>9, <2>1
  <2>3. \A u \in Tasks : Synced(u)'
    BY <1>9, <2>1, <2>2 DEF Synced, Waits, Row, PayloadSteps
  <2> QED
    BY <1>1, <1>4, <2>1, <2>2, <2>3 DEF Sync
<1>11. CASE TakeSem(t)
  <2>1. /\ pc[t] = "wait" /\ sem = 1 /\ pc' = [pc EXCEPT ![t] = "finish"]
        /\ UNCHANGED <<call, error, status, sensor>>
    BY <1>11 DEF TakeSem, deviceVars, settingVars
  <2>2. dma = "off" /\ state.step = "END" /\ Synced(t) /\ Waits(t)
    BY <1>3, <2>1 DEF QInv, TokenIsLast, Silent, Ending, Synced, Waits
  <2>3. error = "OK"
    BY <2>1, <2>2 DEF AInv, Results, Verdict, EInv, HonestResults, Honest, Synced
  <2>4. \A u \in Tasks : Synced(u)'
    BY <1>9, <2>1, <2>2, <2>3 DEF Synced, Waits
  <2> QED
    BY <1>1, <1>4, <2>1, <2>4 DEF Sync
<1>12. CASE ReadResult(t)
  <2>1. /\ pc[t] = "finish" /\ pc'[t] \notin {"wait", "finish"} /\ UNCHANGED sensor
        /\ \A u \in Tasks : u # t => pc'[u] = pc[u]
    BY <1>12 DEF ReadResult, SensorReadFinish, StatusWriteFinish, StatusReadFinish,
       SoftwareResetFinish, Finish
  <2>2. /\ Synced(t) /\ Verdict(t) /\ call[t].arg \subseteq SREG_bm
        /\ call[t].op = "status_write" \/ call[t].arg = {}
    BY <1>3, <2>1 DEF AInv, Results, Calling, Sync
  <2>3. error = "OK" /\ Promise(t) /\ (call[t].op \in Readers => status = sensor.status)
    BY <2>1, <2>2 DEF Synced, Verdict
  <2>4. status' = sensor.status
    <3>1. CASE SensorReadFinish(t)
      <4>1. call[t].op \in Readers /\ status' = status
        BY <3>1 DEF SensorReadFinish, settingVars, Readers, Writers, Operations, Measurements
      <4> QED
        BY <2>3, <4>1
    <3>2. CASE StatusWriteFinish(t)
      <4>1. call[t].op \in Writers /\ status' = call[t].arg
        BY <3>2 DEF StatusWriteFinish, Writers
      <4> QED
        BY <2>2, <2>3, <4>1 DEF Promise, Written
    <3>3. CASE StatusReadFinish(t)
      <4>1. call[t].op \in Readers /\ status' \in {sensor.status, status}
        BY <3>3 DEF StatusReadFinish, Readers, Writers, Operations, Measurements
      <4> QED
        BY <2>3, <4>1
    <3>4. CASE SoftwareResetFinish(t)
      <4>1. call[t].op \in Writers /\ call[t].arg = {} /\ status' = {}
        BY <2>2, <3>4 DEF SoftwareResetFinish, Writers
      <4> QED
        BY <2>3, <4>1 DEF Promise, Written
    <3> QED
      BY <1>12, <3>1, <3>2, <3>3, <3>4 DEF ReadResult
  <2>5. \A u \in Tasks : Synced(u)'
    BY <1>9, <2>1 DEF Synced, Waits
  <2> QED
    BY <1>1, <1>4, <2>1, <2>4, <2>5 DEF Sync
<1> QED
  BY <1>5, <1>7, <1>8, <1>10, <1>11, <1>12 DEF TaskStep

\* No step ends it, as long as the sensor hears.
LEMMA SyncStep ==
  ASSUME KnownAll, Sync, StatusArgs \subseteq SUBSET SREG_bm, [Next]_vars
  PROVE  Sync'
<1>1. CASE UNCHANGED vars
  BY <1>1 DEF vars, taskVars, rtosVars, deviceVars, settingVars, sourceVars, Sync, Synced,
     Waits, Deaf, Heard, ValueHeard, TransactionArmed, InterruptComing, CompletionAwaited,
     SeedOfStatus
<1> QED
  BY <1>1, TaskKeepsSync, IsrKeepsSync, HardwareKeepsSync DEF Next

\* So it holds in every state, if callers write flags that can be written.
LEMMA SyncAlways ==
  ASSUME StatusArgs \subseteq SUBSET SREG_bm
  PROVE  Spec => [](KnownAll /\ Sync)
<1>1. Init => Sync
  BY DEF Init, Sync, Synced, Idle, SeedOfStatus, TransactionArmed, Waits
<1>2. KnownAll /\ Sync /\ [Next]_vars => Sync'
  BY SyncStep
<1>3. Known /\ EInv /\ LInv => KnownAll
  BY DEF KnownAll
<1> QED
  BY <1>1, <1>2, <1>3, Knowledge, PTL DEF Spec

\* With writable flags only, a free driver and a sensor that heard every pattern
\* agree about the register and the seed made of it, whatever calls went before.
THEOREM Agreement ==
  ASSUME StatusArgs \subseteq SUBSET SREG_bm
  PROVE  Spec => []SettingsInSync
<1>1. KnownAll /\ Sync => SettingsInSync
  BY TasksAssumption DEF KnownAll, Known, MutualExclusion, Sync, SeedOfStatus, Deaf,
     SettingsInSync
<1>2. Spec => [](KnownAll /\ Sync)
  BY SyncAlways
<1> QED
  BY <1>1, <1>2, PTL

\* With writable flags only, a call to such a sensor fails for one reason: a
\* measurement that did not end within the wait.
THEOREM Blameless ==
  ASSUME StatusArgs \subseteq SUBSET SREG_bm
  PROVE  Spec => NoSpuriousFailure
<1>1. ASSUME KnownAll, Sync, [Next]_vars, NEW t \in Tasks, Returns(t),
             fact \cap {"late", "deaf"} = {}
      PROVE  ret'[t] = "OK"
  <2>1. ReadResult(t) /\ pc[t] = "finish"
    BY <1>1, EndOfCall DEF KnownAll, Known, Returns
  <2>2. ~Late /\ ~Deaf
    BY <1>1 DEF Late, Deaf
  <2>3. error = "OK" /\ Arrived(t) /\ (call[t].op \in Readers => crcInit = sensor.status)
    BY <1>1, <2>1, <2>2 DEF KnownAll, LInv, Arrivals, Sync, Synced, SeedOfStatus
  <2>4. /\ call[t].op \in Measurements => ReadingArrived
        /\ call[t].op = "status_read" => RegisterArrived
    BY <2>3 DEF Arrived, ReadingArrived, RegisterArrived, CrcAccepts, Readers, Writers,
       Operations, Measurements
  <2> QED
    BY <1>1, <2>1, <2>3, <2>4 DEF ReadResult, SensorReadFinish, StatusWriteFinish,
       StatusReadFinish, SoftwareResetFinish, Return, KnownAll, Known, TypeOK
<1>2. KnownAll /\ Sync /\ [Next]_vars =>
        [\A t \in Tasks :
           Returns(t) /\ fact \cap {"late", "deaf"} = {} => ret'[t] = "OK"]_vars
  BY <1>1
<1>3. Spec => [](KnownAll /\ Sync)
  BY SyncAlways
<1> QED
  BY <1>2, <1>3, PTL DEF Spec, NoSpuriousFailure
=============================================================================
