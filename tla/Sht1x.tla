-------------------------------- MODULE Sht1x -------------------------------
(***************************************************************************)
(* The SHT1x driver of src/src/sht1x.c: FreeRTOS tasks calling its API,    *)
(* the timer 0A and GPIO E interrupt handlers that walk the transition     *)
(* table, and the peripherals (timer, uDMA channel, GPIO port, NVIC) they  *)
(* share.                                                                  *)
(*                                                                         *)
(* A task prepares a command under device.lock, starts the uDMA transfer   *)
(* of its bit pattern and blocks on device.interrupt_semaphore; interrupt  *)
(* handlers do the rest of the transmission one row of the table at a time *)
(* and give the semaphore when it ends.                                    *)
(*                                                                         *)
(* Interrupts all have the same priority: a handler runs to its end before *)
(* another starts, the pending one with the lowest number goes first       *)
(* (GPIO E before timer 0A), and no task runs while one is pending.  The   *)
(* peripherals and the sensor proceed between any two steps.               *)
(***************************************************************************)
EXTENDS Sht1xTable, Sht1xSensor

CONSTANTS
  Tasks,         \* the tasks that call the driver
  NoTask,        \* the owner of a free mutex
  Ops,           \* the API functions they call
  StatusArgs,    \* the values they pass to sht1x_status_write()
  Hearing,       \* whether the sensor recognises a pattern: outcomes possible
  DmaMayFail     \* whether a uDMA transfer may end in a bus error

ASSUME TasksAssumption == NoTask \notin Tasks
ASSUME OpsAssumption == Ops \subseteq Operations
ASSUME ArgsAssumption == StatusArgs \subseteq SUBSET Flags
ASSUME HearingAssumption == Hearing \subseteq BOOLEAN
ASSUME DmaAssumption == DmaMayFail \in BOOLEAN

VARIABLES
  pc, call, ret, \* per task: where it is, [op, arg] it called, what it returned
  lock, sem,     \* device.lock's owner, tokens in device.interrupt_semaphore
  state, error,  \* device.state, device.error
  data, crc,     \* the shift registers device.data and device.crc
  status, crcInit,  \* device.status; device.crc_init as the flags it reverses
  cmd, payload,  \* what device.cmd and device.cmd_payload spell out
  timer, load,   \* timer 0A: enabled, interrupt mask, raw status; period
  gpio,          \* port E data pin: interrupt mask and raw status
  dma,           \* what the uDMA channel transfers, if anything
  pend,          \* interrupts pending in the NVIC
  isr,           \* the handler that is running, and how far
  clk, dout,     \* levels of the clock and data output pins
  sensor,        \* the device at the other end
  fact,          \* what happened in this transmission (history)
  taken          \* the flags a task's reading was taken with (history)

taskVars == <<pc, call, ret, taken>>
rtosVars == <<lock, sem>>
deviceVars == <<state, error, data, crc>>
settingVars == <<status, crcInit>>
bufferVars == <<cmd, payload>>
sourceVars == <<timer, load, gpio, dma, pend>>
pinVars == <<clk, dout>>
vars == <<taskVars, rtosVars, deviceVars, settingVars, bufferVars, sourceVars,
          isr, pinVars, sensor, fact>>

Idle == [op |-> "none", arg |-> {}]

Calls == {Idle} \cup [op : Operations, arg : SUBSET Flags]

\* Of this transmission: what the sensor heard, that the slow timer ticked, that
\* the driver stopped waiting for it.  Of all: that it missed a pattern.
Facts == {"heard", "payloadHeard", "timeout", "late", "deaf"}

\* A shift register remembers the stream position of each bit it holds.
Register(width) == [1..width -> Nat]

ShiftIn(reg, width, bit) ==
  [i \in 1..width |-> IF i < width THEN reg[i + 1] ELSE bit]

TypeOK ==
  /\ pc \in [Tasks -> {"idle", "lock", "start", "wait", "finish", "convert"}]
  /\ call \in [Tasks -> Calls]
  /\ ret \in [Tasks -> Errors]
  /\ lock \in Tasks \cup {NoTask}
  /\ sem \in 0..1
  /\ state \in States
  /\ error \in Errors
  /\ data \in Register(16)
  /\ crc \in Register(8)
  /\ status \in SUBSET Flags
  /\ crcInit \in SUBSET Flags
  /\ cmd \in Operations
  /\ payload \in SUBSET Flags
  /\ timer \in SUBSET {"EN", "IM", "RIS"}
  /\ load \in {"NR", "LO"}
  /\ gpio \in SUBSET {"IM", "RIS"}
  /\ dma \in {"off", "cmd", "payload"}
  /\ pend \in SUBSET {"timer", "gpio"}
  /\ isr \in {"none", "timer", "gpio", "fault"}
  /\ clk \in 0..1
  /\ dout \in 0..1
  /\ sensor \in SensorStates
  /\ fact \in SUBSET Facts
  /\ taken \in [Tasks -> SUBSET Flags]

\* The state sht1x_init() leaves, with a sensor that was just powered up.
Init ==
  /\ pc = [t \in Tasks |-> "idle"]
  /\ call = [t \in Tasks |-> Idle]
  /\ ret = [t \in Tasks |-> "UNKNOWN"]
  /\ lock = NoTask
  /\ sem = 0
  /\ state = END
  /\ error = "UNKNOWN"
  /\ data = [i \in 1..16 |-> 0]
  /\ crc = [i \in 1..8 |-> 0]
  /\ status = {}
  /\ crcInit = {}
  /\ cmd = "software_reset"
  /\ payload = {}
  /\ timer = {}
  /\ load = "NR"
  /\ gpio = {}
  /\ dma = "off"
  /\ pend = {}
  /\ isr = "none"
  /\ clk = 0
  /\ dout = 1
  /\ sensor = [phase |-> "idle", cmd |-> "software_reset", sent |-> 0, status |-> {}]
  /\ fact = {}
  /\ taken = [t \in Tasks |-> {}]

-----------------------------------------------------------------------------
(* The API functions, as the calling task runs them *)

\* A task executes instructions only while no handler runs or is pending.
TaskMayRun == isr = "none" /\ pend = {}

\* Nothing is left that could complete the transmission in progress: the
\* 2^32 - 1 ticks of portMAX_DELAY are a long, but finite time.
Stuck ==
  /\ sem = 0
  /\ TaskMayRun
  /\ ~("EN" \in timer /\ (dma # "off" \/ "IM" \in timer))
  /\ "IM" \notin gpio

Goto(t, label) == pc' = [pc EXCEPT ![t] = label]

Return(t, result) ==
  /\ Goto(t, "idle")
  /\ ret' = [ret EXCEPT ![t] = result]
  /\ call' = [call EXCEPT ![t] = Idle]

\* A function is entered; its result is SHT1X_ERROR_BUSY until it knows better.
Call(t, op, arg) ==
  /\ TaskMayRun
  /\ pc[t] = "idle"
  /\ op = "status_write" \/ arg = {}
  /\ call' = [call EXCEPT ![t] = [op |-> op, arg |-> arg]]
  /\ ret' = [ret EXCEPT ![t] = "BUSY"]
  /\ Goto(t, "lock")
  /\ UNCHANGED <<taken, rtosVars, deviceVars, settingVars, bufferVars, sourceVars,
                 isr, pinVars, sensor, fact>>

\* xSemaphoreTake(device.lock, portMAX_DELAY) == pdTRUE
TakeLock(t) ==
  /\ TaskMayRun
  /\ pc[t] = "lock"
  /\ lock = NoTask
  /\ lock' = t
  /\ Goto(t, "start")
  /\ UNCHANGED <<call, ret, taken, sem, deviceVars, settingVars, bufferVars,
                 sourceVars, isr, pinVars, sensor, fact>>

\* A caller that does not look at what xSemaphoreTake() returned.
LockTimeoutIgnored(t) ==
  /\ Stuck
  /\ pc[t] = "lock"
  /\ lock # NoTask
  /\ Goto(t, "start")
  /\ UNCHANGED <<call, ret, taken, rtosVars, deviceVars, settingVars, bufferVars,
                 sourceVars, isr, pinVars, sensor, fact>>

\* The mutex does not become free in portMAX_DELAY ticks.
LockTimeout(t) ==
  /\ Stuck
  /\ pc[t] = "lock"
  /\ lock # NoTask
  /\ Return(t, "BUSY")
  /\ UNCHANGED <<taken, rtosVars, deviceVars, settingVars, bufferVars, sourceVars,
                 isr, pinVars, sensor, fact>>

\* sht1x_command_prepare(), sht1x_device_state_prepare(), sht1x_udma_set_buffer()
Prepare(t, seq) ==
  /\ TaskMayRun
  /\ pc[t] = "start"
  /\ Goto(t, "wait")
  /\ cmd' = call[t].op
  /\ data' = [i \in 1..16 |-> 0]
  /\ crc' = [i \in 1..8 |-> 0]
  /\ state' = Row(seq, "FIN", 0)
  /\ error' = "OK"
  /\ dma' = "cmd"
  /\ load' = "NR"
  /\ fact' = fact \cap {"deaf"}
  /\ UNCHANGED <<call, ret, taken, rtosVars, settingVars, gpio, pend, isr, pinVars,
                 sensor>>

SensorReadStart(t) ==
  /\ call[t].op \in Measurements
  /\ Prepare(t, "SENSOR")
  /\ timer' = (timer \ {"RIS"}) \cup {"IM", "EN"}
  /\ UNCHANGED payload

\* A write that sends the payload buffer as the write before left it.
StatusWriteStalePayload(t) ==
  /\ call[t].op = "status_write"
  /\ Prepare(t, "SREGW")
  /\ timer' = (timer \ {"RIS"}) \cup {"EN"}
  /\ UNCHANGED payload

\* The three register commands leave the interrupt masked: FIN unmasks it.
StatusWriteStart(t) ==
  /\ call[t].op = "status_write"
  /\ Prepare(t, "SREGW")
  /\ payload' = call[t].arg \cap SREG_bm
  /\ timer' = (timer \ {"RIS"}) \cup {"EN"}

StatusReadStart(t) ==
  /\ call[t].op = "status_read"
  /\ Prepare(t, "SREGR")
  /\ timer' = (timer \ {"RIS"}) \cup {"EN"}
  /\ UNCHANGED payload

SoftwareResetStart(t) ==
  /\ call[t].op = "software_reset"
  /\ Prepare(t, "SOFT_RESET")
  /\ timer' = (timer \ {"RIS"}) \cup {"EN"}
  /\ UNCHANGED payload

\* A driver that gives the mutex back as soon as the transmission is over.
TakeSemAndUnlock(t) ==
  /\ TaskMayRun
  /\ pc[t] = "wait"
  /\ sem = 1
  /\ sem' = 0
  /\ lock' = NoTask
  /\ Goto(t, "finish")
  /\ UNCHANGED <<call, ret, taken, deviceVars, settingVars, bufferVars, sourceVars,
                 isr, pinVars, sensor, fact>>

\* xSemaphoreTake(device.interrupt_semaphore, portMAX_DELAY) == pdTRUE
TakeSem(t) ==
  /\ TaskMayRun
  /\ pc[t] = "wait"
  /\ sem = 1
  /\ sem' = 0
  /\ Goto(t, "finish")
  /\ UNCHANGED <<call, ret, taken, lock, deviceVars, settingVars, bufferVars,
                 sourceVars, isr, pinVars, sensor, fact>>

\* A caller that waits again when portMAX_DELAY ticks are over.
TimeoutWaitsAgain(t) ==
  /\ Stuck
  /\ pc[t] = "wait"
  /\ UNCHANGED vars

\* No token in portMAX_DELAY ticks: the call gives up with the initial result.
InterruptTimeout(t) ==
  /\ Stuck
  /\ pc[t] = "wait"
  /\ Return(t, "BUSY")
  /\ lock' = NoTask
  /\ UNCHANGED <<taken, sem, deviceVars, settingVars, bufferVars, sourceVars, isr,
                 pinVars, sensor, fact>>

\* sht1x_crc() over the command, the answer and its checksum is 0: every bit is
\* the one the sensor sent and the seed is the sensor's.
CrcAccepts(dataBits, crcBits) ==
  /\ data = dataBits
  /\ crc = crcBits
  /\ crcInit = sensor.status

ReadingArrived ==
  CrcAccepts([i \in 1..16 |-> i], [i \in 1..8 |-> 16 + i])

RegisterArrived ==
  CrcAccepts([i \in 1..16 |-> IF i > 8 THEN i - 8 ELSE 0], [i \in 1..8 |-> 8 + i])

\* The end of every function: xSemaphoreGive(device.lock).
Finish(t) ==
  /\ TaskMayRun
  /\ pc[t] = "finish"
  /\ lock' = NoTask
  /\ UNCHANGED <<sem, deviceVars, bufferVars, sourceVars, isr, pinVars, sensor, fact>>

SensorReadFinish(t) ==
  LET result == IF error = "OK" /\ ~ReadingArrived THEN "INVALID_CRC" ELSE error
  IN /\ call[t].op \in Measurements
     /\ Finish(t)
     /\ \/ /\ result = "OK"
           /\ Goto(t, "convert")
           /\ ret' = [ret EXCEPT ![t] = result]
           /\ UNCHANGED call
        \/ /\ result # "OK"
           /\ Return(t, result)
     /\ taken' = [taken EXCEPT ![t] = IF result = "OK" THEN sensor.status ELSE {}]
     /\ UNCHANGED settingVars

\* A write that updates the checksum's seed only.
StatusWriteSeedOnly(t) ==
  /\ call[t].op = "status_write"
  /\ Finish(t)
  /\ Return(t, error)
  /\ crcInit' = call[t].arg
  /\ UNCHANGED <<status, taken>>

\* Whatever device.error says, the driver takes the new value for written, with
\* the flags that were masked out of the payload.
StatusWriteFinish(t) ==
  /\ call[t].op = "status_write"
  /\ Finish(t)
  /\ Return(t, error)
  /\ status' = call[t].arg
  /\ crcInit' = call[t].arg
  /\ UNCHANGED taken

\* device.data & 0xff is the sensor's register when every bit arrived.
StatusReadFinish(t) ==
  LET result == IF error = "OK" /\ ~RegisterArrived THEN "INVALID_CRC" ELSE error
  IN /\ call[t].op = "status_read"
     /\ Finish(t)
     /\ Return(t, result)
     /\ status' = IF result = "OK" THEN sensor.status ELSE status
     /\ crcInit' = IF result = "OK" THEN sensor.status ELSE crcInit
     /\ UNCHANGED taken

\* A reset that leaves the checksum's seed as it was.
SoftwareResetKeepsSeed(t) ==
  /\ call[t].op = "software_reset"
  /\ Finish(t)
  /\ Return(t, error)
  /\ status' = {}
  /\ UNCHANGED <<crcInit, taken>>

SoftwareResetFinish(t) ==
  /\ call[t].op = "software_reset"
  /\ Finish(t)
  /\ Return(t, error)
  /\ status' = {}
  /\ crcInit' = {}
  /\ UNCHANGED taken

\* sht1x_temperature_read() and sht1x_moisture_read() after sht1x_sensor_read()
\* returned: the coefficients are picked by device.status as it is now.
Convert(t) ==
  /\ TaskMayRun
  /\ pc[t] = "convert"
  /\ Return(t, ret[t])
  /\ taken' = [taken EXCEPT ![t] = {}]
  /\ UNCHANGED <<rtosVars, deviceVars, settingVars, bufferVars, sourceVars,
                 isr, pinVars, sensor, fact>>

-----------------------------------------------------------------------------
(* The peripherals and the sensor *)

\* The data line may show a falling edge, latched in the port's raw status
\* whether or not the pin's interrupt is unmasked.
DataMayFall(mask) ==
  \/ gpio' = mask \cup (gpio \cap {"RIS"}) /\ UNCHANGED pend
  \/ /\ gpio' = mask \cup {"RIS"}
     /\ pend' = IF "IM" \in mask THEN pend \cup {"gpio"} ELSE pend

GpioMask == gpio \cap {"IM"}

\* The timer reaches 0.  While the uDMA channel is enabled the request goes to
\* it instead, and the transfer ends in DmaDone or DmaError.
TimerTick ==
  /\ "EN" \in timer
  /\ dma = "off"
  /\ "RIS" \notin timer
  /\ timer' = timer \cup {"RIS"}
  /\ pend' = IF "IM" \in timer THEN pend \cup {"timer"} ELSE pend
  /\ fact' = IF load = "LO" THEN fact \cup {"timeout"} ELSE fact
  /\ UNCHANGED <<taskVars, rtosVars, deviceVars, settingVars, bufferVars, load, gpio,
                 dma, isr, pinVars, sensor>>

\* The last bit of each pattern, the level the data pin is left at.
LastBit ==
  IF dma = "payload" THEN (IF "LOW_RES" \in payload THEN 1 ELSE 0)
  ELSE IF cmd \in {"status_write", "software_reset"} THEN 0 ELSE 1

\* The pattern has been shifted out and the clock is left high; the completion
\* interrupt arrives on the timer's vector whatever the timer's mask is.
DmaDone ==
  /\ dma # "off"
  /\ "EN" \in timer
  /\ dma' = "off"
  /\ timer' = timer \cup {"RIS"}
  /\ pend' = pend \cup {"timer"} \cup (IF "IM" \in gpio THEN {"gpio"} ELSE {})
  /\ gpio' = gpio \cup {"RIS"}
  /\ clk' = 1
  /\ dout' = LastBit
  /\ \E heard \in Hearing :
       \/ /\ dma = "cmd"
          /\ sensor' = SensorHears(sensor, cmd, heard)
          /\ fact' = (fact \cap {"deaf"}) \cup {IF heard THEN "heard" ELSE "deaf"}
       \/ /\ dma = "payload"
          /\ sensor' = SensorHearsPayload(sensor, heard)
          /\ fact' = fact \cup (IF sensor'.phase = "pheard" THEN {"payloadHeard"} ELSE {})
                          \cup (IF heard THEN {} ELSE {"deaf"})
  /\ UNCHANGED <<taskVars, rtosVars, deviceVars, settingVars, bufferVars, load, isr>>

\* A bus error disables the channel in the middle of the pattern, which the
\* sensor does not recognise.  dma_dev's error handler has no listener of this
\* driver's to tell.
DmaError ==
  /\ DmaMayFail
  /\ dma # "off"
  /\ "EN" \in timer
  /\ dma' = "off"
  /\ clk' \in 0..1
  /\ dout' \in 0..1
  /\ gpio' = gpio \cup {"RIS"}
  /\ sensor' = [sensor EXCEPT !.phase = "idle"]
  /\ fact' = fact \cup {"deaf"}
  /\ UNCHANGED <<taskVars, rtosVars, deviceVars, settingVars, bufferVars, timer, load,
                 pend, isr>>

\* The conversion ends: the sensor pulls the data line low.
SensorReady ==
  /\ sensor.phase = "measuring"
  /\ sensor' = [sensor EXCEPT !.phase = "send"]
  /\ gpio' = IF dout = 1 THEN gpio \cup {"RIS"} ELSE gpio
  /\ pend' = IF dout = 1 /\ "IM" \in gpio THEN pend \cup {"gpio"} ELSE pend
  /\ UNCHANGED <<taskVars, rtosVars, deviceVars, settingVars, bufferVars, timer, load,
                 dma, isr, pinVars, fact>>

-----------------------------------------------------------------------------
(* The interrupt handlers *)

\* timer0a_isr_handler() up to the call of sht1x_process()
TimerIsr ==
  /\ isr = "none"
  /\ "timer" \in pend
  /\ "gpio" \notin pend
  /\ pend' = pend \ {"timer"}
  /\ timer' = timer \ {"RIS"}
  /\ isr' = IF "RIS" \in timer THEN "timer" ELSE "none"
  /\ UNCHANGED <<taskVars, rtosVars, deviceVars, settingVars, bufferVars, load, gpio,
                 dma, pinVars, sensor, fact>>

\* gpioe_isr_handler() up to the call of sht1x_process()
GpioIsr ==
  /\ isr = "none"
  /\ "gpio" \in pend
  /\ pend' = pend \ {"gpio"}
  /\ gpio' = gpio \ {"RIS"}
  /\ isr' = IF "RIS" \in gpio THEN "gpio" ELSE "none"
  /\ UNCHANGED <<taskVars, rtosVars, deviceVars, settingVars, bufferVars, timer, load,
                 dma, pinVars, sensor, fact>>

\* sht1x_process(): the row's output is acted upon after the device moved to
\* the next row; an error ends the transmission after the output.
Process(outputs) ==
  /\ isr \in {"timer", "gpio"}
  /\ Output(state) \in outputs
  /\ \E input \in DataLevels(sensor, dout) :
       /\ state' = NextState(state, input)
       /\ error' = NextError(state, input)
  /\ UNCHANGED <<taskVars, lock, settingVars, bufferVars>>

Continue == isr' = IF error' = "OK" THEN "none" ELSE "fault"

\* GPIOPinWrite of the clock pin
ClockHigh == clk' = 1 /\ UNCHANGED sensor

ClockLow ==
  /\ clk' = 0
  /\ sensor' = IF clk = 1 THEN SensorFalls(sensor, dout, payload) ELSE sensor

ProcessTimerEnable ==
  /\ Process({"TIMER_ENABLE"})
  /\ Continue
  /\ timer' = timer \cup {"IM"}
  /\ pend' = IF "RIS" \in timer THEN pend \cup {"timer"} ELSE pend
  /\ UNCHANGED <<sem, data, crc, load, gpio, dma, pinVars, sensor, fact>>

\* A second transfer prepared without restarting the timer that paces it.
ProcessPayloadTimerOff ==
  /\ Process({"PAYLOAD"})
  /\ Continue
  /\ timer' = {}
  /\ load' = "NR"
  /\ dma' = "payload"
  /\ UNCHANGED <<sem, data, crc, gpio, pend, pinVars, sensor, fact>>

\* The timer is stopped and restarted with its interrupt masked.
ProcessPayload ==
  /\ Process({"PAYLOAD"})
  /\ Continue
  /\ timer' = {"EN"}
  /\ load' = "NR"
  /\ dma' = "payload"
  /\ UNCHANGED <<sem, data, crc, gpio, pend, pinVars, sensor, fact>>

ProcessCrcFallingEdge ==
  /\ Process({"CRC_FALLING_EDGE"})
  /\ Continue
  /\ crc' = ShiftIn(crc, 8, BitOnLine(sensor))
  /\ ClockLow
  /\ DataMayFall(GpioMask)
  /\ UNCHANGED <<sem, data, timer, load, dma, dout, fact>>

ProcessDataFallingEdge ==
  /\ Process({"DATA_FALLING_EDGE"})
  /\ Continue
  /\ data' = ShiftIn(data, 16, BitOnLine(sensor))
  /\ ClockLow
  /\ DataMayFall(GpioMask)
  /\ UNCHANGED <<sem, crc, timer, load, dma, dout, fact>>

ProcessRisingEdge ==
  /\ Process({"READ_RISING_EDGE", "INPUT_ACK_RISING_EDGE", "OUTPUT_ACK_RISING_EDGE"})
  /\ Continue
  /\ ClockHigh
  /\ UNCHANGED <<sem, data, crc, sourceVars, dout, fact>>

ProcessInputAckStart ==
  /\ Process({"INPUT_ACK_START"})
  /\ Continue
  /\ dout' = 0
  /\ DataMayFall(GpioMask)
  /\ UNCHANGED <<sem, data, crc, timer, load, dma, clk, sensor, fact>>

ProcessOutputAckFallingEdge ==
  /\ Process({"OUTPUT_ACK_FALLING_EDGE"})
  /\ Continue
  /\ ClockLow
  /\ DataMayFall(GpioMask)
  /\ UNCHANGED <<sem, data, crc, timer, load, dma, dout, fact>>

\* The data pin is released before the clock falls.
ReleaseDataFirst ==
  /\ Process({"INPUT_ACK_FALLING_EDGE", "OUTPUT_ACK_START"})
  /\ Continue
  /\ dout' = 1
  /\ clk' = 0
  /\ sensor' = IF clk = 1 THEN SensorFalls(sensor, 1, payload) ELSE sensor
  /\ DataMayFall(GpioMask)
  /\ UNCHANGED <<sem, data, crc, timer, load, dma, fact>>

\* The clock falls while the data pin still has its level, then data is
\* released.
ProcessReleaseData ==
  /\ Process({"INPUT_ACK_FALLING_EDGE", "OUTPUT_ACK_START"})
  /\ Continue
  /\ ClockLow
  /\ dout' = 1
  /\ DataMayFall(GpioMask)
  /\ UNCHANGED <<sem, data, crc, timer, load, dma, fact>>

\* GPIOIntEnable without the GPIOIntClear in front of it.
AckWaitKeepsEdge ==
  /\ Process({"OUTPUT_ACK_WAIT"})
  /\ Continue
  /\ timer' = {"EN", "IM"}
  /\ load' = "LO"
  /\ gpio' = gpio \cup {"IM"}
  /\ pend' = IF "RIS" \in gpio THEN pend \cup {"gpio"} ELSE pend
  /\ ClockLow
  /\ UNCHANGED <<sem, data, crc, dma, dout, fact>>

\* The slow timer and the data pin's interrupt both wait for the sensor; the
\* clock falls last, when latched edges have been cleared.
ProcessAckWait ==
  /\ Process({"OUTPUT_ACK_WAIT"})
  /\ Continue
  /\ timer' = {"EN", "IM"}
  /\ load' = "LO"
  /\ gpio' = {"IM"}
  /\ ClockLow
  /\ UNCHANGED <<sem, data, crc, dma, pend, dout, fact>>

\* Reached from either handler: nothing tells the sensor's edge from the slow
\* timer's tick.
ProcessWaitReady ==
  /\ Process({"WAIT_READY"})
  /\ Continue
  /\ gpio' = gpio \ {"IM"}
  /\ timer' = {"EN", "IM"}
  /\ load' = "NR"
  /\ ClockLow
  /\ dout' = 1
  /\ fact' = IF sensor.phase = "send" THEN fact ELSE fact \cup {"late"}
  /\ UNCHANGED <<sem, data, crc, dma, pend>>

\* A completion that leaves the timer running.
TransmissionDoneTimerOn ==
  /\ gpio' = gpio \ {"IM"}
  /\ clk' = 0
  /\ dout' = 1
  /\ sensor' = IF clk = 1 THEN SensorFalls(sensor, 1, payload) ELSE sensor
  /\ sem' = 1
  /\ isr' = "none"
  /\ UNCHANGED <<timer, load, dma, pend>>

\* sht1x_transmission_done(): the timer_stop() inside is shorter than a period
\* of the timer, no tick falls between its three writes.
TransmissionDone ==
  /\ gpio' = gpio \ {"IM"}
  /\ timer' = {}
  /\ clk' = 0
  /\ dout' = 1
  /\ sensor' = IF clk = 1 THEN SensorFalls(sensor, 1, payload) ELSE sensor
  /\ sem' = 1
  /\ isr' = "none"
  /\ UNCHANGED <<load, dma, pend>>

ProcessDone ==
  /\ Process({"DONE"})
  /\ TransmissionDone
  /\ UNCHANGED <<data, crc, fact>>

\* The last statement of sht1x_process(), device.error is not OK.
ProcessError ==
  /\ isr = "fault"
  /\ TransmissionDone
  /\ UNCHANGED <<taskVars, lock, deviceVars, settingVars, bufferVars, fact>>

-----------------------------------------------------------------------------
(* The specification *)

Start(t) ==
  SensorReadStart(t) \/ StatusWriteStart(t) \/ StatusReadStart(t)
    \/ SoftwareResetStart(t)

ReadResult(t) ==
  SensorReadFinish(t) \/ StatusWriteFinish(t) \/ StatusReadFinish(t)
    \/ SoftwareResetFinish(t)

TaskStep(t) ==
  TakeLock(t) \/ LockTimeout(t) \/ Start(t) \/ TakeSem(t) \/ InterruptTimeout(t)
    \/ ReadResult(t) \/ Convert(t)

Isr ==
  \/ TimerIsr
  \/ GpioIsr
  \/ ProcessTimerEnable
  \/ ProcessPayload
  \/ ProcessCrcFallingEdge
  \/ ProcessDataFallingEdge
  \/ ProcessRisingEdge
  \/ ProcessInputAckStart
  \/ ProcessOutputAckFallingEdge
  \/ ProcessReleaseData
  \/ ProcessAckWait
  \/ ProcessWaitReady
  \/ ProcessDone
  \/ ProcessError

Transfer == DmaDone \/ DmaError

Next ==
  \/ \E t \in Tasks : \E op \in Ops, arg \in StatusArgs \cup {{}} : Call(t, op, arg)
  \/ \E t \in Tasks : TaskStep(t)
  \/ Isr
  \/ TimerTick
  \/ Transfer
  \/ SensorReady

\* Tasks, handlers, the timer and the uDMA channel do not stop; the sensor may
\* measure forever.
Fairness ==
  /\ \A t \in Tasks : WF_vars(TaskStep(t))
  /\ WF_vars(Isr)
  /\ WF_vars(TimerTick)
  /\ WF_vars(Transfer)

Spec == Init /\ [][Next]_vars

FairSpec == Spec /\ Fairness

-----------------------------------------------------------------------------
(* Properties *)

\* Only the task that took device.lock prepares a command, waits for its end or
\* reads the device's results: the driver has one set of buffers and one
\* interrupt semaphore for all callers.
MutualExclusion ==
  \A t \in Tasks : pc[t] \in {"start", "wait", "finish"} => lock = t

\* FIN and PAYLOAD_FIN are entered by the uDMA's completion, all other rows by
\* an interrupt of the unmasked timer (or, for WAIT_READY, of the data pin too).
CompletionAwaited ==
  /\ state.step \in {"FIN", "PAYLOAD_FIN"}
  /\ \/ isr \in {"timer", "gpio"}
     \/ dma # "off"
     \/ "timer" \in pend /\ "RIS" \in timer

InterruptComing ==
  \/ sem = 1
  \/ isr = "fault"
  \/ "EN" \in timer /\ ("IM" \in timer \/ CompletionAwaited)

\* A task that waits for the end of its transmission is never forgotten: the
\* semaphore has its token or something is armed that leads to the next row.
\* The driver masks, stops and restarts its interrupt sources in six places, and
\* a place that leaves none armed hangs the caller with the mutex held.
TransactionArmed ==
  \A t \in Tasks : pc[t] = "wait" => InterruptComing

Silent ==
  timer = {} /\ "IM" \notin gpio /\ dma = "off" /\ clk = 0 /\ dout = 1

\* The token of a transmission comes after its last interrupt: with the token
\* given nothing is armed, and once it is taken nothing is pending or left over
\* for the next caller, the wires being at rest.
QuietBetweenTransactions ==
  /\ sem = 1 => Silent /\ isr = "none"
  /\ (\A t \in Tasks : pc[t] # "wait") => Silent /\ isr = "none" /\ pend = {} /\ sem = 0

BitSteps == {"DATA", "DATAC", "CRC", "CRCC"}

ByteAckSteps == {"BYTE_ACKS", "BYTE_ACK", "BYTE_ACKC", "CRC_ACKS", "CRC_ACK", "CRC_ACKC"}

AnswerBits(s) == IF s.seq = "SENSOR" THEN 16 ELSE 8

\* How many bits of the answer precede row s.
Sampled(s) ==
  CASE s.step \in {"DATA", "DATAC"} -> AnswerBits(s) - 1 - s.bit
    [] s.step \in {"CRC", "CRCC"}   -> AnswerBits(s) + 7 - s.bit
    [] s.step \in {"BYTE_ACKS", "BYTE_ACK", "BYTE_ACKC"} -> AnswerBits(s) - s.bit
    [] OTHER                        -> AnswerBits(s) + 8

\* The newest bit of a register of this width is number `last` of the stream, the
\* older ones those before it, down to number `first`.
Holds(reg, width, first, last) ==
  \A i \in 1..width :
    reg[i] = IF last - (width - i) >= first THEN last - (width - i) ELSE 0

\* The driver's row and the sensor stay in step while an answer is read: each bit
\* of it goes to its place in the registers once, although extra interrupts (a
\* stale edge, a tick next to an edge) may advance the table early.  It is the
\* clock's level that ties the two sides together, so the rows must agree with
\* it, and the data line with the byte acknowledges.
LockStep ==
  (state.step \in BitSteps \cup ByteAckSteps /\ "late" \notin fact) =>
    /\ sensor.sent = Sampled(state)
    /\ sensor.phase = IF state.step \in BitSteps THEN "send" ELSE "byteack"
    /\ (clk = 1) = (state.step \in {"DATAC", "CRCC", "BYTE_ACKC", "CRC_ACKC"})
    /\ LET n == Sampled(state)
           bits == AnswerBits(state)
       IN /\ Holds(data, 16, 1, IF n < bits THEN n ELSE bits)
          /\ Holds(crc, 8, bits + 1, n)
    /\ load = "NR"

\* device.error tells what happened on the wires: an error code names exactly the
\* acknowledge that did not come, at whatever row the transmission ended.
ErrorIsHonest ==
  \A t \in Tasks : pc[t] = "finish" =>
    /\ error \in {"OK", "NO_CMD_ACK", "NO_PAYLOAD_ACK"}
    /\ (error = "NO_CMD_ACK") = ("heard" \notin fact)
    /\ (error = "NO_PAYLOAD_ACK") =
         (call[t].op = "status_write" /\ "heard" \in fact /\ "payloadHeard" \notin fact)

Returns(t) == pc[t] = "finish" /\ pc'[t] # "finish"

\* What a call that returns SHT1X_ERROR_OK promises: the sensor's register holds
\* what was written, the driver's copy of it and the checksum's seed are the
\* sensor's.  A write and a reset take their success from two samples of the data
\* line, long after the bits went out and whatever calls failed before.
OkIsTrue ==
  [][\A t \in Tasks : Returns(t) /\ ret'[t] = "OK" =>
       /\ "heard" \in fact
       /\ call[t].op = "status_write" => sensor.status = call[t].arg \cap SREG_bm
       /\ call[t].op = "software_reset" => sensor.status = {}
       /\ call[t].arg \subseteq SREG_bm =>
            status' = sensor.status /\ crcInit' = sensor.status]_vars

\* The driver stops waiting for a measurement because the sensor is ready or the
\* slow timer ran out, never because of an edge or a tick from before the wait.
WaitEndsForAReason ==
  [][ProcessWaitReady => sensor.phase = "send" \/ "timeout" \in fact]_vars

\* As long as the sensor has heard every pattern, and with writable flags only, a
\* free driver agrees with the sensor about its register and the seed made of it,
\* whatever calls of whatever tasks went before.
SettingsInSync ==
  (lock = NoTask /\ "deaf" \notin fact) =>
    status = sensor.status /\ crcInit = sensor.status

\* Such a sensor is never blamed: every call returns OK, except for a measurement
\* that did not end within the wait.
NoSpuriousFailure ==
  [][\A t \in Tasks :
       Returns(t) /\ fact \cap {"late", "deaf"} = {} => ret'[t] = "OK"]_vars

\* sht1x.h on SHT1X_SREG_LOW_RES_bm: 0 for a 14 bit temperature and a 12 bit
\* humidity, 1 for 12 and 8.  A reading is converted with the coefficients of the
\* resolution it was taken with.
ConversionMatchesResolution ==
  [][\A t \in Tasks : Convert(t) =>
       ("LOW_RES" \in status) = ("LOW_RES" \in taken[t])]_vars

\* sht1x.c on SHT1X_CLK_LO: the slow speed is used to create a timeout operation,
\* for which sht1x.h has an error code.  A measurement given up at the timeout is
\* reported with it.
TimeoutReported ==
  [][\A t \in Tasks : Returns(t) /\ "late" \in fact /\ ret'[t] # "OK" =>
       ret'[t] = "MEASUREMENT_TIMEOUT"]_vars

\* The driver implements its interface: whatever the handlers, the wires and the
\* other tasks do, the register changes only for the call that has the mutex and
\* only to what that call writes, a call ends once with a result its function may
\* have, and OK only when the register is what was written, or the seed the register's.
Api == INSTANCE Sht1xApi WITH turn <- lock, register <- sensor.status, seed <- crcInit

Implements == Api!Spec

\* A call that has the driver to itself returns (or gets to its conversion), even
\* when the sensor never answers and when the uDMA fails.
CallCompletes ==
  \A t \in Tasks : pc[t] \in {"start", "wait", "finish"} ~> pc[t] \in {"idle", "convert"}
=============================================================================
