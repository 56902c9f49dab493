# blumenplace-uc in TLA+

Models, model-checking runs and machine-checked proofs for the flower watering
firmware in `src/` (FreeRTOS on a TM4C123): a task-level API over interrupt
driven drivers. The largest piece of logic of its own is the driver of the
SHT1x temperature and moisture sensor; beside it stand the radio's driver over
the SSI device, the heap, and the one kernel service all of them hang on, the
semaphore that an interrupt gives.

## The system

| part | state | operations | interacts with |
|---|---|---|---|
| SHT1x driver, `sht1x.c/.h` | mutex, interrupt semaphore, row of the transition table, error, shift registers, copy of the sensor's register and checksum seed, pattern buffers | five API functions; `timer0a_isr_handler`, `gpioe_isr_handler`, `sht1x_process` | timer 0A, its uDMA channel, port E, the sensor |
| SSI device, `ssi_dev.h/.cc` | device mutex, interrupt semaphore, FIFOs | `transceive`, `send`, `flush`, `handle_isr` | uDMA device, radio |
| uDMA device, `dma_dev.h/.cc` | channel table, status register, error listeners | channel set-up, listeners, error interrupt | both drivers above share its status register |
| radio, `ccx.h/.cc`, `cc120x.h` | none of its own | `reset`, register access, bursts | SSI device, port pins |
| main task and boot, `main.cc`, `main_task.cc`, `sys.c` | the objects above | constructs them, resets the radio once a second | all |
| GPIO, `gpio_pin.h`, `gpio_port.h`; `gpio_intctrl.*`, `rf.*` | registers | single accesses; the last two are not used | |
| heap, `alloc.c` over heap_2 | memory, free list, free bytes | `malloc`, `realloc`, `free` | FreeRTOS |
| kernel configuration and vector table | constants | | |
| FreeRTOS, TivaWare | third-party | semaphores, scheduler; register access | |

What is hard in it:

- *SHT1x driver.* Tasks hand a transmission to interrupt handlers and get it
  back through one semaphore. Two handlers walk one table; both act on raw
  status bits, so a tick next to an edge walks it twice. Interrupt sources are
  masked, stopped and restarted in the middle of the walk, and the uDMA takes
  the timer's interrupt over while a pattern goes out. The driver keeps a copy of
  the sensor's register (resolution, checksum seed) that must agree with it
  after calls that failed. It is correct when one transaction at a time reaches the
  sensor and ends with exactly one token, answer bits are recorded once
  and in order, the result names what happened, and every call returns.
- *SSI and uDMA devices.* Completion is read from a register that the SHT1x
  handler clears as a whole; errors give the same semaphore as completions; the
  receive FIFO may hold bytes of an earlier transfer. Correct: `transceive`
  returns true only for a complete transfer, `send` returns its own answer.
- *Radio and boot.* Busy waits without a limit and with one; a transfer whose
  result nobody looks at, from a source the uDMA cannot read; a constructor that resets a port after its pins were
  configured. Correct: `reset` is true only for a radio that was reset and is
  ready, reads return the radio's byte, a burst reported as written is, one that
  fails disturbs nothing after it, and
  the waits without a limit are never entered with a radio that is not there.
- *Kernel.* A take looks at the queue, and later puts the task on the event
  list; a give may come between. Correct: no token lies beside a task that waits.
  That rests on critical sections that mask, which the configuration decides.
- *Heap.* `realloc` guesses where the allocator keeps a block's size.

`PROJECT.json` lists the hazards at their lines with the properties that guard
them.

## Modules

| module | models |
|---|---|
| `Sht1xTable` | `enum sht1x_sidx_t` and `states[]`: the rows, their output, successor and error |
| `Sht1xSensor` | the sensor, as the driver uses it (not in the repository) |
| `Sht1x` | the driver, its handlers and peripherals; extends the two above; specification and properties |
| `Sht1xApi` | what `sht1x.h` promises its callers; `Sht1x` implements it |
| `MCSht1x` | constants of the runs of `Sht1x` |
| `Sht1xProof` | theorems about `Sht1x`: types, exclusion, armed interrupts, that nothing is left behind for the next transaction, and that it implements `Sht1xApi` |
| `Sht1xOutcomeProof` | on top of it: that errors, successes and ends of waits mean what they say, that answers are read in step, and what follows for the settings |
| `Sht1xSignal` | the driver's bit patterns, command buffers and uDMA transfers, byte by byte, against a receiver of clock and data edges |
| `Sht1xSignalProof` | theorems about `Sht1xSignal` |
| `Sht1xCrc` | `crc8_lut`, `sht1x_crc`, `sht1x_reverse_bits` and how answers are assembled, against the polynomial |
| `Sht1xCrcProof` | theorems about `Sht1xCrc` |
| `Ssi` | `ssi_dev_t`: `transceive`, `send`, `handle_isr`, FIFOs, two uDMA channels, and the SHT1x handler's access to their status |
| `SsiProof` | theorems about `Ssi` |
| `Ccx` | `ccx_t` and `main_task`: boot, `reset`, `part_number`, `version`, `configure`, over an instance of `Ssi` and a radio |
| `CcxProof` | theorems about `Ccx` |
| `BinarySemaphore` | what the drivers expect of the semaphore their handlers give |
| `Semaphore` | how FreeRTOS does it: `queue.c`, `tasks.c`, `port.c`; implements `BinarySemaphore` |
| `SemaphoreProof` | theorems about `Semaphore` |
| `Allocator` | what callers expect of `malloc`, `realloc` and `free`: blocks that are large enough, apart, and keep their contents |
| `Heap` | `malloc`, `realloc`, `free` of `alloc.c` over heap_2; implements `Allocator` |
| `HeapProof` | theorems about `Heap` |

### How `Sht1x` corresponds to the code

*Tasks.* A call runs through `pc`: `lock` (waiting for `device.lock`), `start`
(prepares buffers, state, uDMA and timer), `wait` (for
`device.interrupt_semaphore`), `finish` (reads the result, updates the settings,
gives the mutex) and, after a successful measurement, `convert` (the coefficients,
picked after the mutex was given back). Each step is the code between two
points where the task can be suspended with an effect others see. What a task does
between two such points touches only what it owns under the mutex, or is done
before the interrupt sources are armed.

*Handlers.* `TimerIsr` and `GpioIsr` are the handlers up to the call of
`sht1x_process`; that function is one `Process...` action per case of its `switch`,
each with the assignments in front of the switch, and `ProcessError` for the
call of `sht1x_transmission_done` after it. Peripherals and sensor may act between
the steps.

*Interrupts.* All interrupts keep the reset value of their priority, so a handler runs
to its end, the lower number (port E) goes first, and no task runs while one
is pending. A pending interrupt stays pending when its source is cleared; the
handler then finds no raw status. A uDMA completion arrives on the timer's
vector whatever the timer's mask is, and the timer requests the uDMA instead of
interrupting while the channel is enabled (the comment at `sht1x.c:797`
relies on this). The port latches each falling edge of the data line whether its
interrupt is masked or not; where a write may or may not show one, both
outcomes are taken.

*The sensor.* It advances on falling clock edges, hears a pattern or not
(constant `Hearing`), and may measure for any time.

### Abstractions

- A register is the set of its flags. The sensor's `LOW_VOLTAGE` flag does not
  change by itself (it stays 0); `status_write` may be called with it, and the mask in
  the payload is modelled.
- A bit of an answer is its position in the stream, so `device.data` and
  `device.crc` are sequences of positions of their real width, and a shift
  drops the oldest. `crcInit` stands for `reverse_bits` of the flags.
- A checksum is accepted when every bit is the one sent, at its place, and the
  seed is the sensor's register. That a wrong answer has the right checksum by
  accident is left out here; that a checksum is accepted for nothing else, up to three
  damaged bits, is what `Sht1xCrc` checks.
- A command's transfer is one step in which the sensor hears it or not.
  `Sht1xSignal` takes it apart: each byte is written to both pins, and the
  receiver samples data at rising clocks, finds start sequences and counts reset
  pulses. It also shows that the levels left on the pins are the ones `Sht1x` uses.
- `timer_stop` is one step: its three register writes are shorter than the
  200 cycles of a period, so no tick falls between them when the timer was restarted a row ago.
- `INCLUDE_vTaskSuspend` is 0, so `portMAX_DELAY` is 2^32 - 1 ticks at 200 Hz
  (about 248 days) and not forever: `Stuck` lets the wait end only when
  nothing is left that could give the semaphore.
- The vector table in the repository names `default_isr_handler` for all device
  interrupts. The model is of the driver with its handlers installed.

### `Sht1xSignal`, `Sht1xCrc`

`Sht1xSignal` keeps the real patterns as sets of pins and the real sizes of the
transfers, which the functions pass apart from the patterns; values to write are any
bytes. Every command may
follow every other, over the buffer's old contents and over pins that a failed transfer
left at any level. The acknowledge pulse is one step: its edges are `Sht1x`'s.
`Sht1xCrc` computes on the numbers themselves with the table's 256 entries, the exclusive
or by its eight bits and the loops of the code as recursive functions, so that it can be proved about;
`Readings` and `Registers` are boundary values and mixed ones.

### `Sht1xApi`

A call waits for its turn, may change the sensor's register, and ends. The
mapping takes `device.lock` for the turn, the sensor's flags for the register,
`device.crc_init` for the seed. All of table, handlers, uDMA and wires are
stutters of it. What the code does and the header does not say is stated
there in a few lines: a write that failed is believed by the driver, flags that
cannot be written are, too, and a measurement's turn is over before its
conversion. It has no liveness of its own: `CallCompletes` is stated of `Sht1x`.

### How `Ssi` corresponds to the code

A byte is its number in the transfer, so a value at the wrong place
shows; on its own the module has each byte answered by itself. `Start` is
`transceive` from `disable()` to the enabling of the channels,
with the interrupt not enabled before the last two of its lines; `ReturnTrue` and `ReturnFalse` are what
follows the wait. `Fill`, `Shift` and `Drain` are the transmit channel, the wires and
the receive channel. The interrupt may become pending while it is disabled in
the NVIC, and stays so. `SsiBody` reads and clears status and flags in one step:
the handler's four lines are short against a byte (6400 cycles), which is
what separates the ends of the two channels. For the same reason a channel that is
enabled takes a byte out of the receive FIFO before the next arrives. A receive timeout takes
32 bit times, longer than the handlers. The receive FIFO keeps its bytes when the
module is disabled. `SendWrite` and `SendRead` are for a client, which `Ccx` is:
`send` is not under `dev_lock` and would mix its bytes with another task's
transfer, and the repository has one task that uses both. `failed`, the channels that have ended in a bus error
(`ChannelFails`), and `missed` are histories for the properties. A transmit channel that fails
leaves the receive channel waiting, and nothing behind it; a receive channel that fails
leaves bytes in the FIFO, and an overrun or receive timeout whose token `transceive` takes for the end.

### How `Ccx` corresponds to the code

An operation is a sequence of instructions, in the order of the calls in the
source: select, release, a poll of `gdo1` with `reset`'s limit (`poll`) or
without (`await`), `send`, `send` whose answer is kept, `transceive`,
`wait_ready` of the SSI device. `boot` is the set-up of `main_task`. Each
instruction is one or more actions, and those that concern the SSI device are conjoined to
the actions of the instance `ssi`, whose handlers, channels and FIFOs go on in
between. `MaxPolls` stands for `0xffff`: only that the limit is reached matters.

The radio is what the driver expects of a CC1201: the first byte after a select
says what follows, the answer to the third byte of an extended read is the
register's, a burst writes registers in a row, `SRES` stops the oscillator, and
`gdo1` is low when it runs. It may never run. A radio that is not ready may or may not hear
the strobe; it hears nothing else. An answer is `CHIP_CC1201` or any other byte
(`StatusByte`); the values of the configuration are their indices.

*The configuration's source.* `configure` copies the table to `obuf`, and then hands
`burst_write` the table itself (`ccx.cc:192`, `ccx.cc:196`). The table is `static const`, and the
linker script puts `.rodata` into the flash (`tm4c123ge6pm.lds:73`). A TM4C123's uDMA
is not connected to the flash: TivaWare's headers have the registers for
such accesses (`FLASH_DMASZ`, `FLASH_DMAST`) for the TM4C129 class only, not in `tm4c123ge6pm.h`. So the
read ends in a bus error, which disables the transmit channel; `transceive` waits until
`portMAX_DELAY` and is false; `burst_write` returns 0, which `configure` ignores. The source is the
second part of the instruction `<<"transceive", "flash">>`, and the constant `FlashReads` says how a read there may end:
`{"error"}` is this controller, and the theorem `NothingFromFlash` says that `configure` then
writes no register of the radio, though `ccx.h:95` says "write configuration into IC". The run
takes `{"byte", "error"}`, which has this case, a channel that fails at any later
byte, and a source that can be read, as `obuf` could. No receive channel fails in `Ccx`: its
addresses, the module's data register and `out` on the stack of `burst_write`, are ones
the uDMA reaches. What such a failure would leave to the next operation is in `Ssi` only, where both
channels fail; the leftover byte that `send` would take for its answer is therefore in no run.

`main_task` calls `reset` and `part_number` only. `version` and `configure` have
no caller at this commit; they are called where `part_number` is.

### How `Semaphore` corresponds to the code

The queue has one item of no size, so `uxMessagesWaiting` is the token. A task's
way through `xQueueGenericReceive` is cut at every point where an interrupt or
another task can come between with an effect: each critical section of the
source is one step, except that of `prvUnlockQueue`, which has a loop and is
cut into its lines, so that it can be looked at without masking, too.
`Masks` tells whether a critical section keeps the handlers out; with it the
steps between `loop` and `store` are not interrupted. Without it they are, and the other
critical sections still are single steps: what a handler could do between their
lines is not in the model. Tasks other than the ones that
take are not there; which ready task runs is any, and so is the first of the
event list, which covers every assignment of priorities.

A wait's time may be over at any time after it began. Ticks while the scheduler
is suspended are counted by the kernel and processed when it is resumed: they come
after `ResumeAll` here. The configuration the code has is
`Masks = FALSE`: the value 2 has none of the three bits that BASEPRI has. The
drivers' models take their semaphores as `BinarySemaphore` has them.

### How `Heap` corresponds to the code

Memory is counted in units of eight bytes, the alignment and the size of
heap_2's header. A unit holds what its second word says: block sizes are in the
same memory as the application's data, which `Write` fills, so that
`realloc`, which looks for the size in the wrong place, reads what really is there.
`Requests` stay below 2^32 bytes with the header added (`LargestRequest`): above, the
sum in `pvPortMalloc` wraps, and a request of almost the whole address space would be taken for a small one;
nothing in the repository asks for more than a kernel object.

`Allocator` knows the blocks by the units an application may use. `realloc` gives a block and takes one
back, and says nothing of what the new block holds: that it holds the old one's data is the property
`heap_realloc` refutes. The mapping takes for a block the units its header says it has, without
the header.

## Runs

| run | instance | shows |
|---|---|---|
| `transactions` | 2 tasks, all functions, sensor may miss anything | `TypeOK`, `TransactionArmed`, `QuietBetweenTransactions`, `LockStep`, `ErrorIsHonest`, `OkIsTrue`, `WaitEndsForAReason`, `SettingsInSync`, `NoSpuriousFailure`, `Implements` |
| `faults` | 2 tasks, a measurement and the register write with a masked flag, uDMA may fail, fairness | `MutualExclusion`, `ErrorIsHonest`, `CallCompletes` |
| `conversion_race` | 2 tasks, temperature and status write | violation of `ConversionMatchesResolution` |
| `timeout` | 1 task, temperature and status read | violation of `TimeoutReported` |
| `signal` | all commands in any order, all values of the writable bits | `CommandHeard`, `InterfaceReset`, `PayloadHeard`, `LastLevels`, `Setup`, `TypeOK` |
| `crc` | 3 readings, 4 register values, up to 3 damaged bits, stale seeds | `TableIsPolynomial`, `AcceptedIffIntact`, `DataArrives` |
| `heap` | 10 units, requests of 0, 1 and 3, contents 1 and 5 | `BlocksTile`, `ListOrdered`, `OthersKeepData`, `Implements`, `TypeOK` |
| `heap_realloc` | as `heap` | violation of `ReallocKeepsData` |
| `ssi_fault` | 2 tasks, 1 and 3 bytes, FIFOs of 1, channels may fail, SHT1x handler, fairness | `TrueIsComplete`, `FalseIsIncomplete`, `TransceiveReturns`, `TypeOK` |
| `radio` | a configuration of 5 bytes whose read may fail at any of them, FIFOs of 2, 3 polls, SHT1x handler, fairness | `ResetTrueIsReady`, `PartNumberIsRead`, `BurstIsWritten`, `BytesReachTheRadio`, `CallReturns`, `TypeOK` |
| `semaphore` | 3 tasks, critical sections mask, fairness | `NoLostWakeUp`, `Implements`, `TypeOK` |
| `semaphore_config` | 2 tasks, critical sections mask nothing | violation of `NoLostWakeUp` |

The properties:

- `TransactionArmed`: a waiting task has its token, or something is armed that
  leads to the next row. `QuietBetweenTransactions`: the token comes after
  the last interrupt; nothing is armed, pending or left on the wires for the
  next caller.
- `LockStep`: row, sensor, clock level and shift registers agree through the
  whole answer, even when a stale edge or a tick advanced the table.
- `ErrorIsHonest`: an error code names the acknowledge that did not come.
  `OkIsTrue`: what an OK promises holds of the sensor's register, and of the
  driver's copy and seed.
- `WaitEndsForAReason`: the wait for a measurement ends by the sensor or by the
  timeout, never by something from before the wait.
- `SettingsInSync`, `NoSpuriousFailure`: as long as the sensor has heard
  every command and flags are writable, driver and sensor agree whenever the driver is free,
  and nothing
  fails except a measurement that did not end in time. Neither holds without
  these conditions: `sht1x_status_write` takes the unmasked value
  for written, and also when the acknowledge did not come, and then
  answers are refused for their checksum. The code says nowhere that they do not.
- `CallCompletes`: a call that has the driver returns.
- `CommandHeard`, `PayloadHeard`, `InterfaceReset`: what the patterns, sizes and
  buffers put on the wires is what was meant. `Setup`: data keeps still around
  the clock's edges. `LastLevels` ties `Sht1xSignal` to `Sht1x`.
- `AcceptedIffIntact`: no damage to up to three bits and no stale seed passes, and
  nothing else is refused.
- `BlocksTile`, `ListOrdered`: the heap's blocks cover it once, the list is
  sorted and counted right. `OthersKeepData`: whatever size `realloc` reads, it
  writes no other block. `Implements` (of `Heap`): the application sees an `Allocator`.
- `Implements` (of `Sht1x`): each behaviour is one of `Sht1xApi`.
- `TrueIsComplete`, `FalseIsIncomplete`,
  `TransceiveReturns`: `transceive` is true only for a complete transfer unless a receive
  channel has failed, gives up only incomplete ones or ones whose completion the SHT1x
  handler has cleared, and returns. After a receive channel's failure it may return true
  for an incomplete transfer (`TODO` in the code), and with the SHT1x handler a complete one may
  wait until `portMAX_DELAY`; nothing in the repository promises otherwise.
- `ResetTrueIsReady`, `PartNumberIsRead`, `BytesReachTheRadio`: results are what the radio
  said, and what is sent reaches it, also when `configure` releases the chip without a wait and
  after a transfer whose source could not be read: the receive channel ends after the last byte is on the wires, and a transmit
  channel that fails leaves none. `BurstIsWritten`: `burst_write` returns 1 only for the whole
  table, and a broken-off burst leaves no register with another's value; that a
  `configure` whose burst failed leaves the radio without its configuration is what the code does.
  `CallReturns`: also for a radio that is never ready and a burst that fails.
- `NoLostWakeUp`: a token and a waiting task never coexist unless a task is about to look.
  `Implements` (of `Semaphore`): with the liveness of `BinarySemaphore`, a wait ends by a
  token or by its time.

The four violations are findings: `realloc` reads the block's size 16 bytes in
front of the data, where heap_2 has it at 8, and may copy too little; a reading can be converted with the resolution
another task set after it was taken; a measurement that outlasts the slow
timer's second is never reported as `SHT1X_ERROR_MEASUREMENT_TIMEOUT`; and the
priority written to BASEPRI masks nothing, so that a give in the last
lines of `prvUnlockQueue` wakes nobody.

*Bounds.* Two tasks are enough for every order of two calls: a third waits for the same
mutex and touches nothing before it has it, and the exclusion is proved for
any number. The number of calls is not bounded, nor is anything else: all
counters of the model are bounded by the answer's length. Arguments differ in the
one flag conversions depend on; in `faults` it is a flag outside the mask. That run
is without symmetry for its liveness, and has the two commands between which every branch of the handlers
lies: one starts with the timer's interrupt unmasked and waits for the sensor, the other
has two transfers.

`heap` has room for three blocks of the smallest sizes and one larger, so that
splits, reuse of a larger block and blocks in front of a `realloc` all
occur. In `ssi_fault` a transfer fits the FIFOs or is longer than both together, and a failed
channel leaves bytes for the next one; in `radio` 5
bytes over FIFOs of 2 have bytes in all of memory, uDMA and both FIFOs at once, also when the
source fails. In
`semaphore` a third task is needed: one to leave by its time, one to be woken, and one
that comes in between.

*Fairness.* `Sht1x`: weak fairness of each task's steps, the handlers, the timer and
the uDMA channel: the hardware runs, and FreeRTOS runs a ready task when no
higher one is ready. None for the sensor (it may measure forever), for
calls, or for a bus error. No claim is made that a task gets the mutex against another
that keeps calling. In `Ssi` and `Ccx` tasks have strong fairness: interrupts, which go
first, come again and again but leave time between them; a
handler that never ended would still starve them. Nothing is assumed of the radio. In
`Semaphore` every ready task is run again and again, and strongly: another task may suspend
the scheduler, but not for good. Gives and the ends of waits are not fair.

## Proofs

`Sht1xProof` proves, for any set of tasks and any constants that meet
the assumptions of `Sht1x`:

- `TypeCorrect`: `Spec => []TypeOK`. The interesting lemma is
  `NextStateTyped`: the table leads from rows to rows for both inputs.
- `Exclusion`: `Spec => []MutualExclusion`. The invariant is inductive by
  itself given types: only `TakeLock` enters the critical labels, when the mutex is
  free, and what gives it back leaves them.
- `Armed`: `Spec => []TransactionArmed`, when uDMA transfers do not fail. Inductive
  together with the two above: that of another task's step needs exclusion
  (no second task can restart the sources under a waiting one). The rows `FIN` and
  `PAYLOAD_FIN` are entered with the timer's interrupt masked and wait for the
  uDMA's completion; all other rows have the timer unmasked. With
  a failing uDMA it is false, and `CallCompletes` in `faults` rests on the
  end of the wait.

The layers on top of this invariant prove every
safety property of `Sht1x`. But for the two conditions named, nothing is assumed: sensors may miss
patterns, transfers may fail, waits may time out.

- `Sht1xProof`, `Quiet`: `Spec => []QuietBetweenTransactions`, when transfers
  do not fail. `QInv` says where an interrupt can come from: the port's is unmasked for
  the wait's row alone (`EdgeAwaited`, `EdgePending`), a handler never runs during a transfer
  (`TransferRuns`), and without a waiting task nothing is unmasked (`RestsUnused`). It is
  an invariant with failing transfers, too (`Invariance`): the next layers use it.
- `Sht1xProof`, `Refinement`: `Spec => Implements`. The mapping is plain, the work is in
  its invariant `AInv`: what the sensor does, it does for the waiting task's
  command (`SensorFollows`), so that its register can only become what that call
  writes; and `device.error` is `OK` at the table's end only if it did (`Results`). `Lines` is
  needed for the second: an acknowledge is sampled while the driver does not pull the line.
- `Honesty` (`ErrorIsHonest`), `Truth` (`OkIsTrue`) and `Reason`
  (`WaitEndsForAReason`), in `Sht1xOutcomeProof` as all that follows. `EInv` relates the history to the sensor's phase up to the
  row that samples an acknowledge: it answers if and only if it heard. `SeedOfStatus` is what
  `Truth` adds, `WaitJustified` what `Reason` does.
- `SoleTask`: with one task, `Spec => []ConversionMatchesResolution`. The finding of `conversion_race`
  needs a second task, and nothing else: no missed pattern and no order of one task's own calls leads to it.
- `Answering` (`LockStep`), from `Fresh` (registers are empty and
  nothing was sent when the answer begins) and `InStep` (row, clock, sensor and registers count the
  same bits). `Agreement` (`SettingsInSync`) and `Blameless` (`NoSpuriousFailure`)
  follow from `Sync`, the agreement with a sensor that has heard everything. They assume
  `StatusArgs \subseteq SUBSET SREG_bm`, that callers pass writable flags: with any other the
  driver's copy differs from the register. `LockStep` gives them the whole answer at its
  place, which is why its checksum is accepted.

`SsiProof` proves, for any tasks, lengths of transfers and FIFOs:

- `TypeCorrect`, `Exclusion`: one task at a time between the take and the give of
  `dev_lock`, and channels that run only for it.
- `ReturnsComplete`: `Spec => TrueIsComplete`. `TrueIsComplete` says nothing of a transfer
  under way; inductive is `Progress`: memory, receive FIFO, transmit FIFO and the bytes
  still with the uDMA are one run of numbers, together with
  `Rest` (between transfers the FIFOs are empty) and `TokenTells` (a completion noted
  or a token given means that the receive channel has moved its last byte). It holds unless
  a receive channel has failed, so `IInv` carries it as an implication; transmit channels that fail and the
  SHT1x handler are included.

- `GivesUpIncomplete`: `Spec => FalseIsIncomplete`, also after a channel has failed. By `EndIsTold`,
  a receive channel that is done has its completion in `CHIS` with an interrupt pending, a
  handler running, or its token given, as long as the SHT1x handler was not first.

`CcxProof` proves, for any length of the configuration, FIFOs and limit of the polls, any `FlashReads`, and any radio:

- `ResetIsTrue`, `ReadsRegister`, `BurstIsComplete`, `ReachesRadio`: the four safety properties
  of the runs; and `TypeCorrect`. `CInv` goes by the places of the programs (`Instructions` says what is
  where): where the device is used and by what (`Using`, `Bytewise`), what the radio
  takes the next byte for (`Listening`), and what `reset`'s result says so far (`Resetting`).
  `Progress` is that of `SsiProof` for the radio's registers: values are in the radio, in the
  transmit FIFO and with the uDMA, whose transmit channel may have failed. `TransferEnds` draws from it that
  both FIFOs are empty when the wait is over, with a token or without, and that with a token the radio has the whole table.
- `NothingFromFlash`: if `FlashReads = {"error"}`, `Spec => [][op = "configure" => UNCHANGED regs]_vars`.
  It is the conclusion about this controller: `NothingSent`, on top of `CInv`, says that no byte of a
  transfer gets into the FIFO, and a burst's header alone writes nothing.

`SemaphoreProof` proves, for any tasks:

- `NothingLost`: if critical sections mask, `Spec => []NoLostWakeUp`, the only theorem here with this
  condition. The strengthening
  says who holds the queue locked and the scheduler suspended (one task, the running one), and what the lock
  count is at each of its steps.
- `TypeCorrect`, and `Refinement`: `Spec => Abstract!SafeSpec`, both for either value of `Masks`: they rest on
  `Kernel`, the part of the strengthening that needs no masking. So what a give between the lines of
  `prvUnlockQueue` breaks is the waiting alone: no token is invented or taken twice.

`HeapProof` proves, for any size of the heap, any requests below `LargestRequest`, and any contents:

- `Soundness`, its inductive invariant `HInv`; `TypeCorrect`, `Tiles` (`BlocksTile`) and `ListIsOrdered` (`ListOrdered`)
  follow from it. `HInv` is `Sound` of memory, list, blocks in use and counter: the headers of all blocks
  make a tiling, where any two blocks are apart and every unit is in one; the list has no block twice, is sorted by size and shares
  none with the application; and the counter is the number of units the listed
  blocks cover. No part is inductive alone: an insertion is at the right place only if the headers it
  compares are those of listed blocks, and they are only as long as no write reaches another block.
  The counter is stated as the size of a set, not as a sum over
  the list: so it needs no induction. `realloc` is a `malloc`, a copy and a `free`, and `Sound` holds in
  between: `Taking`, `Copying` and `Returning` are the lemmas about the three, on top of `Insertion`, `Removal`
  and `SplitTiles` about the list and the tiling.
- `DataKept`: `Spec => OthersKeepData`. Whatever `realloc` reads as the size, the copy is bounded by
  the request, and so stays in the new block.
- `SearchIsBestFit`: the walk along the list finds the smallest block that is large enough, because the
  list is sorted.
- `Refinement`: `Spec => Implements`. A block's units are fixed when it is given, and no other
  block's are among them.

`Sht1xSignalProof` proves, for any bytes as values:

- `CommandArrives`, `PayloadArrives`, `ResetArrives`, `LevelsAreLeft`, `DataIsSetUp`, `TypeCorrect`: the six properties of the run.
  The run evaluates them for eight values; a payload of any byte follows from one argument about a bit
  (`PayloadClocked`). `SInv` says that driver and receiver are at the same sample: the
  last byte sent is on the pins, and the receiver has counted the pulses, followed the start and taken the bits that
  far (`Listening`, with `Count` the number of bits per place of a pattern). That the first pulse may be
  lost is in it: after i samples it has heard at least (i - 1) div 4 pulses, not i div 4.
  The parts of a pattern come from a lemma on each (`StartPattern`, `AddressClocked`, `CommandClocked`).

`Sht1xCrcProof` proves, for any readings, any values of the register and any bound on damaged bits unless it says otherwise:

- `Invariance`: `Spec => []IInv`. `IInv` says what the driver has shifted in after `n` bits: they are at the bottom of `data`, with
  nothing above them, and of `crc`, and each is the bit sent unless its position is in `flips` (`DataReceived`,
  `CrcReceived`); and a damage excludes a stale seed (`Damaged`).
- `Table` (`TableIsPolynomial`): each entry of `crc8_lut` is the remainder of its index. Not by 256 evaluations: a remainder's bits
  are sums of the bits of what is divided (`IsRemainder`), once for eight steps of the sensor's division and once, row by
  row, for the table.
- `Arrival` (`DataArrives`), from `DataReceived`.
- `Integrity` (`AcceptedIffIntact`), for `MaxFlips <= 3`. Two checksums differ by the checksum of the difference of what
  they are of (`CarriedDifference`), so a damaged answer is accepted exactly if the damage is a multiple of the polynomial. A
  multiple has an even number of bits, because `x + 1` is a factor (`EvenDamage`), and not two of them (`FourBitsApart`);
  `DamageCount` relates the bits to the number of positions in `flips`. A stale seed is the same
  argument with an undamaged answer. The bound is sharp: `x^8 + x^5 + x^4 + 1` is itself a damage of four bits that is accepted, which
  TLC shows when `MaxFlips` is 4.
- `OddDamage`: whatever `MaxFlips` is, an answer with an odd number of damaged bits is not accepted.

Only model-checked: the liveness properties (`CallCompletes`, `TransceiveReturns`, `CallReturns`, and that of
`BinarySemaphore`), which are out of the prover's reach. That the four findings' properties are false is TLC's alone.

## Plan

All safety properties of all passing runs are proved. What could follow: should the repository call `send` from a
second task, `Ssi` with two clients.

## Not modelled

- FreeRTOS beyond the semaphore's path (priorities, mutexes with inheritance, timers), and TivaWare:
  third-party. A call of TivaWare is its effect on the peripheral.
- `gpio_intctrl` and `rf`: commented out in the source. The list of error
  listeners of `dma_dev_t`: nothing subscribes, and nothing enables the error interrupt.
- The startup code and its vector table; `main`, which creates one task; `sys.c`.
- The float arithmetic of the conversions, delays, clocks and pin numbers.
- The composition of drivers with the semaphore's code: with one token and one waiting task per
  driver, `BinarySemaphore` is what each of them needs.
- What a register means to the radio. `version` reads register 0x10 of the plain address space, as
  `CCx_PARTVERSION` (0x90) with the read bit is 0x10 read there, while the register of that name is in
  the extended space; `cc120x.h:87` asks for the burst bit in an extended access, which `ext_reg_read`
  does not set. The model keeps to the bytes that are sent.
