# A verification project for the FPGA Serial ACL Tester, version 3

The repository holds one product six times: a tester for the Digilent Pmod ACL2
(an Analog Devices ADXL362 accelerometer), which shows the readings on a Pmod
CLS text display, on a serial terminal, on a two-digit seven-segment display
and on LEDs.  Switch 0 selects *measurement mode* (100 samples a second),
switch 1 *linked mode* (the sensor reports alternating activity and inactivity
events); buttons 0 and 1 step through ten presets of the event thresholds.

* Three implementations are C programs on FreeRTOS: Arty A7 with a MicroBlaze
  (`ACL-Tester-Design-MB`), Arty S7 with a MicroBlaze (`-MB-S7`), Zybo Z7 with
  a Zynq (`-Zynq`).
* Three are hardware designs for the Arty boards: VHDL, Verilog and
  SystemVerilog, one file per component with the same names and the same
  state machines in each.

The modules below are written from the three C programs, whose differences
are a constant (`Board`, `TaskBoards`), and from the VHDL design for the Arty
A7.

Paths: `MB/` stands for
`src/ACL-Tester-Design-MB/Vitis-Sources/ACL-Tester-Design-App/`, `VHDL/` for
`src/ACL-Tester-Design-VHDL/RTL/`.


## 1. Inventory

### 1.1 The C programs

| Component | State | Operations | Talks to |
|---|---|---|---|
| Master task, `MB/Experiment.c` | operating mode, configuration state, last user inputs, two SSD digits, last STATUS, two event counters, last sample | one loop: refresh SSD, LEDs, texts; four times read the inputs, delay 49 ms; operate the FSM | the driver (calls), the three queues (sends with timeout 0), GPIO |
| Pmod ACL2 driver, `MB/PmodACL2custom.c` | range, the five register groups to be written in linked mode | begin, reset, configure measurement/linked mode, get status, get sample, digit and threshold helpers | the sensor over SPI |
| Tasks and queues, `MB/freertos_acl2_main.c` | three queues (10, 2 and 4 items), the display | LED task (not on the Arty S7), display task, print task: receive, then write | the master's queues, LED drivers, Pmod CLS, UART |
| LED drivers, `led_pwm.c`, on the Arty S7 `led_gpio.c` | duty cycles of a PWM block, or bits of two GPIO channels | set one filament, one LED, one palette | the LED task; on the Arty S7 the master |
| Sensor (external) | registers, busy after reset, status bits, interrupt lines | register write and read, soft reset, events on its own | both families of implementations |

*Hard behaviour.*  The sensor outlives a reset of the processor and goes on
working between two SPI transfers of one C function; mode, configuration state
and sensor registers can drift apart.  The status register clears on reading,
so an event seen twice or missed is gone.  All sends have a timeout of zero, so
a queue at its limit drops the update without notice.  The LED and display
tasks are preempted in the middle of an update.

*What makes it correct.*  The mode shown is the mode the sensor is configured
for; a measuring sensor was configured completely; a shown sample comes from a
sensor in the shown mode; events light their LED once and for the configured
time; nothing is dropped; every output converges to what the master computed.

### 1.2 The hardware designs

| Component | State | Operations | Talks to |
|---|---|---|---|
| Tester FSM, `VHDL/acl_tester_fsm.vhdl` | 11 states, mode registers | start a mode from a switch, wait for the driver, leave by soft reset | driver (`command_ready`, three command lines), debounced switches |
| ACL2 driver FSM, `VHDL/pmod_acl2_stand_spi_solo.vhdl` | ~60 states, table of register values, byte index, boot timer, STATUS copy | boot, configure, wait for an interrupt, read, clear STATUS, check, soft reset | SPI master (queues, go, idle), debounced INT1 and INT2 |
| Stream FSM, `VHDL/pmod_acl2_custom_driver.vhdl` | 3 states, eight-byte shift register, last measurement, one-clock pulse | collect the bytes of a group | driver's byte-valid and group-valid |
| SPI master, `VHDL/pmod_generic_spi_solo.vhdl` | serial-clock FSM, two shift registers, TX and RX queues, lengths | one transfer per go pulse: select, send, wait, receive, deselect | both stand-alone drivers, the pins |
| Debouncers, `VHDL/ext_interrupt_debouncer.vhdl`, `multi_input_debounce.vhdl` | value, timer | pass on a value stable for 1 µs / 1 ms; the second passes at most one input | tester, driver, preset selector |
| One-shot, preset selector, `VHDL/one_shot_fsm.vhdl`, `thresh_presets_selector.vhdl` | state; preset index | step an index per press | driver's threshold inputs, SSD |
| CLS driver and text feed, `VHDL/pmod_cls_*.vhdl`, `lcd_text_feed.vhdl` | three command states, line in transmission | clear, line 1, line 2; refresh rate | SPI master, text lines |
| UART feed and transmitter, `VHDL/uart_tx_feed.vhdl`, `uart_tx_only.vhdl` | FIFO, line copy, bit counter | send a 34-character line | text lines |
| Text, LEDs, SSD, stretcher | registers | decode, pulse, multiplex, stretch | all of the above |
| Clocks, reset, tops | dividers, synchronizers, hold register | distribute; combine text and hold valid pulses | everything |

*Hard behaviour.*  The machines know each other through level signals and
one-clock pulses only; a command that is dropped one clock early, an idle that
is seen one clock late, a byte in a queue from the transfer before, and
two interrupts in the same clock are the cases no testbench of the repository
exercises.  A reset of the logic cuts off a transfer and leaves the sensor
configured for whichever mode ran.

*What makes it correct.*  Tester, driver and sensor agree on the mode;
transfers do not run into each other; a measurement handed over is the eight
registers in order; each event is reported, each sample delivered; the design
follows the switches.

Every component, also the ones not modelled, is listed in `PROJECT.json`
(`components`), every hazard at its line under `hazards`.


## 2. Plan

The order puts the behaviour that decides whether the tester tells the truth
first: mode and configuration, then delivery, then presentation.

| Step | Modules | State |
|---|---|---|
| 1 | `PmodACL2custom` → `Experiment`: C driver, sensor and master task | done |
| 2 | `ExperimentProofs`: the inductive invariant, six invariants and an action property | done |
| 3 | `LedDrivers` → `AclTasks`: tasks, priorities and queues of the three C programs down to the LED registers | done |
| 4 | `StandSpi`: what the SPI master promises, as transfers of bytes; `AclTester`: the three FSMs above it and the sensor | done |
| 5 | `GenericSpi`: the SPI master bit by bit, shown to implement `StandSpi` by a refinement mapping | done |
| 6 | `Display`: hold register, text feed, CLS driver over `StandSpi`, UART feed and queue, with a reset of the logic | done |
| 7 | `Buttons` and `Interrupts`: the two debouncers with their timers, the one-shot, the preset selector, the pulse stretcher; they justify `DebouncedSwitches` and the interrupt lines of `AclTester` | done |
| 8 | `AclDriver`: the C driver byte by byte over a register file of the sensor, tied to `PmodACL2custom` | done |
| 9 | `AclTasksProofs`, `ButtonsProofs`, `InterruptsProofs`, `GenericSpiProofs` with the refinement of `StandSpi`, `DisplayProofs` | done |
| 10 | `AclTesterProofs`, `AclDriverProofs`: the invariants of the tester and of the two drivers, in hardware and in C | done |
| 11 | `ReadingsText`, the conversion of a reading to decimal text against a reference definition; the LED pulser and the seven-segment multiplexer of the hardware designs | open |

Runs are kept few: a run asks a question of its own.  A component's theorems
are in a module `<module>Proofs` beside it, also those that need a second
inductive invariant.

None of the modules with theorems, or below them, declares a RECURSIVE
operator.


## 3. Modules and how they correspond to the code

### 3.1 `PmodACL2custom` (operators only)

The driver of the sensor and the sensor as the driver uses it.  The sensor is
a record: the five groups of registers that the driver writes (`thresh`, the
thresholds with their timers; `ctl`; `fifo`; `filter`, which holds the range;
`power`), whether it still boots (`busy`) and its status bits.  A
register write is a record `[reg, val]`, and `ACL2c_configureMeasureMode` and
`ACL2c_configureLinkedMode` are the sequences of the five writes in the order
the C functions make them.  `DevWrite`, `DevStatusRead` and `DevDataRead` are
what the ADXL362 does: a write while it boots is ignored, reading the data
clears DATA_READY, reading STATUS clears the events.  Formatting of values is
abstracted: a sample is the origin of its bytes, a text is the range it was
scaled with.

### 3.2 `Experiment`

`Experiment_prvAcl2Task`, one action per function of its loop, in loop order:
`updateSSD`, `updateLedsDisplayMode`, `updateLedsStatuses`,
`updateClsDisplayAndTerminal`, `updateLedsEvents`, `readUserInputs` (four polls
49 ms apart, `Polls`), `presetLinkedMode`, then `operateFSM` and its parts.
The configuration (reset, delay of 100 ms, five writes, one read back) is one
action per SPI transfer, because the sensor runs in between and the processor
may be reset there.  `Board` selects the differences of the three programs: LED
layout, button order, fallback mode.  Constants `DigitMax`, `CntDone` and
`Polls` are the literals 9, 5 and 4 of the code.

* `SensorEvent`: the sensor boots, samples or detects an event, at any moment.
* `ProcessorReset`: the program starts over, the sensor keeps its registers.

### 3.3 `AclDriver`

`PmodACL2custom.c` again, byte by byte.  Each function is the sequence of the
SPI frames it sends (`ACL2c_configureMeasureMode`, `ACL2c_setRange`, ...); a
frame is `select`, one `exchange` per byte, `deselect`, as `ACL2c_ReadSpi` and
`ACL2c_WriteSpi` drive the chip-select pin by hand.  What a function makes of
the bytes (`Returned`) and what it stores in the object are part of the last
`deselect`.  The sensor is a register file that takes every byte as it comes:
address increment, the widths of the registers, STATUS and data that clear on
reading, a sample that is latched for the length of a frame, a soft reset.

Between any two bytes the sensor may sample or detect an event
(`SensorEvent`), and the processor may be reset (`ProcessorReset`), which cuts
a frame and may leave the pin low until `ACL2c_begin`.  The caller may call any
function in any order (`CallAny`), with one exception that all three programs
keep to: a configuration follows a reset and its delay (`CallConfigure`).

`ConfiguresAsSpecified` ties the two models of the driver together: after each
frame of a configuration the register file, read back into register groups
(`Registers`), is what the same number of writes of `PmodACL2custom` make of
its record.  So `Experiment` may treat a write of a group as one step.

### 3.4 `LedDrivers` and `AclTasks`

`LedDrivers` has the tables and the arithmetic of `led_pwm.c` (MicroBlaze and
Zynq, duty cycles of a PWM block) and `led_gpio.c` (Arty S7, one bit of a GPIO
word, read, changed and written back), as operators on the registers of a
board.

`AclTasks` has the master, print, LED and display tasks as FreeRTOS schedules
them: the master has priority 2, print 1, the other two the idle priority and
share it in time slices.  A task takes a step only while all above it are
blocked, and is preempted between any two steps.  Sends drop what does not fit.
A color LED is written filament by filament, the display in three transfers.
The Arty S7 has no LED task; its master writes the LEDs.  What an iteration has
to show is its `look` (mode, switches, event indicators), of which
`updateLedsDisplayMode`, `updateLedsStatuses` and `updateLedsEvents` make the
updates of each board; `ColorOf` and `BasicOf` say independently what each LED
is for.

### 3.5 `StandSpi` and `AclTester`

`StandSpi` states what the driver relies on: a go with two lengths transfers
that many bytes out of the TX queue and that many into the RX queue, in any
number of clocks per byte, then the master is idle.  A go in the middle of a
transfer overwrites the lengths, an empty TX queue sends something else: both
happen in the code, so the model has them and the properties exclude them.

`AclTester` is one step per clock: `Clock` is the conjunction of the
transitions of the tester FSM (`ST_0` .. `ST_A`), of the driver FSM, of the
stream FSM, of the inputs and of the bus.  Each reads the present outputs of
the others, as registers on one clock do.  The ~60 states of the driver come
in groups with one pattern (command, address, data, wait), so its state is a
pair `<<at, op>>`, `op` being one of the thirteen transfers.  A register group
of the sensor holds the table it was completely written from (`Contents`);
`AfterFrame` says what a frame, complete or cut off by a reset, leaves in each
group.

### 3.6 `Buttons` and `Interrupts`

One step is one clock of 20 MHz, all registers together.  `Buttons` follows a
line from the pin through the synchronizer and the debouncer that lets one line
through at a time (`ClockDebouncer`: waiting for a legal value, debouncing it,
showing it, debouncing its end), the one-shots (`ClockOneShots`) and the two
preset selectors (`ClockSelectors`), with the synchronized reset of the design
(`ClockReset`), which lasts `Stages` clocks longer than its button and leaves
some registers running.  `Interrupts` has the interrupt debouncer
(`ClockInterrupt`) and the pulse stretcher between an event and its LED
(`ClockStretcher`).  Pins, buttons, events and the reset may change at every
clock.  `seen`, `held` and `up` only count what the pins and outputs have done.

### 3.7 `GenericSpi`

The SPI master with the registers at its pins and a peripheral.  A step is one
clock enable, a quarter of a bit: all registers take their new values together
(`Clock`).  `spiFsm` is the FSM of the bus with its timer, which moves in one
of four phases (the tables `Length` and `Following` say how long a state lasts
and what comes after it); `datFsm` stretches a go of one clock enable to the four phases
and holds the lengths; `txQueue`, `rxCapture`, `rxQueue` are the paths of the
bytes, the received ones taken with the state of three clock enables ago;
`pins` are the output registers and the input synchronizer.  A bit is a pair of
its byte and its place, so a byte arrives only if its eight bits do, in order.

The driver is the environment and does what both drivers of the repository do:
it enqueues while the master is idle, pulses go with the last byte (in any of
the phases), waits for idle, and empties the RX queue before the next go
(`Enqueue`, `Go`, `Wait`, `Dequeue`).  A reset of the logic may come at any
time (`Reset`).  `Implements` is the refinement: the queues are themselves, the
transfer under way counts the bytes fetched and received, the frame is the
whole bytes the peripheral has heard; each step of `GenericSpi` is then a step
of `StandSpi` or a stutter.

### 3.8 `Display`

From a measurement to both displays.  `Clock` is one clock of 20 MHz: the hold
register (`p_hold_measurements`) and the text registers always, the refresh FSM
(`lcdFeed`), the CLS driver (`clsDriver`) and the SPI master of `StandSpi` only
with a clock enable, the UART feed (`uartFeed`) always.  `uartTransmit` is the
transmitter on its own clock.  The Pmod CLS takes a frame for what it is
(`AfterFrame`): a whole command or a whole text, or garbage.  A text is its
line and the measurement it was made from; a byte is the text or command it is
of and how many are still to come.

A reset of the logic may come in any clock (`Reset`).  It clears every state
machine and queue but not the text registers, and cuts a frame off; the display
takes what it got of it for a frame.  `typed` is the record of what was sent to
the terminal since the last end of a line or the last reset.  Nothing is assumed
of the terminal: after a reset in the middle of a line it shows the next line
behind the part it has, which `LineWhole` says nothing about.

Three history variables say whether the UART was ready when the refresh began,
how many lines it began, and whether a refresh has been completed since the
reset.

A measurement may be completed and the tester may turn active or inactive in
any clock.  The latter, and button 3, change the texts between the two lines of
one refresh: the hold register keeps the measurement still but not the choice
of its presentation, so the lines may show dashes or another format for the
200 ms of one refresh, although the comment at
`VHDL/fpga_serial_acl_tester_a7100.vhdl:478` speaks of the textual inputs as a
whole.  `OneMeasurement` therefore leaves lines of dashes out.

`MCExperiment`, `MCAclDriver`, `MCAclTasks`, `MCAclTester`, `MCGenericSpi` and
`MCDisplay` only define the values the runs enumerate.  `MCInputs` puts `Buttons`
and `Interrupts`, which share nothing but the clock, into one specification.


## 4. The runs

| Run | Module, cfg | Question | Bounds |
|---|---|---|---|
| `experiment` | `Experiment`, MB | Three invariants and one action property under sensor events and processor resets anywhere | digits 0..1, counters to 2, 2 polls, no switch, 0, 1; buttons none, 0, 1 |
| `experiment_live` | same, Zynq, `FairSpec` | Events are shown, indications end, a selected mode starts, a deselected one stops | digits 0, counters to 5 as in the code |
| `experiment_switches` | violation | The comment at `MB/Experiment.c:179` | see section 7 |
| `experiment_presets` | violation | The comment at `MB/Experiment.c:609` | see section 7 |
| `acl_driver` | `AclDriver` | Sensor and driver stay in step byte by byte, a configuration writes what `PmodACL2custom` says, the scale is the sensor's, samples are whole, events are not lost; calls in any order, a processor reset between any two bytes | two samples with both signs and both bytes, the first and the last column of the preset tables |
| `acl_tasks` | `AclTasks`, all three boards | No update is lost, LEDs and terminal converge to what the master computed, the display never stays cleared | the real queue lengths 10, 2 and 4, four delays, two LED updates in a delay; four looks |
| `acl_tasks_late` | same | No LED and no display text mixes two updates, with no timing assumption, so that updates are dropped and tasks preempted everywhere | queues of 2, 1 and 1, rates 0; two looks |
| `acl_tester` | `AclTester` | Four invariants with a reset of the logic in any clock | 2 presets, boot of 3 clocks, switches none, 0, 1 |
| `acl_tester_modes` | `AclTester`, `FairSpec` | The design follows the switches and samples are delivered unless the sensor never lets go of the interrupt; each event of linked mode is reported, also when both interrupts come together | 1 preset |
| `inputs` | `MCInputs` | Steady pins settle, a press is one step, bounces are stopped, two lines are never swapped, interrupts are filtered, stretches are exact; with a reset in any clock | two lines, debounce of 5 clocks, 3 presets, reset of 2; interrupt timer of 5, stretch of 4 |
| `generic_spi` | `GenericSpi` | It implements `StandSpi`, keeps to SPI mode 0, gives exactly the clocks of the transfer, and each transfer ends | 1 or 2 bytes out, 0 to 2 in, wait 0 or 1, queues of 2, timer to 17 |
| `display` | `Display`, `FairSpec` | One refresh shows one measurement everywhere, frames and lines are whole, one line per refresh, refreshes go on; with a reset in any clock | delays of 2 and 3 enables, commands of 2 bytes, texts of 1, UART queue of 5 with threshold 2 |

*Why the bounds are enough.*  Two digits and two presets are what a stale or
exchanged preset needs to show; the theorems of section 6 hold for all digits,
and for every board, also the Arty S7, which no run of `Experiment`
instantiates.  A counter of 2 has a start, a middle and an end, and the liveness
run has the real 5.  Two polls give a first one and a last one.  In `AclDriver`
nothing else is bounded: registers, addresses and ranges are the real ones.  In
`AclTasks` the lengths are the real ones where the property is about them; the
two looks of `MCLooks` differ in every LED, the other two add the modes in which
nothing runs.  In `AclTester` nothing is bounded but the boot timer: the
transfer lengths, queues and tables are the real ones.  Boot of 3 clocks stands
for 100 ms; the only relation that matters, longer than the boot of the sensor,
is in `BootsInTime`.  In `MCInputs` the timers are a little above their least
values (4, 3 and 2, the assumptions of the modules), so that each comparison
with a constant below the count can still be met; the theorems hold for every
length.  In `GenericSpi` one byte and two bytes are a transfer without and with
a fetch between bytes, no byte in and wait 0 and 1 take every branch of the FSM,
and 17 is past the end of the longest transfer, as 4144 is in the code.  In
`Display` the lengths are small, and a frame is compared byte by byte with the
three it may be, so a missing, extra or foreign byte shows.  A line just fits
above the UART threshold, the tightest case `DisplayAssumption` allows (in the
code the threshold is 35 or 2013 of 2048 bytes, depending on which end
ALMOST_FULL_OFFSET counts from, and a line of 34 fits either way), so a slow
terminal makes the feed wait.  One measurement after the start is what two lines
with different measurements need.

All runs check for deadlock but `acl_driver`: a program that has called
`ACL2c_end` has no further use for the driver.  Type invariants that a theorem
of section 6 proves are not checked again by a run, except in `display`, where
it is cheap.


## 5. Fairness and timing assumptions

*C programs.*  `FairSpec` of `Experiment`: weak fairness of the master task, the
only task of the highest priority, on a processor that stays up.  Nothing is
assumed of the sensor or the operator.  In `AclTasks` each task that stays
ready gets to run; the starvation of lower tasks is in their guards, and
`LedRate`, `TextRate` state how much they get done while the master sleeps:
in 49 ms, two LED updates (a few register writes each, of at most ten); in
an iteration, one text (34 characters at 115200 baud are 3 ms).
The properties about tearing need neither.

*Display and SPI master.*  `Spec` of `GenericSpi` has weak fairness of its next
step: the clock runs.  `FairSpec` of `Display`: the machines that can
move do, a transfer under way and the transmitter go on.  Nothing is assumed of
the measurements.

*Hardware.*  `FairSpec` of `AclTester`: the clock runs, a transfer under way
goes on, the debouncers follow their lines.  Each state machine has weak
fairness of its own, on its own registers: all of them move with the one
clock.  No fairness forces a switch or an
event of the sensor: the fairness conditions are about steps that exist with
the environment at rest.  Timing relations the design relies on, each a
conjunct with a name:

* `BootsInTime`: the sensor has booted (0.5 ms after a soft reset, 5 ms after
  power-up) before the driver leaves BOOT0 (100 ms).
* `SlowSwitches` (run `acl_tester_modes` only): between two switches the debouncer shows none for a
  millisecond, a configuration takes about 65 µs; so a new
  switch does not show while a mode is being brought up.
* `DebouncedSwitches`: two switches are never shown without none in between;
  the theorem `LinesAreSeparated` of `ButtonsProofs` says so of the debouncer.

No pace of the sensor is assumed.  The loop that reads STATUS until the interrupt
falls does not look at the soft-reset command, and reading STATUS does not clear
a sample that became ready after the data was read: a sensor that does not let
go of the interrupt keeps the driver in that loop for ever, whatever the
switches say.  Samples are 10 ms apart and the loop takes about 30 µs, so a
sample that is served as soon as it is ready is safe.  One that becomes ready
in those 30 µs is enough in measurement mode; that can be after a reset of the
logic, when the sensor went on measuring and the first reading has no relation
to its sampling.  In linked mode it takes an event in every pass.  `ModeFollowsSwitch` says that
this is the only way the design can fail to follow the switches
(`HeldByInterrupt`: in the loop for good, with the interrupt found up again and
again), and TLC finds the property violated without that exception.
`EventsReported` has no exception: the status register gets each event even
there.


## 6. What is proved

TLAPS checks the theorems below for all values of the constants, under the named
assumptions the modules make of them.  None of the invariants is inductive by
itself; the strengthening of each module is what the code relies on without
saying so.

| Module | Theorem | Says |
|---|---|---|
| `ExperimentProofs` | `Invariance` | the inductive invariant `IInv` of the master task |
| | `TypeCorrect` | `Spec => []TypeOK` |
| | `ModeIsTheSensors` | `Spec => []ModeMatchesSensor` |
| | `ModeAndStateAgree` | `Spec => []ConfiguredIffRunning` |
| | `MeasuresConfigured` | `Spec => []NoPartialMeasurement` |
| | `ShowsMeasurements` | `Spec => []SampleWasMeasured` |
| | `TextIsScaled` | `Spec => []TextHasRange` |
| | `GreenIsAnEvent` | `Spec => GreenOnlyOnEvent` |
| `AclTasksProofs` | `Invariance`, `TypesHold` | the inductive invariant, `Spec => []TypeOK` |
| | `NoLedIsTorn` | `Spec => []NoTornLed` |
| | `NoTextIsTorn` | `Spec => []NoTornText` |
| | `UpdatesAreNotDropped` | `EnoughTime => (Spec => []NothingDropped)` |
| `ButtonsProofs` | `RegistersInRange` | `ButtonsSpec => []ButtonsTypeOK` |
| | `PressesAreCounted` | `ButtonsSpec => []OneStepPerPress` |
| | `BouncesAreStopped` | `ButtonsSpec => BouncesStopped` |
| | `LinesAreSeparated` | `ButtonsSpec => NeverSwapped` |
| | `SteadyLinesComeOut` | `ButtonsSpec => []SettlesOnLines` |
| `InterruptsProofs` | `TimersInRange` | `InterruptsSpec => []InterruptsTypeOK` |
| | `InterruptsAreFiltered` | `InterruptsSpec => InterruptFiltered` |
| | `StretchesAreExact` | `InterruptsSpec => StretchExact` |
| `GenericSpiProofs` | `SpiInvariance`, `RegistersKeepTypes` | the inductive invariant, `Spec => []TypeOK` |
| | `ClocksAreCounted` | `Spec => []ClocksCounted` |
| | `PinsKeepProtocol` | `Spec => BusProtocol` |
| | `TransfersTakeTheirTime` | a busy master counts down the clocks of its transfer: the safety half of `TransferEnds` |
| | `MasterImplementsStandSpi` | `Spec => Implements`, the refinement of `StandSpi` |
| `DisplayProofs` | `UartInvariance`, `HistoryInvariance` | the invariants of the way to the terminal |
| | `TerminalShowsLines` | `Spec => []LineWhole` |
| | `OneLineEach` | `Spec => OneLinePerRefresh` |
| | `ClsInvariance`, `RegistersInRange` | the invariant of the way to the display, `Spec => []TypeOK` |
| | `FramesStayWhole` | `Spec => []FramesWhole` |
| | `OneMeasurementIsShown` | `Spec => []OneMeasurement` |
| `AclTesterProofs` | `Inductive`, `Typed` | the inductive invariant, `Spec => []TypeOK` |
| | `ModesMatch` | `Spec => []ModeMatchesSensor` |
| | `Aligned` | `Spec => []TransfersAligned` |
| | `Whole` | `Spec => []MeasurementWhole` |
| | `NobodyWaitsInVain` | what tester, driver and bus wait for is on its way: no deadlock between them |
| `AclDriverProofs` | `Inductive`, `Typed` | the inductive invariant, `Spec => []TypeOK` |
| | `InStepAlways` | `Spec => []SensorInStep` |
| | `Configured` | `Spec => []ConfiguresAsSpecified` |
| | `ScaledByRange` | `Spec => []ScaleAgrees` |
| | `SampledWhole` | `Spec => []SampleWhole` |
| | `EventsKept` | `Spec => EventsNotLost` |

### 6.1 The master task

For every board, digit range, counter limit, number of polls and set of inputs
(`BoardAssumption`, `DigitAssumption`, `CountAssumption`, `InputAssumption`),
with sensor events and processor resets anywhere.  That the displayed mode is
the one in the registers follows from how far the configuration got, so `IInv`
adds

* `Phase`: which mode and configuration state go with each `pc`, and that
  a configuration is under way only with a selected mode;
* `Polling`: the poll counter and the write counter belong to their phases;
* `Progress`: while a configuration is under way, the registers written so far
  hold the values of the selected mode and the write index says which they
  are;
* `Sensor`: it boots only during the reset delay, and has status bits only
  while it measures;
* `Driver`: the driver's linked-mode fields are one column each of the preset
  tables, so that each later configuration writes a table and not a mixture.

Each action preserves each conjunct, in one step per action.  The lemmas
`PresetsFit`, `MeasureFits`, `PresetColumnStored`, `FittingWrite` and
`ConfigurationWrites` say what the two sequences of writes do to the sensor's
registers.

### 6.2 The tasks and queues

For every set of boards and looks, every length of the queues and every rate
(`LooksAssumption`, `LengthAssumption`).  `TasksInv` says what an update in the
queue or in the hands of the LED task stands for, which filaments are written in
the middle of an LED, and which line of the display is; tearing is excluded
whatever is dropped.

That nothing is dropped holds only under `EnoughTime`: the LED queue holds the
eight updates of an iteration and the delays of an iteration leave time for
eight.  `Backlog` bounds, at each place of the master's loop, what a task has
not yet completed, and lets the bound fall with the time it has had.  The code
has a queue of ten and four delays of 49 ms.

### 6.3 Buttons, interrupts, SPI master

`ButtonsInv` adds to the types what the timers stand for (`Waiting`, `Leaving`:
the count bounds how long the lines have been steady, or gone) and where the
pulse of a press can be in each state of the debouncer (`Pulses`), which is true
again after a reset only because the reset outlasts the pulse (`Cleared`).
`ButtonsAssumption` therefore asks for `Stages >= 2`: with a reset of one clock
the one-shot's pulse of before it would step a selector that has just been
cleared.  The code has 14.

That steady pins come out is a safety property here, because the debouncer does
something in every clock: `Settling` bounds how long the pins can have been
steady in each state and at each count, along the longest way (a stored line
that is gone, D to its end, A, B to its end).  The bound is exact: two debounce
times and one clock.

`InterruptsInv` ties each timer to how long the pin has kept its value
(`Filtering`) and the stretched event has been up (`Stretching`).

`SpiInv` follows a transfer through its clock enables: a go is held for the four
phases, in one of which the bus leaves IDLE (`Holding`); in every other state
the timer is below the one length it is compared with (`Timed`); the registers
at the pins are one clock enable behind the state (`Driven`); so each bit of a
state adds one bit to what the peripheral has heard (`Heard`).

That a transfer ends is liveness, but how long it takes is safety:
`ClocksLeft` counts the clock enables still to come from the state, its timer
and the phase, is zero exactly when the master is idle, starts with the length
of the transfer at a go, and is one less after every clock enable
(`TransfersTakeTheirTime`).  With a clock that runs, `TransferEnds` follows for
all lengths; the run checks it for its own.

That the master implements `StandSpi` is proved from `SpiInv` and `WayInv`, which
follows each bit and byte on its way:

* `Fetching`: how many bytes of the command have been fetched at each point, and
  that the others are in the TX queue, so that a fetch never finds it empty;
* `Current`: the bits heard of the present byte are those of the TX output
  register, which is loaded only between the last bit of one byte and the
  first of the next;
* `Deselected`: the peripheral is not selected before `START_S`, so that a
  transfer begins with nothing heard;
* `Behind`, `Sampled`: what the states of one to three clock enables ago are in
  each phase, and where the present bit of the answer has got to by then, from
  the peripheral through the two registers of the synchronizer;
* `Shifting`, `Receiving`: the bits since the last whole byte are in the shift
  register, in their order, and the whole bytes are in the RX queue or taken
  from it, but for one that is about to be written.

Idle or in a transfer, a clock enable is then one step of `StandSpi`
(`IdleClock`, `BusyClock`): the clock that ends the eighth bit of a
byte is `SpiSend`, the one that writes a byte to the RX queue `SpiReceive`, the
one that leaves `STOP_D` `SpiStop`, and all others leave the bytes where they are;
a fetch moves a byte from the queue to the output register, which is one
queue to the driver.

### 6.4 The displays

For every length of the commands, the texts, the line and the UART queue and all
delays (`DisplayAssumption`), any measurements, any pace of bus and transmitter,
with a reset in any clock.

`UartInv`: each byte in the queue follows the one before it (`Chained`), the
first follows what was sent last (`Fronted`), what the feed appends next
follows the last (`Backed`), what was sent is the beginning of a line (`Begun`),
and a line under way finds room (`Roomy`).  `HistoryInv`: a line that was counted
is not counted again while the go lasts, and a feed that was ready takes the
line at once.

`ClsInv`: TX queue and frame together are the command or the text of the driver
(`Transfers`); the refresh FSM and the driver know each other's state though one
tells the other only a level (`Interlock`); the cursor and both lines of the
display are what the two have got to (`Aimed`, `Written`), which is true again
after a reset because the first command of a refresh clears the display; and
each line was taken from a measurement held still since the refresh began
(`Still`).

### 6.5 The tester of the hardware designs

For every set of presets that are not named as the two modes
(`PresetsAssumption`), every boot time of at least two clocks (`BootAssumption`),
any switches of which at most one is on at a time (`SwitchAssumption`, which the
debouncer justifies), any pace of the bus and of the sensor, with or without
`SlowSwitches`, and with the reset button pressed in any clock.

The three FSMs and the queues see of each other a few levels only.  `IInv` says
what each of them may take for granted:

* `TxAligned`: in each state of the driver, the TX queue holds the bytes of the
  present frame that the sensor has not got, and the sensor has the others;
* `RxAligned`: what the driver still counts is still to be received, in the RX
  queue, or presented to it, and outside of a read there is nothing;
* `Streamed`, `Collected`: the samples on their way are those the driver has not
  counted, the collecting FSM has those it has, and it is done with a group
  before the next begins, though nothing makes the driver wait for it;
* `Configured`: the register groups the driver has come past hold the table, and
  the sensor resets itself only where the driver waits for that, also when a
  reset of the logic found it at it;
* `Paced`: where the driver can be in each state of the tester, because
  `command_ready` is all the tester sees.

`ModeMatchesSensor` is the last two together, `TransfersAligned` the first two.
They also say that no wait is in vain (`NobodyWaitsInVain`): a byte the driver
waits for is in the RX queue or to be received by a transfer under way, a byte
the bus has to send is in its queue, and tester and driver, each of which waits
for a level of the other, never do so at the same time.  That what is on its way
arrives is liveness (`ModeFollowsSwitch`), which TLC checks.
A boot time of one clock would not do: the driver would write to a sensor that
has only just been reset.

The sensor is external.  What the theorems take from it is in the model: it
holds a sample still while one is read, and it has booted when the driver leaves
its wait for that (`BootsInTime`, section 5).

### 6.6 The C driver

For every set of readings of twelve signed bits (`ReadingsAssumption`) and every
set of presets that fit the fields of the object (`PresetsAssumption`), calls in
any order, and the processor reset between any two bytes.  `IInv` follows the
frames:

* `Scripted`: those still to be sent are the last ones of the script of the
  function under way, so that a number of frames left says which they are;
* `InStep`: the sensor has heard of the present frame what has been sent of it,
  and of no frame anything between two frames;
* `ReadBack`: each byte received, in the buffer it was sent from, is what the
  register holds; data come from the sample latched for the frame, though the
  sensor takes others meanwhile;
* `Written`, `Prepared`: the registers a configuration has come past hold its
  bytes and the control registers after them still the defaults, because a reset
  went before;
* `Ranged`: the range of the object is the one in the registers but while a
  `setRange` is between its write and its reading back, when the registers
  have the new one.

The only conclusion about a sensor whose driver was cut off is
`MeasuresConfigured`: POWER_CTL is the last register written, so a sensor that
measures has all the others.  That the abstract registers of `PmodACL2custom`
follow (`Configured`), that eleven-bit thresholds survive being sent as two bytes
and that a reading gets its sign back (`SampledWhole`) are facts of arithmetic
about one pair of bytes, stated as lemmas.

### 6.7 What is only model-checked

All liveness properties, and enabledness: out of the prover's reach.  Where what
they rest on is safety it is proved: `SteadyLinesComeOut`,
`TransfersTakeTheirTime`, `NobodyWaitsInVain`.
Every invariant, action property and refinement that a passing run checks is also a
theorem.  No theorem is by induction over data: the modules use
functions and folds, and the theorems are about steps.


## 7. Findings

1. *Both inactivity presets follow the left digit.*  `MB/Experiment.c:620-623`
   tests `ssdDigitRight` and then indexes with `ssdDigitLeft`; the comment at
   609-612 says that the presets match the display.  Run `experiment_presets`.
   The hardware designs do not share it.
2. *A change of switches need not change the mode.*  The task looks for a new
   switch only while the sensor is not configured, and the switches
   are sampled every 49 ms: moved from 0 to 1 between two readings, the old
   mode goes on for as long as a switch is on.  The comment at line 179 says
   that a change of switches 0, 1 changes the mode.  Run `experiment_switches`.
   In the hardware designs the debouncer shows none in between, see
   `ModeFollowsSwitch`.


## 8. Not modelled, and why

* Measurement to text (`adxl362_readings_to_ascii`, `lcd_text_functions_pkg`):
  pure arithmetic from twelve bits to digits, without state.
* LED pulser and palette, PWM and seven-segment multiplexer of the hardware
  designs: indicators that feed nothing back.  Brightness and color of the C
  programs are modelled down to the LED registers.
* Text formatting in the C programs: a text is what it was made from.
* The bits of the UART transmitter: it takes whole bytes from its queue.
* The Verilog and SystemVerilog designs: the same state machines by name; the
  VHDL files are the ones read.
* The MuxSSD peripheral, an AXI register pair with a multiplexer: `Experiment`
  has its two digits.
* Tops (but for their hold and text registers), clock dividers, constraints,
  scripts, block designs, bit files, generated IP and board-support packages:
  wiring, free-running, generated, or vendor code.
* The testbench and the Python scripts that parse traces of a logic analyzer:
  test tools.
