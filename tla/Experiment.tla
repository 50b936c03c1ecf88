---------------------------- MODULE Experiment ----------------------------
(***************************************************************************)
(* The master task of the FreeRTOS programs, Experiment_prvAcl2Task, with  *)
(* the sensor it configures and polls.                                     *)
(*                                                                         *)
(* One action per function that the task's loop calls, in the order of the *)
(* loop; pc names the function to be called next.  The configuration of    *)
(* the sensor, a soft reset, a delay, five register writes and one         *)
(* register read, is split into its SPI transfers, since the sensor goes   *)
(* on working between them.  The sensor changes its status on its own      *)
(* (SensorEvent) and outlives a reset of the processor (ProcessorReset).   *)
(*                                                                         *)
(* The three programs differ in the layout of the LEDs, in which button    *)
(* steps which digit and in the mode they fall back to before the first    *)
(* configuration; Board selects the program.                               *)
(***************************************************************************)
EXTENDS PmodACL2custom

CONSTANTS Board,            \* "MB" (Arty A7), "S7" (Arty S7) or "Zynq" (Zybo Z7)
          DigitMax,         \* the last value of an SSD digit, 9 in the code
          CntDone,          \* CNT_DONE, 5 in the code
          Polls,            \* reads of the user inputs per iteration, 4 in the code
          SwitchInputs,     \* the switch combinations that may be read
          ButtonInputs      \* the button combinations that may be read

ASSUME BoardAssumption == Board \in {"MB", "S7", "Zynq"}
ASSUME DigitAssumption == DigitMax \in 0..9
ASSUME CountAssumption == CntDone \in 1..255 /\ Polls \in Nat \ {0}
ASSUME InputAssumption == /\ SwitchInputs \subseteq SUBSET (0..3)
                          /\ ButtonInputs \subseteq SUBSET (0..3)

VARIABLES
    pc,               \* the function the task calls next
    poll,             \* the variable i of the polling loop
    write,            \* the next register write of the configuration under way
    operatingMode,
    acl2IsConfigured,
    switchesRead,
    buttonsRead,
    statusReg,
    cntActive,
    cntInactive,
    ssdDigitRight,
    ssdDigitLeft,
    acl2Device,       \* the driver's fields
    acl2Data,         \* where the last sample came from
    ledUpdate,        \* the last update computed for each LED
    clsUpdate,        \* the two lines for the display
    comString,        \* the line for the terminal
    ssdRegs,          \* the two registers of the MuxSSD peripheral
    dev               \* the sensor

inputs   == <<switchesRead, buttonsRead, ssdDigitRight, ssdDigitLeft>>
mode     == <<operatingMode, acl2IsConfigured>>
events   == <<statusReg, cntActive, cntInactive>>
outputs  == <<ledUpdate, clsUpdate, comString, ssdRegs>>
vars     == <<pc, poll, write, inputs, mode, events, acl2Device, acl2Data, outputs, dev>>

-----------------------------------------------------------------------------
(* Tables and layouts.                                                     *)

CNT_START == 0

Modes == {"MEAS", "LINK", "BOOT", "NONE"}
ConfigStates == {"CONFIGURED", "NOTCONFIGURED", "NEVERCONFIGURED"}

(* The preset tables have sixteen columns, of which ten hold a preset.     *)
PresetColumn(i, step) == IF i <= 9 THEN step * (i + 1) ELSE 65000
c_thresh_presets_active(i)   == [thresh |-> PresetColumn(i, 32), timer |-> PresetColumn(i, 16)]
c_thresh_presets_inactive(i) == [thresh |-> PresetColumn(i, 16), timer |-> PresetColumn(i, 32)]

(* Segment code of each digit value.                                       *)
convertValueToSSD(v) ==
    << 63, 6, 91, 79, 102, 109, 125, 7, 127, 103, 119, 124, 57, 94, 121, 113 >>[v + 1]

(* The silk-screen numbers of the LEDs of each program.                    *)
Leds        == CASE Board = "MB" -> 0..7 [] Board = "S7" -> 0..5 [] OTHER -> 0..6
ActiveLed   == CASE Board = "MB" -> 2 [] Board = "S7" -> 0 [] OTHER -> 6
InactiveLed == CASE Board = "MB" -> 3 [] Board = "S7" -> 1 [] OTHER -> 5

(* The button that steps the right digit and the one that steps the left.  *)
RightButton == IF Board = "Zynq" THEN {0} ELSE {1}
LeftButton  == IF Board = "Zynq" THEN {1} ELSE {0}

(* Fallback mode of the main FSM before the first configuration.           *)
NeverConfiguredMode == IF Board = "Zynq" THEN "BOOT" ELSE "NONE"

(* A line that was never written.                                          *)
NoLines == [form |-> "data", of |-> "blank", range |-> 0]

-----------------------------------------------------------------------------
(* Experiment_InitData and the start of the task.                          *)

InitData ==
    /\ pc = "updateSSD" /\ poll = 0 /\ write = 0
    /\ operatingMode = "NONE" /\ acl2IsConfigured = "NEVERCONFIGURED"
    /\ switchesRead = {} /\ buttonsRead = {}
    /\ statusReg = {} /\ cntActive = CntDone /\ cntInactive = CntDone
    /\ ssdDigitRight = 0 /\ ssdDigitLeft = 0
    /\ acl2Device = ACL2c_begin /\ acl2Data = "zero"
    /\ ledUpdate = [l \in Leds |-> "off"]
    /\ clsUpdate = NoLines /\ comString = NoLines
    /\ ssdRegs = [right |-> 0, left |-> 0]

Init == InitData /\ dev = DevDefault

-----------------------------------------------------------------------------
(* The display half of the loop.                                           *)

updateSSD ==
    /\ pc = "updateSSD"
    /\ ssdRegs' = [right |-> convertValueToSSD(ssdDigitRight),
                   left  |-> convertValueToSSD(ssdDigitLeft)]
    /\ pc' = "updateLedsDisplayMode"
    /\ UNCHANGED <<poll, write, inputs, mode, events, acl2Device, acl2Data,
                   ledUpdate, clsUpdate, comString, dev>>

(* LEDs 0 and 1 show the mode; only the Arty A7 program drives them so.    *)
updateLedsDisplayMode ==
    /\ pc = "updateLedsDisplayMode"
    /\ ledUpdate' =
         IF Board # "MB" THEN ledUpdate
         ELSE [ledUpdate EXCEPT
                 ![0] = CASE operatingMode \in {"MEAS", "LINK"} -> "green"
                          [] operatingMode = "BOOT"             -> "red"
                          [] OTHER                              -> "blue",
                 ![1] = CASE operatingMode = "MEAS" -> "white"
                          [] operatingMode = "LINK" -> "magenta"
                          [] OTHER                  -> "dim red"]
    /\ pc' = "updateLedsStatuses"
    /\ UNCHANGED <<poll, write, inputs, mode, events, acl2Device, acl2Data,
                   clsUpdate, comString, ssdRegs, dev>>

Lit(condition) == IF condition THEN "on" ELSE "off"

statusLedsMB ==
    [l \in 4..7 |-> CASE l = 4 -> Lit("AWAKE" \in statusReg)
                      [] l = 5 -> "off"
                      [] l = 6 -> Lit(0 \in switchesRead)
                      [] OTHER -> Lit(1 \in switchesRead)]
statusLedsS7 == [l \in 2..5 |-> statusLedsMB[l + 2]]
statusLedsZynq ==
    [l \in 0..3 |-> CASE l = 0 -> Lit(0 \in switchesRead)
                      [] l = 1 -> Lit(1 \in switchesRead)
                      [] l = 2 -> Lit(operatingMode \in {"MEAS", "LINK"})
                      [] OTHER -> Lit("AWAKE" \in statusReg)]
statusLeds == CASE Board = "MB" -> statusLedsMB
                [] Board = "S7" -> statusLedsS7
                [] OTHER        -> statusLedsZynq

updateLedsStatuses ==
    /\ pc = "updateLedsStatuses"
    /\ ledUpdate' = [l \in Leds |-> IF l \in DOMAIN statusLeds THEN statusLeds[l]
                                    ELSE ledUpdate[l]]
    /\ pc' = "updateClsDisplayAndTerminal"
    /\ UNCHANGED <<poll, write, inputs, mode, events, acl2Device, acl2Data,
                   clsUpdate, comString, ssdRegs, dev>>

(* A line shows blanks, or the last sample as text (g and Celsius, scaled  *)
(* with the range field) or as hexadecimal data.                           *)
TextLines == IF operatingMode \in {"MEAS", "LINK"}
             THEN [form |-> "text", of |-> acl2Data, range |-> acl2Device.range]
             ELSE [form |-> "text", of |-> "blank", range |-> 0]
DataLines == [TextLines EXCEPT !.form = "data", !.range = 0]

updateClsDisplayAndTerminal ==
    /\ pc = "updateClsDisplayAndTerminal"
    /\ comString' = IF buttonsRead = {2} THEN TextLines ELSE DataLines
    /\ clsUpdate' = IF buttonsRead = {3} THEN DataLines ELSE TextLines
    /\ pc' = "updateLedsEvents"
    /\ UNCHANGED <<poll, write, inputs, mode, events, acl2Device, acl2Data,
                   ledUpdate, ssdRegs, dev>>

(* Mutants: the count starts again, or never advances.                     *)
CountWraps(count) == IF count < CntDone THEN count + 1 ELSE CNT_START
CountStuck(count) == count

timeEvent(count) == IF count < CntDone THEN count + 1 ELSE count

EventColor(count) == IF count < CntDone THEN "green" ELSE "red"

updateLedsEvents ==
    /\ pc = "updateLedsEvents"
    /\ cntActive' = timeEvent(cntActive)
    /\ cntInactive' = timeEvent(cntInactive)
    /\ ledUpdate' = [ledUpdate EXCEPT ![ActiveLed]   = EventColor(cntActive'),
                                      ![InactiveLed] = EventColor(cntInactive')]
    /\ pc' = "readUserInputs" /\ poll' = 0
    /\ UNCHANGED <<write, inputs, mode, statusReg, acl2Device, acl2Data,
                   clsUpdate, comString, ssdRegs, dev>>

-----------------------------------------------------------------------------
(* The polling loop: a delay of 49 ms, then one reading of the inputs.     *)

NextDigit(d) == IF d < DigitMax THEN d + 1 ELSE 0

readUserInputs ==
    /\ pc = "readUserInputs"
    /\ switchesRead' \in SwitchInputs
    /\ buttonsRead' \in ButtonInputs
    /\ ssdDigitRight' = IF buttonsRead = {} /\ buttonsRead' = RightButton
                        THEN NextDigit(ssdDigitRight) ELSE ssdDigitRight
    /\ ssdDigitLeft'  = IF buttonsRead = {} /\ buttonsRead' = LeftButton
                        THEN NextDigit(ssdDigitLeft) ELSE ssdDigitLeft
    /\ poll' = poll + 1
    /\ pc' = IF poll + 1 < Polls THEN "readUserInputs" ELSE "presetLinkedMode"
    /\ UNCHANGED <<write, mode, events, acl2Device, acl2Data, outputs, dev>>

(* The left digit selects all four presets, the inactivity ones included;  *)
(* the timer of the activity preset is stored in eight bits.               *)
presetLinkedMode ==
    /\ pc = "presetLinkedMode"
    /\ acl2Device' =
         [acl2Device EXCEPT
            !.activeThresh   = IF ssdDigitLeft < 16
                               THEN c_thresh_presets_active(ssdDigitLeft).thresh ELSE @,
            !.activeTimer    = IF ssdDigitLeft < 16
                               THEN c_thresh_presets_active(ssdDigitLeft).timer % 256 ELSE @,
            !.inactiveThresh = IF ssdDigitRight < 16
                               THEN c_thresh_presets_inactive(ssdDigitLeft).thresh ELSE @,
            !.inactiveTimer  = IF ssdDigitRight < 16
                               THEN c_thresh_presets_inactive(ssdDigitLeft).timer ELSE @]
    /\ pc' = "operateFSM"
    /\ UNCHANGED <<poll, write, inputs, mode, events, acl2Data, outputs, dev>>

-----------------------------------------------------------------------------
(* Experiment_operateFSM.                                                  *)

SelectedMode == CASE switchesRead = {0} -> "MEAS"
                  [] switchesRead = {1} -> "LINK"
                  [] OTHER              -> "none"

(* A switch selects a mode that is not configured yet: reset the sensor    *)
(* and start the delay of 100 ms.                                          *)
operateFSM_reset ==
    /\ pc = "operateFSM"
    /\ SelectedMode # "none" /\ acl2IsConfigured # "CONFIGURED"
    /\ dev' = DevWrite(dev, ACL2c_reset)
    /\ pc' = "resetDelay"
    /\ UNCHANGED <<poll, write, inputs, mode, events, acl2Device, acl2Data, outputs>>

(* A switch selects a mode and the sensor is configured: nothing changes.  *)
operateFSM_keep ==
    /\ pc = "operateFSM"
    /\ SelectedMode # "none" /\ acl2IsConfigured = "CONFIGURED"
    /\ pc' = "getStatus"
    /\ UNCHANGED <<poll, write, inputs, mode, events, acl2Device, acl2Data, outputs, dev>>

(* Mutant: the operating mode is not taken down.                           *)
LeaveKeepsMode ==
    /\ pc = "operateFSM"
    /\ SelectedMode = "none"
    /\ acl2IsConfigured' = IF acl2IsConfigured # "NEVERCONFIGURED" THEN "NOTCONFIGURED"
                           ELSE acl2IsConfigured
    /\ pc' = "getStatus"
    /\ UNCHANGED <<poll, write, inputs, operatingMode, events, acl2Device, acl2Data,
                   outputs, dev>>

(* No switch, or a combination of switches, is on.                         *)
operateFSM_leave ==
    /\ pc = "operateFSM"
    /\ SelectedMode = "none"
    /\ IF acl2IsConfigured # "NEVERCONFIGURED"
       THEN acl2IsConfigured' = "NOTCONFIGURED" /\ operatingMode' = "NONE"
       ELSE operatingMode' = NeverConfiguredMode /\ UNCHANGED acl2IsConfigured
    /\ pc' = "getStatus"
    /\ UNCHANGED <<poll, write, inputs, events, acl2Device, acl2Data, outputs, dev>>

(* Mutant: the task does not wait for the end of the reset.                *)
ResetNotAwaited ==
    /\ pc = "resetDelay"
    /\ write' = 1
    /\ pc' = "configure"
    /\ UNCHANGED <<poll, inputs, mode, events, acl2Device, acl2Data, outputs, dev>>

(* The delay is over; the part needs about half a millisecond of the 100.  *)
resetDelay ==
    /\ pc = "resetDelay"
    /\ dev' = [dev EXCEPT !.busy = FALSE]
    /\ write' = 1
    /\ pc' = "configure"
    /\ UNCHANGED <<poll, inputs, mode, events, acl2Device, acl2Data, outputs>>

Configuration == IF SelectedMode = "MEAS" THEN ACL2c_configureMeasureMode
                 ELSE ACL2c_configureLinkedMode(acl2Device)

(* One register write of the configuration function.                       *)
configureWrite ==
    /\ pc = "configure" /\ write <= Len(Configuration)
    /\ dev' = DevWrite(dev, Configuration[write])
    /\ write' = write + 1
    /\ UNCHANGED <<pc, poll, inputs, mode, events, acl2Device, acl2Data, outputs>>

(* The end of the configuration function and of the branch that called it. *)
configureDone ==
    /\ pc = "configure" /\ write > Len(Configuration)
    /\ acl2Device' = ACL2c_updateRange(acl2Device, dev)
    /\ acl2IsConfigured' = "CONFIGURED"
    /\ operatingMode' = SelectedMode
    /\ write' = 0
    /\ pc' = "getStatus"
    /\ UNCHANGED <<poll, inputs, events, acl2Data, outputs, dev>>

(* Mutant: STATUS is read twice and the second value is used.              *)
StatusReadTwice ==
    /\ pc = "getStatus"
    /\ statusReg' = ACL2c_getStatus(DevStatusRead(dev))
    /\ dev' = DevStatusRead(dev)
    /\ pc' = "handleStatus"
    /\ UNCHANGED <<poll, write, inputs, mode, cntActive, cntInactive, acl2Device,
                   acl2Data, outputs>>

getStatus ==
    /\ pc = "getStatus"
    /\ statusReg' = ACL2c_getStatus(dev)
    /\ dev' = DevStatusRead(dev)
    /\ pc' = "handleStatus"
    /\ UNCHANGED <<poll, write, inputs, mode, cntActive, cntInactive, acl2Device,
                   acl2Data, outputs>>

(* In linked mode an event starts its counter and fetches a sample; in any *)
(* other mode a new sample is fetched when there is one.                   *)
TakeSample(take) == /\ acl2Data' = IF take THEN ACL2c_getSample(dev) ELSE acl2Data
                    /\ dev' = IF take THEN DevDataRead(dev) ELSE dev

handleStatus ==
    /\ pc = "handleStatus"
    /\ IF operatingMode = "LINK"
       THEN /\ cntActive' = IF "ACT" \in statusReg THEN CNT_START ELSE cntActive
            /\ cntInactive' = IF "INACT" \in statusReg THEN CNT_START ELSE cntInactive
            /\ TakeSample({"ACT", "INACT"} \cap statusReg # {})
       ELSE /\ UNCHANGED <<cntActive, cntInactive>>
            /\ TakeSample("DATA_READY" \in statusReg)
    /\ pc' = "updateSSD"
    /\ UNCHANGED <<poll, write, inputs, mode, statusReg, acl2Device, outputs>>

-----------------------------------------------------------------------------
(* The sensor's own steps, and a reset of the processor, which the sensor  *)
(* does not take part in.                                                  *)

SensorEvent ==
    /\ dev' \in DevEvents(dev)
    /\ UNCHANGED <<pc, poll, write, inputs, mode, events, acl2Device, acl2Data, outputs>>

ProcessorReset ==
    /\ pc' = "updateSSD" /\ poll' = 0 /\ write' = 0
    /\ operatingMode' = "NONE" /\ acl2IsConfigured' = "NEVERCONFIGURED"
    /\ switchesRead' = {} /\ buttonsRead' = {}
    /\ statusReg' = {} /\ cntActive' = CntDone /\ cntInactive' = CntDone
    /\ ssdDigitRight' = 0 /\ ssdDigitLeft' = 0
    /\ acl2Device' = ACL2c_begin /\ acl2Data' = "zero"
    /\ ledUpdate' = [l \in Leds |-> "off"]
    /\ clsUpdate' = NoLines /\ comString' = NoLines
    /\ ssdRegs' = [right |-> 0, left |-> 0]
    /\ dev' = [dev EXCEPT !.busy = FALSE]

Task == \/ updateSSD \/ updateLedsDisplayMode \/ updateLedsStatuses
        \/ updateClsDisplayAndTerminal \/ updateLedsEvents
        \/ readUserInputs \/ presetLinkedMode
        \/ operateFSM_reset \/ operateFSM_keep \/ operateFSM_leave
        \/ resetDelay \/ configureWrite \/ configureDone
        \/ getStatus \/ handleStatus

Next == Task \/ SensorEvent \/ ProcessorReset

Spec == Init /\ [][Next]_vars

(* The processor stays up, the master task, of the highest priority, runs. *)
FairSpec == Init /\ [][Task \/ SensorEvent]_vars /\ WF_vars(Task)

-----------------------------------------------------------------------------
(* Properties.                                                             *)

LineType == [form: {"text", "data"}, of: Samples \cup {"blank"}, range: {0, 2, 4, 8}]

Colors == {"off", "on", "green", "red", "blue", "white", "magenta", "dim red"}

PcType == {"updateSSD", "updateLedsDisplayMode", "updateLedsStatuses",
           "updateClsDisplayAndTerminal", "updateLedsEvents", "readUserInputs",
           "presetLinkedMode", "operateFSM", "resetDelay", "configure",
           "getStatus", "handleStatus"}

(* Every variable holds a value of its type.                               *)
TypeOK ==
    /\ pc \in PcType /\ poll \in 0..Polls /\ write \in 0..6
    /\ operatingMode \in Modes /\ acl2IsConfigured \in ConfigStates
    /\ switchesRead \in SUBSET (0..3) /\ buttonsRead \in SUBSET (0..3)
    /\ statusReg \in SUBSET StatusBits
    /\ cntActive \in 0..CntDone /\ cntInactive \in 0..CntDone
    /\ ssdDigitRight \in 0..DigitMax /\ ssdDigitLeft \in 0..DigitMax
    /\ acl2Device \in DriverType /\ acl2Data \in Samples
    /\ ledUpdate \in [Leds -> Colors]
    /\ clsUpdate \in LineType /\ comString \in LineType
    /\ ssdRegs \in [right: 0..127, left: 0..127]
    /\ dev \in DevType

(* What the threshold registers hold in each mode: the constants of the    *)
(* measurement mode, or one column of each preset table, not truncated.    *)
MeasureThresholds == ACL2c_configureMeasureMode[1].val

PresetThresholds ==
    {[act        |-> c_thresh_presets_active(i).thresh,
      actTimer   |-> c_thresh_presets_active(i).timer,
      inact      |-> c_thresh_presets_inactive(j).thresh,
      inactTimer |-> c_thresh_presets_inactive(j).timer] : i, j \in 0..DigitMax}

CompletelyConfigured(d, m) ==
    /\ ~d.busy /\ d.power = "measure" /\ d.filter = 2
    /\ \/ m = "MEAS" /\ d.ctl = "absolute" /\ d.thresh = MeasureThresholds
       \/ m = "LINK" /\ d.ctl = "linked"   /\ d.thresh \in PresetThresholds

(* The operating mode the task displays and acts on is the mode the sensor *)
(* runs in, with all the registers of that mode, none of them lost in the  *)
(* soft reset, truncated, or left from the configuration before.           *)
ModeMatchesSensor ==
    operatingMode \in {"MEAS", "LINK"} => CompletelyConfigured(dev, operatingMode)

(* Whatever was interrupted, a processor reset in the middle of a          *)
(* configuration included, the sensor measures only when the registers of  *)
(* one mode were all written: POWER_CTL is the last write.                 *)
NoPartialMeasurement ==
    dev.power = "measure" => \E m \in {"MEAS", "LINK"} : CompletelyConfigured(dev, m)

(* The two variables that say whether a mode is running agree at every     *)
(* point of the loop, in the middle of a configuration too.                *)
ConfiguredIffRunning ==
    acl2IsConfigured = "CONFIGURED" <=> operatingMode \in {"MEAS", "LINK"}

(* A sample is never taken from a sensor in reset or standby, so no text   *)
(* shows the reset values of the data registers as a reading.              *)
SampleWasMeasured == acl2Data \in {"zero", "absolute", "linked"}

(* Text in g is formatted with the range the sensor measures in, never     *)
(* with the unset range for which the conversion returns zero.             *)
TextHasRange ==
    \A line \in {clsUpdate, comString} :
        line.form = "text" /\ line.of # "blank" => line.range = dev.filter /\ line.range = 2

TurnsGreen(led) == ledUpdate[led] # "green" /\ ledUpdate'[led] = "green"

(* The event LEDs turn green only in the iteration that read the event, in *)
(* linked mode; an old event never lights them a second time.              *)
GreenOnlyOnEvent ==
    [][/\ TurnsGreen(ActiveLed) => operatingMode = "LINK" /\ "ACT" \in statusReg
       /\ TurnsGreen(InactiveLed) => operatingMode = "LINK" /\ "INACT" \in statusReg]_vars

(* An activity event that the sensor reports in linked mode is shown by    *)
(* the green LED, unless the mode is left first.                           *)
ActivityIsShown ==
    (operatingMode = "LINK" /\ "ACT" \in dev.status)
        ~> (operatingMode # "LINK" \/ ledUpdate[ActiveLed] = "green")

(* The indication of an event ends: without further events the LED does    *)
(* not stay green.                                                         *)
IndicationEnds ==
    []<>(operatingMode = "LINK" /\ "ACT" \in statusReg) \/ []<>(ledUpdate[ActiveLed] # "green")

(* From a state in which no mode runs, a switch that stays on brings its   *)
(* mode up, and taking the switches off takes the mode down.               *)
SelectionTakesEffect ==
    /\ \A m \in {"MEAS", "LINK"} :
          [](acl2IsConfigured # "CONFIGURED" /\ [](SelectedMode = m) => <>(operatingMode = m))
    /\ []([](SelectedMode = "none") => <>(operatingMode \notin {"MEAS", "LINK"}))

(* Experiment.c:179: "Change in switches 0,1 cause change of mode."        *)
ModeFollowsSwitches ==
    pc = "updateSSD" /\ SelectedMode # "none" => operatingMode = SelectedMode

(* Experiment.c:609-612: "the configuration of the Pmod ACL2 uses the      *)
(* preset index matching the SSD display", whose right digit selects the   *)
(* inactivity preset.                                                      *)
PresetsMatchDisplay ==
    pc = "operateFSM" =>
        /\ acl2Device.activeThresh = c_thresh_presets_active(ssdDigitLeft).thresh
        /\ acl2Device.inactiveThresh = c_thresh_presets_inactive(ssdDigitRight).thresh
=============================================================================
