------------------------- MODULE ExperimentProofs -------------------------
(***************************************************************************)
(* The safety invariants of module Experiment, proved for every Board and  *)
(* every value of the other constants.                                     *)
(*                                                                         *)
(* None of them is inductive by itself.  The inductive invariant adds what *)
(* the program relies on without ever saying so: the sensor is busy only   *)
(* during the delay (Phase), the write under way tells which registers are *)
(* in place (Progress), the sensor has something to report only while it   *)
(* measures (Sensor), and the driver's fields are one column of the preset *)
(* tables from presetLinkedMode to the end of a configuration (Driver).    *)
(***************************************************************************)
EXTENDS Experiment, TLAPS

Configuring == pc \in {"resetDelay", "configure"}

LinkThresholds(acl2) == [act        |-> acl2.activeThresh,
                         actTimer   |-> acl2.activeTimer,
                         inact      |-> acl2.inactiveThresh,
                         inactTimer |-> acl2.inactiveTimer]

SelectedThresholds == IF SelectedMode = "MEAS" THEN MeasureThresholds
                      ELSE LinkThresholds(acl2Device)

SelectedControl == IF SelectedMode = "MEAS" THEN "absolute" ELSE "linked"

Phase ==
    /\ dev.busy => pc = "resetDelay"
    /\ pc = "resetDelay" => dev = DevAfterReset
    /\ Configuring => SelectedMode # "none" /\ acl2IsConfigured # "CONFIGURED"

Polling == pc = "readUserInputs" => poll < Polls

Progress ==
    pc = "configure" =>
        /\ write \in 1..6
        /\ write >= 2 => dev.thresh = SelectedThresholds
        /\ write >= 3 => dev.ctl = SelectedControl
        /\ dev.power = IF write = 6 THEN "measure" ELSE "standby"

Sensor ==
    /\ dev.filter = 2
    /\ dev.status # {} => dev.power = "measure"
    /\ pc = "handleStatus" /\ statusReg # {} => dev.power = "measure"

Driver ==
    /\ acl2Device.range = 2 \/ (acl2Device.range = 0 /\ acl2IsConfigured = "NEVERCONFIGURED")
    /\ pc = "operateFSM" \/ Configuring => LinkThresholds(acl2Device) \in PresetThresholds

IInv == /\ TypeOK /\ Phase /\ Polling /\ Progress /\ Sensor /\ Driver
        /\ ModeMatchesSensor /\ NoPartialMeasurement /\ ConfiguredIffRunning
        /\ SampleWasMeasured /\ TextHasRange

-----------------------------------------------------------------------------
(* Facts about the tables, the layouts and the sensor.                     *)

(* A threshold of eleven bits is stored as it was written.                 *)
LEMMA FittingWrite ==
    ASSUME NEW t \in Thresholds, t.act % 2048 = t.act, t.inact % 2048 = t.inact
    PROVE  Stored(t) = t
  BY DEF Stored, Thresholds

(* A column of the preset tables fits the threshold registers: writing it  *)
(* to the sensor, whose high bytes have three bits, does not change it.    *)
LEMMA PresetsFit ==
    ASSUME NEW t \in PresetThresholds
    PROVE  /\ t \in Thresholds
           /\ Stored(t) = t
<1>1. PICK i \in 0..DigitMax, j \in 0..DigitMax :
         t = [act        |-> c_thresh_presets_active(i).thresh,
              actTimer   |-> c_thresh_presets_active(i).timer,
              inact      |-> c_thresh_presets_inactive(j).thresh,
              inactTimer |-> c_thresh_presets_inactive(j).timer]
  BY DEF PresetThresholds
<1>2. i \in 0..9 /\ j \in 0..9
  BY DigitAssumption
<1>3. t = [act |-> 32 * (i + 1), actTimer |-> 16 * (i + 1),
           inact |-> 16 * (j + 1), inactTimer |-> 32 * (j + 1)]
  BY <1>1, <1>2 DEF c_thresh_presets_active, c_thresh_presets_inactive, PresetColumn
<1>4. (32 * (i + 1)) % 2048 = 32 * (i + 1) /\ (16 * (j + 1)) % 2048 = 16 * (j + 1)
  BY <1>2
<1>5. t \in Thresholds /\ t.act % 2048 = t.act /\ t.inact % 2048 = t.inact
  BY <1>2, <1>3, <1>4 DEF Thresholds
<1> QED
  BY <1>5, FittingWrite

(* The constants of the measurement mode fit as well.                      *)
LEMMA MeasureFits ==
    /\ MeasureThresholds = [act |-> 20, actTimer |-> 100, inact |-> 16, inactTimer |-> 100]
    /\ MeasureThresholds \in Thresholds
    /\ Stored(MeasureThresholds) = MeasureThresholds
<1>1. MeasureThresholds = [act |-> 20, actTimer |-> 100, inact |-> 16, inactTimer |-> 100]
  BY DEF MeasureThresholds, ACL2c_configureMeasureMode, Write
<1>2. MeasureThresholds \in Thresholds
  BY <1>1 DEF Thresholds
<1>3. /\ MeasureThresholds.act % 2048 = MeasureThresholds.act
      /\ MeasureThresholds.inact % 2048 = MeasureThresholds.inact
  BY <1>1
<1> QED
  BY <1>1, <1>2, <1>3, FittingWrite

(* What presetLinkedMode stores is a column of the preset tables.          *)
LEMMA PresetColumnStored ==
    ASSUME NEW i \in 0..DigitMax
    PROVE  /\ c_thresh_presets_active(i).timer % 256 = c_thresh_presets_active(i).timer
           /\ c_thresh_presets_active(i).thresh \in Nat
           /\ c_thresh_presets_active(i).timer \in Nat
           /\ c_thresh_presets_inactive(i).thresh \in Nat
           /\ c_thresh_presets_inactive(i).timer \in Nat
<1>1. i \in 0..9
  BY DigitAssumption
<1> QED
  BY <1>1 DEF c_thresh_presets_active, c_thresh_presets_inactive, PresetColumn

(* The five writes of the configuration of either mode.                    *)
LEMMA ConfigurationWrites ==
    /\ Len(Configuration) = 5
    /\ Configuration[1] = Write("thresh", SelectedThresholds)
    /\ Configuration[2] = Write("ctl", SelectedControl)
    /\ Configuration[3] = Write("fifo", "off")
    /\ Configuration[4] = Write("filter", 2)
    /\ Configuration[5] = Write("power", "measure")
<1>1. CASE SelectedMode = "MEAS"
  BY <1>1, MeasureFits DEF Configuration, ACL2c_configureMeasureMode, SelectedThresholds,
                           SelectedControl, Write
<1>2. CASE SelectedMode # "MEAS"
  BY <1>2 DEF Configuration, ACL2c_configureLinkedMode, SelectedThresholds,
              SelectedControl, LinkThresholds, Write
<1> QED
  BY <1>1, <1>2

(* Every digit has a segment code of seven bits.                           *)
LEMMA SegmentCodes ==
    ASSUME NEW v \in 0..DigitMax
    PROVE  convertValueToSSD(v) \in 0..127
<1>1. v \in 0..9
  BY DigitAssumption
<1> QED
  BY <1>1 DEF convertValueToSSD

(* The status LEDs of every program are on or off.                         *)
LEMMA StatusLedColors ==
    ASSUME NEW l \in DOMAIN statusLeds
    PROVE  statusLeds[l] \in Colors
<1>1. ASSUME NEW k \in 4..7 PROVE statusLedsMB[k] \in Colors
  BY Zenon DEF statusLedsMB, Lit, Colors
<1>2. CASE Board = "MB"
  BY <1>1, <1>2 DEF statusLeds, statusLedsMB
<1>3. CASE Board = "S7"
  <2>1. l \in 2..5 /\ statusLeds[l] = statusLedsMB[l + 2]
    BY <1>3 DEF statusLeds, statusLedsS7
  <2> QED
    BY <1>1, <2>1
<1>4. CASE Board = "Zynq"
  BY <1>4, Zenon DEF statusLeds, statusLedsZynq, Lit, Colors
<1> QED
  BY <1>2, <1>3, <1>4, BoardAssumption

(* What a register write leaves of the record that describes the sensor.   *)
LEMMA WriteEffect ==
    ASSUME NEW d \in DevType, ~d.busy, NEW val
    PROVE  /\ DevWrite(d, Write("thresh", val)) = [d EXCEPT !.thresh = Stored(val)]
           /\ DevWrite(d, Write("ctl", val)) = [d EXCEPT !.ctl = val]
           /\ DevWrite(d, Write("fifo", val)) = [d EXCEPT !.fifo = val]
           /\ DevWrite(d, Write("filter", val)) = [d EXCEPT !.filter = val]
           /\ DevWrite(d, Write("power", val)) = [d EXCEPT !.power = val]
           /\ DevWrite(d, ACL2c_reset) = DevAfterReset
  BY DEF DevWrite, Write, ACL2c_reset

(* The register file after power on or a reset.                            *)
LEMMA DefaultFacts ==
    /\ DevDefault \in DevType /\ DevDefault.power = "standby" /\ DevDefault.filter = 2
    /\ DevDefault.status = {} /\ ~DevDefault.busy
  BY DEF DevDefault, DevType, NoThresholds, Thresholds

-----------------------------------------------------------------------------
(* The invariant holds initially.                                          *)

LEMMA InitIInv == Init => IInv
<1> SUFFICES ASSUME Init PROVE IInv
  OBVIOUS
<1> USE DEF Init, InitData
<1>1. dev \in DevType /\ dev = DevDefault
  BY DEF DevType, DevDefault, NoThresholds, Thresholds
<1>2. TypeOK
  BY <1>1, DigitAssumption, CountAssumption
     DEF TypeOK, PcType, Modes, ConfigStates, DriverType, ACL2c_begin, Samples,
         Colors, NoLines, LineType
<1>3. SelectedMode = "none" /\ acl2Device.range = 0
  BY DEF SelectedMode, ACL2c_begin
<1>4. Phase /\ Polling /\ Progress /\ Sensor /\ Driver
  BY <1>1, <1>3 DEF Phase, Polling, Progress, Sensor, Driver, Configuring, DevDefault
<1>5. ModeMatchesSensor /\ NoPartialMeasurement /\ ConfiguredIffRunning
  BY <1>1 DEF ModeMatchesSensor, NoPartialMeasurement, ConfiguredIffRunning, DevDefault
<1>6. SampleWasMeasured /\ TextHasRange
  BY DEF SampleWasMeasured, TextHasRange, NoLines
<1> QED
  BY <1>2, <1>4, <1>5, <1>6 DEF IInv

-----------------------------------------------------------------------------
(* Steps of the task that leave the sensor, the mode and the driver alone. *)

(* All they can disturb are the types and the lines.                       *)
LEMMA QuietStep ==
    ASSUME IInv, TypeOK', Polling', TextHasRange',
           UNCHANGED <<operatingMode, acl2IsConfigured, acl2Device, acl2Data, dev>>,
           ~Configuring,
           pc' \notin {"operateFSM", "resetDelay", "configure", "handleStatus"}
    PROVE  IInv'
<1>1. Phase' /\ Progress'
  BY DEF IInv, Phase, Progress, Configuring
<1>2. Sensor' /\ Driver'
  BY DEF IInv, Sensor, Driver, Configuring
<1>3. ModeMatchesSensor' /\ NoPartialMeasurement'
  BY DEF IInv, ModeMatchesSensor, NoPartialMeasurement
<1>4. ConfiguredIffRunning' /\ SampleWasMeasured'
  BY DEF IInv, ConfiguredIffRunning, SampleWasMeasured
<1> QED
  BY <1>1, <1>2, <1>3, <1>4 DEF IInv

LEMMA StepUpdateSSD == IInv /\ updateSSD => IInv'
<1> SUFFICES ASSUME IInv, updateSSD PROVE IInv'
  OBVIOUS
<1> USE DEF updateSSD, inputs, mode, events
<1>1. ssdRegs' \in [right: 0..127, left: 0..127]
  BY SegmentCodes DEF IInv, TypeOK
<1>2. TypeOK'
  BY <1>1 DEF IInv, TypeOK, PcType
<1>3. TextHasRange'
  BY DEF IInv, TextHasRange
<1> QED
  BY <1>2, <1>3, QuietStep DEF Configuring, Polling

LEMMA StepDisplayMode == IInv /\ updateLedsDisplayMode => IInv'
<1> SUFFICES ASSUME IInv, updateLedsDisplayMode PROVE IInv'
  OBVIOUS
<1> USE DEF updateLedsDisplayMode, inputs, mode, events
<1>1. ledUpdate' \in [Leds -> Colors]
  BY Zenon DEF IInv, TypeOK, Colors
<1>2. TypeOK'
  BY <1>1, Zenon DEF IInv, TypeOK, PcType
<1>3. TextHasRange'
  BY Zenon DEF IInv, TextHasRange
<1> QED
  BY <1>2, <1>3, QuietStep, Zenon DEF Configuring, Polling

LEMMA StepStatuses == IInv /\ updateLedsStatuses => IInv'
<1> SUFFICES ASSUME IInv, updateLedsStatuses PROVE IInv'
  OBVIOUS
<1> USE DEF updateLedsStatuses, inputs, mode, events
<1>1. ledUpdate' \in [Leds -> Colors]
  BY StatusLedColors DEF IInv, TypeOK
<1>2. TypeOK'
  BY <1>1 DEF IInv, TypeOK, PcType
<1>3. TextHasRange'
  BY DEF IInv, TextHasRange
<1> QED
  BY <1>2, <1>3, QuietStep DEF Configuring, Polling

(* The lines take the range of the driver, which is the sensor's as soon   *)
(* as a mode runs.                                                         *)
LEMMA StepLines == IInv /\ updateClsDisplayAndTerminal => IInv'
<1> SUFFICES ASSUME IInv, updateClsDisplayAndTerminal PROVE IInv'
  OBVIOUS
<1> USE DEF updateClsDisplayAndTerminal, inputs, mode, events
<1>1. operatingMode \in {"MEAS", "LINK"} => acl2Device.range = 2
  BY DEF IInv, ConfiguredIffRunning, Driver
<1>2. /\ TextLines \in LineType /\ TextLines.form = "text"
      /\ TextLines.of # "blank" => TextLines.range = 2
  BY <1>1 DEF IInv, TypeOK, TextLines, LineType, DriverType
<1>3. DataLines \in LineType /\ DataLines.form = "data"
  BY <1>2 DEF DataLines, LineType
<1>4. {clsUpdate', comString'} \subseteq {TextLines, DataLines}
  OBVIOUS
<1>5. TypeOK'
  BY <1>2, <1>3, <1>4 DEF IInv, TypeOK, PcType
<1>6. TextHasRange'
  BY <1>2, <1>3, <1>4 DEF IInv, TextHasRange, Sensor
<1> QED
  BY <1>5, <1>6, QuietStep DEF Configuring, Polling

LEMMA StepEvents == IInv /\ updateLedsEvents => IInv'
<1> SUFFICES ASSUME IInv, updateLedsEvents PROVE IInv'
  OBVIOUS
<1> USE DEF updateLedsEvents, inputs, mode, events
<1>1. cntActive' \in 0..CntDone /\ cntInactive' \in 0..CntDone
  BY CountAssumption DEF IInv, TypeOK, timeEvent
<1>2. ledUpdate' \in [Leds -> Colors]
  BY Zenon DEF IInv, TypeOK, EventColor, Colors
<1>3. TypeOK'
  BY <1>1, <1>2, CountAssumption DEF IInv, TypeOK, PcType
<1>4. TextHasRange'
  BY DEF IInv, TextHasRange
<1> QED
  BY <1>3, <1>4, CountAssumption, QuietStep DEF Configuring, Polling

LEMMA StepInputs == IInv /\ readUserInputs => IInv'
<1> SUFFICES ASSUME IInv, readUserInputs PROVE IInv'
  OBVIOUS
<1> USE DEF readUserInputs, mode, events, outputs
<1>1. ssdDigitRight' \in 0..DigitMax /\ ssdDigitLeft' \in 0..DigitMax
  BY DigitAssumption DEF IInv, TypeOK, NextDigit
<1>2. switchesRead' \in SUBSET (0..3) /\ buttonsRead' \in SUBSET (0..3)
  BY InputAssumption
<1>3. poll' \in 0..Polls /\ Polling'
  BY CountAssumption DEF IInv, TypeOK, Polling
<1>4. TypeOK'
  BY <1>1, <1>2, <1>3 DEF IInv, TypeOK, PcType
<1>5. TextHasRange'
  BY DEF IInv, TextHasRange
<1> QED
  BY <1>3, <1>4, <1>5, QuietStep DEF Configuring

-----------------------------------------------------------------------------
(* The presets, and the steps of the main FSM.                             *)

LEMMA StepPresets == IInv /\ presetLinkedMode => IInv'
<1> SUFFICES ASSUME IInv, presetLinkedMode PROVE IInv'
  OBVIOUS
<1> USE DEF presetLinkedMode, inputs, mode, events, outputs
<1>1. ssdDigitLeft \in 0..DigitMax /\ ssdDigitLeft < 16 /\ ssdDigitRight < 16
  BY DigitAssumption DEF IInv, TypeOK
<1>2. acl2Device \in DriverType
  BY DEF IInv, TypeOK
<1> DEFINE A == c_thresh_presets_active(ssdDigitLeft)
           B == c_thresh_presets_inactive(ssdDigitLeft)
<1>3. /\ A.timer % 256 = A.timer /\ A.thresh \in Nat /\ A.timer \in Nat
      /\ B.thresh \in Nat /\ B.timer \in Nat
  BY <1>1, PresetColumnStored
<1>4. acl2Device' = [acl2Device EXCEPT !.activeThresh = A.thresh, !.activeTimer = A.timer,
                       !.inactiveThresh = B.thresh, !.inactiveTimer = B.timer]
  BY <1>1, <1>3
<1> HIDE DEF A, B
<1>5. /\ acl2Device' \in DriverType
      /\ acl2Device'.range = acl2Device.range
      /\ LinkThresholds(acl2Device') = [act |-> A.thresh, actTimer |-> A.timer,
                                        inact |-> B.thresh, inactTimer |-> B.timer]
  BY <1>2, <1>3, <1>4 DEF DriverType, LinkThresholds
<1>6. LinkThresholds(acl2Device') \in PresetThresholds
  BY <1>1, <1>5 DEF PresetThresholds, A, B
<1>7. TypeOK'
  BY <1>5 DEF IInv, TypeOK, PcType
<1>8. Driver'
  BY <1>5, <1>6 DEF IInv, Driver
<1>9. Phase' /\ Polling' /\ Progress' /\ Sensor'
  BY DEF IInv, Phase, Polling, Progress, Sensor, Configuring
<1>10. /\ ModeMatchesSensor' /\ NoPartialMeasurement' /\ ConfiguredIffRunning'
       /\ SampleWasMeasured' /\ TextHasRange'
  BY DEF IInv, ModeMatchesSensor, NoPartialMeasurement, ConfiguredIffRunning,
         SampleWasMeasured, TextHasRange
<1> QED
  BY <1>7, <1>8, <1>9, <1>10 DEF IInv

LEMMA StepReset == IInv /\ operateFSM_reset => IInv'
<1> SUFFICES ASSUME IInv, operateFSM_reset PROVE IInv'
  OBVIOUS
<1> USE DEF operateFSM_reset, inputs, mode, events, outputs
<1>1. ~dev.busy /\ dev \in DevType
  BY DEF IInv, TypeOK, Phase
<1>2. dev' = DevAfterReset
  BY <1>1, WriteEffect
<1>3. /\ DevAfterReset \in DevType /\ DevAfterReset.power = "standby"
      /\ DevAfterReset.filter = 2 /\ DevAfterReset.status = {} /\ DevAfterReset.busy
  BY DEF DevAfterReset, DevDefault, DevType, NoThresholds, Thresholds
<1>4. TypeOK'
  BY <1>2, <1>3 DEF IInv, TypeOK, PcType
<1>5. SelectedMode' = SelectedMode
  BY DEF SelectedMode
<1>6. Phase' /\ Polling' /\ Progress' /\ Driver'
  BY <1>2, <1>5 DEF IInv, Phase, Polling, Progress, Driver, Configuring
<1>7. Sensor'
  BY <1>2, <1>3 DEF Sensor
<1>8. ModeMatchesSensor' /\ NoPartialMeasurement' /\ ConfiguredIffRunning'
  BY <1>2, <1>3 DEF IInv, ModeMatchesSensor, NoPartialMeasurement, ConfiguredIffRunning
<1>9. SampleWasMeasured' /\ TextHasRange'
  BY <1>2, <1>3 DEF IInv, SampleWasMeasured, TextHasRange, Sensor
<1> QED
  BY <1>4, <1>6, <1>7, <1>8, <1>9 DEF IInv

LEMMA StepKeep == IInv /\ operateFSM_keep => IInv'
<1> SUFFICES ASSUME IInv, operateFSM_keep PROVE IInv'
  OBVIOUS
<1> USE DEF operateFSM_keep, inputs, mode, events, outputs
<1>1. TypeOK'
  BY DEF IInv, TypeOK, PcType
<1>2. TextHasRange' /\ Polling'
  BY DEF IInv, TextHasRange, Polling
<1> QED
  BY <1>1, <1>2, QuietStep DEF Configuring

LEMMA StepLeave == IInv /\ operateFSM_leave => IInv'
<1> SUFFICES ASSUME IInv, operateFSM_leave PROVE IInv'
  OBVIOUS
<1> USE DEF operateFSM_leave, inputs, events, outputs
<1>1. /\ operatingMode' \in {"NONE", "BOOT"}
      /\ acl2IsConfigured' \in {"NOTCONFIGURED", "NEVERCONFIGURED"}
      /\ acl2IsConfigured' = "NEVERCONFIGURED" <=> acl2IsConfigured = "NEVERCONFIGURED"
  BY DEF IInv, TypeOK, ConfigStates, NeverConfiguredMode
<1>2. TypeOK'
  BY <1>1 DEF IInv, TypeOK, PcType, Modes, ConfigStates
<1>3. Phase' /\ Polling' /\ Progress' /\ Sensor' /\ Driver'
  BY <1>1 DEF IInv, Phase, Polling, Progress, Sensor, Driver, Configuring
<1>4. ModeMatchesSensor' /\ NoPartialMeasurement' /\ ConfiguredIffRunning'
  BY <1>1 DEF IInv, ModeMatchesSensor, NoPartialMeasurement, ConfiguredIffRunning
<1>5. SampleWasMeasured' /\ TextHasRange'
  BY DEF IInv, SampleWasMeasured, TextHasRange
<1> QED
  BY <1>2, <1>3, <1>4, <1>5 DEF IInv

LEMMA StepDelay == IInv /\ resetDelay => IInv'
<1> SUFFICES ASSUME IInv, resetDelay PROVE IInv'
  OBVIOUS
<1> USE DEF resetDelay, inputs, mode, events, outputs
<1>1. dev' = [DevAfterReset EXCEPT !.busy = FALSE]
  BY DEF IInv, Phase
<1>2. dev' = DevDefault
  BY <1>1 DEF DevAfterReset, DevDefault
<1>3. /\ dev' \in DevType /\ dev'.power = "standby" /\ dev'.filter = 2
      /\ dev'.status = {} /\ ~dev'.busy
  BY <1>2, DefaultFacts
<1>4. SelectedMode' = SelectedMode
  BY DEF SelectedMode
<1>5. TypeOK'
  BY <1>3 DEF IInv, TypeOK, PcType
<1>6. Phase' /\ Polling' /\ Progress' /\ Sensor' /\ Driver'
  BY <1>3, <1>4 DEF IInv, Phase, Polling, Progress, Sensor, Driver, Configuring
<1>7. ModeMatchesSensor' /\ NoPartialMeasurement' /\ ConfiguredIffRunning'
  BY <1>3 DEF IInv, Phase, Configuring, ModeMatchesSensor, NoPartialMeasurement,
              ConfiguredIffRunning
<1>8. SampleWasMeasured' /\ TextHasRange'
  BY <1>3 DEF IInv, SampleWasMeasured, TextHasRange, Sensor
<1> QED
  BY <1>5, <1>6, <1>7, <1>8 DEF IInv

(* Each write puts one more register in place; the last one starts the     *)
(* measurement, with all the others there.                                 *)
LEMMA StepWrite == IInv /\ configureWrite => IInv'
<1> SUFFICES ASSUME IInv, configureWrite PROVE IInv'
  OBVIOUS
<1> USE DEF configureWrite, inputs, mode, events, outputs
<1>1. /\ write \in 1..5 /\ write' = write + 1
      /\ ~dev.busy /\ dev \in DevType /\ dev.filter = 2
      /\ SelectedMode # "none" /\ acl2IsConfigured # "CONFIGURED"
      /\ operatingMode \notin {"MEAS", "LINK"} /\ dev.power = "standby"
      /\ dev.status = {}
  BY ConfigurationWrites DEF IInv, Phase, Progress, Sensor, TypeOK, Configuring,
                             ConfiguredIffRunning
<1>2. /\ SelectedThresholds \in Thresholds /\ Stored(SelectedThresholds) = SelectedThresholds
      /\ SelectedMode = "LINK" => SelectedThresholds \in PresetThresholds
  BY <1>1, PresetsFit, MeasureFits DEF SelectedThresholds, IInv, Driver, Configuring, SelectedMode
<1>3. UNCHANGED <<SelectedMode, SelectedThresholds, SelectedControl, Configuring>>
  BY DEF SelectedMode, SelectedThresholds, SelectedControl, Configuring
<1>4. dev' = CASE write = 1 -> [dev EXCEPT !.thresh = SelectedThresholds]
               [] write = 2 -> [dev EXCEPT !.ctl = SelectedControl]
               [] write = 3 -> [dev EXCEPT !.fifo = "off"]
               [] write = 4 -> [dev EXCEPT !.filter = 2]
               [] write = 5 -> [dev EXCEPT !.power = "measure"]
  BY <1>1, <1>2, ConfigurationWrites, WriteEffect
<1>5. /\ dev' \in DevType /\ ~dev'.busy /\ dev'.filter = 2 /\ dev'.status = {}
      /\ dev'.thresh = IF write = 1 THEN SelectedThresholds ELSE dev.thresh
      /\ dev'.ctl = IF write = 2 THEN SelectedControl ELSE dev.ctl
      /\ dev'.power = IF write = 5 THEN "measure" ELSE "standby"
  BY <1>1, <1>2, <1>4 DEF DevType, SelectedControl
<1>6. TypeOK'
  BY <1>1, <1>5 DEF IInv, TypeOK
<1>7. Phase' /\ Polling'
  BY <1>1, <1>3, <1>5 DEF IInv, Phase, Polling, Configuring
<1>8. Progress'
  BY <1>1, <1>3, <1>5 DEF IInv, Progress
<1>9. Sensor' /\ Driver'
  BY <1>1, <1>5 DEF IInv, Sensor, Driver, Configuring
<1>10. ModeMatchesSensor' /\ ConfiguredIffRunning' /\ SampleWasMeasured' /\ TextHasRange'
  BY <1>1, <1>5 DEF IInv, ModeMatchesSensor, ConfiguredIffRunning, SampleWasMeasured, TextHasRange
<1>11. NoPartialMeasurement'
  <2>1. CASE write = 5
    <3>1. dev'.thresh = SelectedThresholds /\ dev'.ctl = SelectedControl
      BY <1>5, <2>1 DEF IInv, Progress
    <3>2. SelectedMode \in {"MEAS", "LINK"}
      BY <1>1 DEF SelectedMode
    <3>3. CompletelyConfigured(dev', SelectedMode)
      BY <1>2, <1>5, <2>1, <3>1, <3>2 DEF CompletelyConfigured, SelectedThresholds, SelectedControl
    <3> QED
      BY <3>2, <3>3 DEF NoPartialMeasurement
  <2>2. CASE write # 5
    BY <1>5, <2>2 DEF NoPartialMeasurement
  <2> QED
    BY <2>1, <2>2
<1> QED
  BY <1>6, <1>7, <1>8, <1>9, <1>10, <1>11 DEF IInv

LEMMA StepDone == IInv /\ configureDone => IInv'
<1> SUFFICES ASSUME IInv, configureDone PROVE IInv'
  OBVIOUS
<1> USE DEF configureDone, inputs, events, outputs
<1>1. /\ write = 6 /\ ~dev.busy /\ dev.filter = 2 /\ dev.power = "measure"
      /\ dev.thresh = SelectedThresholds /\ dev.ctl = SelectedControl
      /\ SelectedMode # "none"
  BY ConfigurationWrites DEF IInv, Phase, Progress, Sensor, Configuring
<1>2. operatingMode' = SelectedMode /\ SelectedMode \in {"MEAS", "LINK"}
  BY <1>1 DEF SelectedMode
<1>3. SelectedMode = "LINK" => SelectedThresholds \in PresetThresholds
  BY DEF SelectedThresholds, IInv, Driver, Configuring
<1>4. CompletelyConfigured(dev, SelectedMode)
  BY <1>1, <1>2, <1>3 DEF CompletelyConfigured, SelectedThresholds, SelectedControl
<1>5. acl2Device' \in DriverType /\ acl2Device'.range = 2
  BY <1>1 DEF IInv, TypeOK, DriverType, ACL2c_updateRange
<1>6. TypeOK'
  BY <1>2, <1>5 DEF IInv, TypeOK, PcType, Modes, ConfigStates
<1>7. Phase' /\ Polling' /\ Progress' /\ Sensor' /\ Driver'
  BY <1>1, <1>5 DEF IInv, Phase, Polling, Progress, Sensor, Driver, Configuring
<1>8. ModeMatchesSensor' /\ NoPartialMeasurement' /\ ConfiguredIffRunning'
  BY <1>2, <1>4 DEF ModeMatchesSensor, NoPartialMeasurement, ConfiguredIffRunning
<1>9. SampleWasMeasured' /\ TextHasRange'
  BY DEF IInv, SampleWasMeasured, TextHasRange
<1> QED
  BY <1>6, <1>7, <1>8, <1>9 DEF IInv

-----------------------------------------------------------------------------
(* Reading the sensor, and what the sensor and the processor do by         *)
(* themselves.                                                             *)

(* A change of the status bits alone keeps every fact about the registers. *)
LEMMA StatusOnly ==
    ASSUME NEW d \in DevType, NEW st \in SUBSET StatusBits
    PROVE  LET e == [d EXCEPT !.status = st]
           IN  /\ e \in DevType /\ e.status = st
               /\ e.busy = d.busy /\ e.filter = d.filter /\ e.power = d.power
               /\ \A m \in {"MEAS", "LINK"} :
                      CompletelyConfigured(d, m) => CompletelyConfigured(e, m)
  BY DEF DevType, CompletelyConfigured

LEMMA StepStatus == IInv /\ getStatus => IInv'
<1> SUFFICES ASSUME IInv, getStatus PROVE IInv'
  OBVIOUS
<1> USE DEF getStatus, inputs, mode, outputs
<1> DEFINE st == dev.status \ {"ACT", "INACT"}
<1>1. dev \in DevType /\ dev.status \in SUBSET StatusBits /\ st \in SUBSET StatusBits
  BY DEF IInv, TypeOK, DevType
<1>2. dev' = [dev EXCEPT !.status = st] /\ statusReg' = dev.status
  BY DEF DevStatusRead, ACL2c_getStatus
<1>3. /\ dev' \in DevType /\ dev'.status = st
      /\ dev'.busy = dev.busy /\ dev'.filter = dev.filter /\ dev'.power = dev.power
      /\ \A m \in {"MEAS", "LINK"} : CompletelyConfigured(dev, m) => CompletelyConfigured(dev', m)
  BY <1>1, <1>2, StatusOnly
<1>4. TypeOK'
  BY <1>1, <1>2, <1>3 DEF IInv, TypeOK, PcType
<1>5. Phase' /\ Polling' /\ Progress' /\ Sensor' /\ Driver'
  BY <1>2, <1>3 DEF IInv, Phase, Polling, Progress, Sensor, Driver, Configuring
<1>6. ModeMatchesSensor' /\ NoPartialMeasurement' /\ ConfiguredIffRunning'
  BY <1>3 DEF IInv, ModeMatchesSensor, NoPartialMeasurement, ConfiguredIffRunning
<1>7. SampleWasMeasured' /\ TextHasRange'
  BY <1>3 DEF IInv, SampleWasMeasured, TextHasRange
<1> QED
  BY <1>4, <1>5, <1>6, <1>7 DEF IInv

(* A sample is taken only on a status that the sensor cannot have reported *)
(* without measuring, and it measures only when completely configured.     *)
LEMMA StepHandle == IInv /\ handleStatus => IInv'
<1> SUFFICES ASSUME IInv, handleStatus PROVE IInv'
  OBVIOUS
<1> USE DEF handleStatus, inputs, mode, outputs
<1> DEFINE st == dev.status \ {"DATA_READY"}
<1>1. dev \in DevType /\ st \in SUBSET StatusBits /\ (dev.status = {} => st = {})
  BY DEF IInv, TypeOK, DevType
<1>2. dev' = dev \/ dev' = [dev EXCEPT !.status = st]
  BY DEF TakeSample, DevDataRead
<1>3. /\ dev' \in DevType /\ (dev.status = {} => dev'.status = {})
      /\ dev'.busy = dev.busy /\ dev'.filter = dev.filter /\ dev'.power = dev.power
      /\ \A m \in {"MEAS", "LINK"} : CompletelyConfigured(dev, m) => CompletelyConfigured(dev', m)
  <2>1. CASE dev' = dev
    BY <1>1, <2>1
  <2>2. CASE dev' = [dev EXCEPT !.status = st]
    BY <1>1, <2>2, StatusOnly
  <2> QED
    BY <1>2, <2>1, <2>2
<1>4. acl2Data' \in {"zero", "absolute", "linked"}
  <2>1. CASE statusReg = {}
    BY <2>1 DEF IInv, SampleWasMeasured, TakeSample
  <2>2. CASE statusReg # {}
    <3>1. dev.power = "measure" /\ dev.ctl \in {"absolute", "linked"}
      BY <2>2 DEF IInv, Sensor, NoPartialMeasurement, CompletelyConfigured
    <3>2. DevSample(dev) \in {"absolute", "linked"}
      BY <3>1 DEF DevSample
    <3> QED
      BY <3>2 DEF IInv, SampleWasMeasured, TakeSample, ACL2c_getSample
  <2> QED
    BY <2>1, <2>2
<1>5. cntActive' \in 0..CntDone /\ cntInactive' \in 0..CntDone
  BY CountAssumption DEF IInv, TypeOK, CNT_START
<1>6. TypeOK'
  BY <1>3, <1>4, <1>5 DEF IInv, TypeOK, PcType, Samples
<1>7. Phase' /\ Polling' /\ Progress' /\ Sensor' /\ Driver'
  BY <1>3 DEF IInv, Phase, Polling, Progress, Sensor, Driver, Configuring
<1>8. ModeMatchesSensor' /\ NoPartialMeasurement' /\ ConfiguredIffRunning'
  BY <1>3 DEF IInv, ModeMatchesSensor, NoPartialMeasurement, ConfiguredIffRunning
<1>9. SampleWasMeasured' /\ TextHasRange'
  BY <1>3, <1>4 DEF IInv, SampleWasMeasured, TextHasRange
<1> QED
  BY <1>6, <1>7, <1>8, <1>9 DEF IInv

LEMMA StepSensor == IInv /\ SensorEvent => IInv'
<1> SUFFICES ASSUME IInv, SensorEvent PROVE IInv'
  OBVIOUS
<1> USE DEF SensorEvent, inputs, mode, events, outputs
<1>1. dev \in DevType /\ dev.power = "measure"
  BY DEF IInv, TypeOK, DevEvents
<1>2. PICK st \in SUBSET StatusBits : dev' = [dev EXCEPT !.status = st]
  <2>1. dev.status \in SUBSET StatusBits
    BY <1>1 DEF DevType
  <2>2. \E st \in {dev.status \cup {"DATA_READY"}, dev.status \cup {"ACT", "AWAKE"},
                   (dev.status \cup {"INACT"}) \ {"AWAKE"}} : dev' = [dev EXCEPT !.status = st]
    BY DEF DevEvents
  <2> QED
    BY <2>1, <2>2 DEF StatusBits
<1>3. /\ dev' \in DevType
      /\ dev'.busy = dev.busy /\ dev'.filter = dev.filter /\ dev'.power = dev.power
      /\ \A m \in {"MEAS", "LINK"} : CompletelyConfigured(dev, m) => CompletelyConfigured(dev', m)
  BY <1>1, <1>2, StatusOnly
<1>4. dev'.thresh = dev.thresh /\ dev'.ctl = dev.ctl
  BY <1>1, <1>2 DEF DevType
<1>5. pc # "resetDelay"
  BY <1>1 DEF IInv, Phase, DevAfterReset, DevDefault
<1>6. UNCHANGED <<SelectedMode, SelectedThresholds, SelectedControl>>
  BY DEF SelectedMode, SelectedThresholds, SelectedControl
<1>7. TypeOK'
  BY <1>3 DEF IInv, TypeOK
<1>8. Phase' /\ Polling' /\ Progress'
  BY <1>3, <1>4, <1>5, <1>6 DEF IInv, Phase, Polling, Progress, Configuring
<1>9. Sensor' /\ Driver'
  BY <1>1, <1>3 DEF IInv, Sensor, Driver, Configuring
<1>10. ModeMatchesSensor' /\ NoPartialMeasurement' /\ ConfiguredIffRunning'
  BY <1>3 DEF IInv, ModeMatchesSensor, NoPartialMeasurement, ConfiguredIffRunning
<1>11. SampleWasMeasured' /\ TextHasRange'
  BY <1>3 DEF IInv, SampleWasMeasured, TextHasRange
<1> QED
  BY <1>7, <1>8, <1>9, <1>10, <1>11 DEF IInv

(* The processor starts again with the sensor as it was, measuring or not. *)
LEMMA StepProcessorReset == IInv /\ ProcessorReset => IInv'
<1> SUFFICES ASSUME IInv, ProcessorReset PROVE IInv'
  OBVIOUS
<1> USE DEF ProcessorReset
<1>1. dev \in DevType /\ dev.filter = 2 /\ dev' = [dev EXCEPT !.busy = FALSE]
  BY DEF IInv, TypeOK, Sensor
<1>2. /\ dev' \in DevType /\ ~dev'.busy /\ dev'.filter = 2
      /\ dev'.status = dev.status /\ dev'.power = dev.power
      /\ \A m \in {"MEAS", "LINK"} : CompletelyConfigured(dev, m) => CompletelyConfigured(dev', m)
  BY <1>1 DEF DevType, CompletelyConfigured
<1>3. TypeOK'
  BY <1>2, DigitAssumption, CountAssumption
     DEF TypeOK, PcType, Modes, ConfigStates, DriverType, ACL2c_begin, Samples,
         Colors, NoLines, LineType
<1>4. Phase' /\ Polling' /\ Progress'
  BY <1>2 DEF Phase, Polling, Progress, Configuring
<1>5. Sensor' /\ Driver'
  BY <1>2 DEF IInv, Sensor, Driver, Configuring, ACL2c_begin
<1>6. ModeMatchesSensor' /\ NoPartialMeasurement' /\ ConfiguredIffRunning'
  BY <1>2 DEF IInv, ModeMatchesSensor, NoPartialMeasurement, ConfiguredIffRunning
<1>7. SampleWasMeasured' /\ TextHasRange'
  BY DEF SampleWasMeasured, TextHasRange, NoLines
<1> QED
  BY <1>3, <1>4, <1>5, <1>6, <1>7 DEF IInv

-----------------------------------------------------------------------------
(* The theorems.                                                           *)

LEMMA NextIInv == IInv /\ [Next]_vars => IInv'
<1> SUFFICES ASSUME IInv, [Next]_vars PROVE IInv'
  OBVIOUS
<1>1. CASE Task
  BY <1>1, StepUpdateSSD, StepDisplayMode, StepStatuses, StepLines, StepEvents, StepInputs,
     StepPresets, StepReset, StepKeep, StepLeave, StepDelay, StepWrite, StepDone,
     StepStatus, StepHandle
     DEF Task
<1>2. CASE SensorEvent \/ ProcessorReset
  BY <1>2, StepSensor, StepProcessorReset
<1>3. CASE UNCHANGED vars
  <2>1. UNCHANGED <<Configuring, SelectedMode, SelectedThresholds, SelectedControl>>
    BY <1>3 DEF vars, inputs, Configuring, SelectedMode, SelectedThresholds, SelectedControl,
                LinkThresholds
  <2> QED
    BY <1>3, <2>1 DEF vars, inputs, mode, events, outputs, IInv, TypeOK, Phase, Polling,
       Progress, Sensor, Driver, ModeMatchesSensor, NoPartialMeasurement,
       ConfiguredIffRunning, SampleWasMeasured, TextHasRange
<1> QED
  BY <1>1, <1>2, <1>3 DEF Next

(* The inductive invariant, which all the others follow from.              *)
THEOREM Invariance == Spec => []IInv
  BY InitIInv, NextIInv, PTL DEF Spec

(* Every variable keeps its type, on every board.                          *)
THEOREM TypeCorrect == Spec => []TypeOK
<1>1. IInv => TypeOK
  BY DEF IInv
<1> QED
  BY <1>1, Invariance, PTL

(* Experiment_operateFSM: while a mode is displayed the sensor runs in it, *)
(* with every register of the mode as the driver meant it.                 *)
THEOREM ModeIsTheSensors == Spec => []ModeMatchesSensor
<1>1. IInv => ModeMatchesSensor
  BY DEF IInv
<1> QED
  BY <1>1, Invariance, PTL

(* Experiment_operateFSM: the operating mode and the state of the          *)
(* configuration change together in each of its branches.                  *)
THEOREM ModeAndStateAgree == Spec => []ConfiguredIffRunning
<1>1. IInv => ConfiguredIffRunning
  BY DEF IInv
<1> QED
  BY <1>1, Invariance, PTL

(* The order of the writes in ACL2c_configureMeasureMode and               *)
(* ACL2c_configureLinkedMode: the sensor never measures half configured.   *)
THEOREM MeasuresConfigured == Spec => []NoPartialMeasurement
<1>1. IInv => NoPartialMeasurement
  BY DEF IInv
<1> QED
  BY <1>1, Invariance, PTL

(* Experiment_operateFSM: what is shown was sampled from a sensor that     *)
(* measured at that moment.                                                *)
THEOREM ShowsMeasurements == Spec => []SampleWasMeasured
<1>1. IInv => SampleWasMeasured
  BY DEF IInv
<1> QED
  BY <1>1, Invariance, PTL

(* Experiment_updateClsDisplayAndTerminal: a text in g is converted with   *)
(* the range that the driver has read back from the sensor.                *)
THEOREM TextIsScaled == Spec => []TextHasRange
<1>1. IInv => TextHasRange
  BY DEF IInv
<1> QED
  BY <1>1, Invariance, PTL

-----------------------------------------------------------------------------
(* The event LEDs.  A counter that would light its LED, which is not green *)
(* yet, was started by the last reading of STATUS, and no other step of    *)
(* the loop comes between that reading and the LED.                        *)

Displaying == pc \in {"updateSSD", "updateLedsDisplayMode", "updateLedsStatuses",
                      "updateClsDisplayAndTerminal", "updateLedsEvents"}

Started(count, led, event) ==
    count + 1 < CntDone /\ ledUpdate[led] # "green" =>
        Displaying /\ operatingMode = "LINK" /\ event \in statusReg

EventInv == /\ TypeOK
            /\ Started(cntActive, ActiveLed, "ACT")
            /\ Started(cntInactive, InactiveLed, "INACT")

(* No program uses an event LED for anything else.                         *)
LEMMA EventLedsApart ==
    /\ ActiveLed \in Leds /\ InactiveLed \in Leds /\ ActiveLed # InactiveLed
    /\ ActiveLed \notin DOMAIN statusLeds /\ InactiveLed \notin DOMAIN statusLeds
    /\ Board = "MB" => {ActiveLed, InactiveLed} \cap {0, 1} = {}
<1>1. CASE Board = "MB"
  BY <1>1 DEF ActiveLed, InactiveLed, Leds, statusLeds, statusLedsMB
<1>2. CASE Board = "S7"
  BY <1>2 DEF ActiveLed, InactiveLed, Leds, statusLeds, statusLedsS7
<1>3. CASE Board = "Zynq"
  BY <1>3 DEF ActiveLed, InactiveLed, Leds, statusLeds, statusLedsZynq
<1> QED
  BY <1>1, <1>2, <1>3, BoardAssumption

(* The events function itself: where an LED turns green its counter had    *)
(* been started.                                                           *)
LEMMA EventsStep ==
    ASSUME EventInv, updateLedsEvents
    PROVE  /\ Started(cntActive, ActiveLed, "ACT")' /\ Started(cntInactive, InactiveLed, "INACT")'
           /\ TurnsGreen(ActiveLed) => operatingMode = "LINK" /\ "ACT" \in statusReg
           /\ TurnsGreen(InactiveLed) => operatingMode = "LINK" /\ "INACT" \in statusReg
<1>1. /\ cntActive \in Nat /\ cntInactive \in Nat /\ CntDone \in Nat
      /\ ledUpdate \in [Leds -> Colors]
  BY CountAssumption DEF EventInv, TypeOK
<1>2. /\ ledUpdate'[ActiveLed] = EventColor(cntActive')
      /\ ledUpdate'[InactiveLed] = EventColor(cntInactive')
  BY <1>1, EventLedsApart DEF updateLedsEvents
<1>3. /\ cntActive' = timeEvent(cntActive) /\ cntInactive' = timeEvent(cntInactive)
      /\ statusReg' = statusReg /\ operatingMode' = operatingMode
  BY DEF updateLedsEvents, mode
<1>4. Started(cntActive, ActiveLed, "ACT")' /\ Started(cntInactive, InactiveLed, "INACT")'
  BY <1>1, <1>2, <1>3 DEF Started, timeEvent, EventColor
<1>5. /\ TurnsGreen(ActiveLed) => operatingMode = "LINK" /\ "ACT" \in statusReg
      /\ TurnsGreen(InactiveLed) => operatingMode = "LINK" /\ "INACT" \in statusReg
  BY <1>1, <1>2, <1>3 DEF EventInv, Started, TurnsGreen, timeEvent, EventColor
<1> QED
  BY <1>4, <1>5

(* Every other step of the loop leaves the event LEDs alone, except for a  *)
(* processor reset, which turns them off.                                  *)
LEMMA OtherSteps ==
    ASSUME EventInv, TypeOK', [Next]_vars, ~updateLedsEvents
    PROVE  /\ Started(cntActive, ActiveLed, "ACT")' /\ Started(cntInactive, InactiveLed, "INACT")'
           /\ ~TurnsGreen(ActiveLed) /\ ~TurnsGreen(InactiveLed)
<1> USE EventLedsApart DEF EventInv, Started, TurnsGreen
<1> DEFINE Kept == /\ ledUpdate'[ActiveLed] = ledUpdate[ActiveLed]
                   /\ ledUpdate'[InactiveLed] = ledUpdate[InactiveLed]
<1>0. ledUpdate \in [Leds -> Colors] /\ CntDone \in Nat \ {0}
  BY CountAssumption DEF TypeOK
<1>1. CASE updateLedsDisplayMode
  <2>1. Kept
    BY <1>0, <1>1, Zenon DEF updateLedsDisplayMode
  <2> QED
    BY <1>1, <2>1, Zenon DEF updateLedsDisplayMode, mode, events, Displaying
<1>2. CASE updateLedsStatuses
  <2>1. Kept
    BY <1>0, <1>2 DEF updateLedsStatuses
  <2> QED
    BY <1>2, <2>1 DEF updateLedsStatuses, mode, events, Displaying
<1>3. CASE updateSSD \/ updateClsDisplayAndTerminal
  BY <1>3 DEF updateSSD, updateClsDisplayAndTerminal, mode, events, Displaying
<1>4. CASE readUserInputs \/ presetLinkedMode \/ operateFSM_reset \/ operateFSM_keep
  BY <1>4 DEF readUserInputs, presetLinkedMode, operateFSM_reset, operateFSM_keep, mode, events,
              outputs, Displaying
<1>5. CASE operateFSM_leave \/ resetDelay \/ configureWrite \/ configureDone \/ getStatus
  BY <1>5 DEF operateFSM_leave, resetDelay, configureWrite, configureDone, getStatus, events,
              outputs, Displaying
<1>6. CASE handleStatus
  <2>1. ~(cntActive + 1 < CntDone /\ ledUpdate[ActiveLed] # "green")
        /\ ~(cntInactive + 1 < CntDone /\ ledUpdate[InactiveLed] # "green")
    BY <1>6 DEF handleStatus, Displaying
  <2>2. /\ cntActive' # cntActive => operatingMode = "LINK" /\ "ACT" \in statusReg
        /\ cntInactive' # cntInactive => operatingMode = "LINK" /\ "INACT" \in statusReg
    BY <1>6 DEF handleStatus
  <2>3. pc' = "updateSSD" /\ UNCHANGED <<operatingMode, statusReg, ledUpdate>>
    BY <1>6 DEF handleStatus, mode, outputs
  <2> QED
    BY <2>1, <2>2, <2>3 DEF Displaying
<1>7. CASE SensorEvent
  BY <1>7 DEF SensorEvent, mode, events, outputs, Displaying
<1>8. CASE ProcessorReset
  <2>1. ledUpdate'[ActiveLed] = "off" /\ ledUpdate'[InactiveLed] = "off"
    BY <1>8 DEF ProcessorReset
  <2>2. cntActive' = CntDone /\ cntInactive' = CntDone
    BY <1>8 DEF ProcessorReset
  <2> QED
    BY <1>0, <2>1, <2>2
<1>9. CASE UNCHANGED vars
  BY <1>9 DEF vars, mode, events, outputs, Displaying
<1> QED
  BY <1>1, <1>2, <1>3, <1>4, <1>5, <1>6, <1>7, <1>8, <1>9 DEF Next, Task

(* Experiment_timeEvent and Experiment_updateLedsEvents: on every board an *)
(* event LED turns green only in the iteration that read its event, as the *)
(* counters stop at CNT_DONE for every CNT_DONE.                           *)
THEOREM GreenIsAnEvent == Spec => GreenOnlyOnEvent
<1>1. Init => EventInv
  <2>1. Init => cntActive = CntDone /\ cntInactive = CntDone /\ CntDone \in Nat
    BY CountAssumption DEF Init, InitData
  <2> QED
    BY <2>1, InitIInv DEF EventInv, Started, IInv
<1>2. EventInv /\ TypeOK' /\ [Next]_vars => EventInv'
  BY EventsStep, OtherSteps DEF EventInv
<1>3. EventInv /\ TypeOK' /\ [Next]_vars =>
        [/\ TurnsGreen(ActiveLed) => operatingMode = "LINK" /\ "ACT" \in statusReg
         /\ TurnsGreen(InactiveLed) => operatingMode = "LINK" /\ "INACT" \in statusReg]_vars
  BY EventsStep, OtherSteps
<1> QED
  BY <1>1, <1>2, <1>3, TypeCorrect, PTL DEF Spec, GreenOnlyOnEvent
=============================================================================
