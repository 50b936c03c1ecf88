----------------------------- MODULE AclTester ----------------------------
(***************************************************************************)
(* The hardware designs: the tester FSM (acl_tester_fsm), the driver of    *)
(* the Pmod ACL2 (pmod_acl2_stand_spi_solo), the SPI master below it as    *)
(* module StandSpi describes it, the FSM that collects the streamed bytes  *)
(* of a measurement (pmod_acl2_custom_driver), and the sensor.             *)
(*                                                                         *)
(* All of them are registers on one clock.  A step is one clock, in which  *)
(* every component takes the transition its own state and the outputs of   *)
(* the others in this clock call for.  The outputs (o_...) are functions   *)
(* of the present state, as in the code.                                   *)
(*                                                                         *)
(* The state of the driver is a pair <<at, op>>: the states of the code    *)
(* come in groups, one per transfer op, with the same steps in each.       *)
(***************************************************************************)
EXTENDS StandSpi, SequencesExt

CONSTANTS Presets,       \* the linked-mode tables the buttons may select
          BootTime,      \* clocks in BOOT0
          SwitchValues,  \* debounced switches: at most one is on
          SlowSwitches   \* between two switches the debouncer shows none for longer
                         \* than a configuration takes

ASSUME PresetsAssumption == Presets # {} /\ Presets \cap {"MM", "LM"} = {}
ASSUME BootAssumption == BootTime \in Nat \ {0, 1}
ASSUME SwitchAssumption == SwitchValues \subseteq {{}} \cup {{i} : i \in 0..3}
ASSUME TimingAssumption == SlowSwitches \in BOOLEAN

VARIABLES
    tester, mode,            \* the tester FSM and its two mode registers
    drv,                     \* the driver FSM
    cfg,                     \* the table in the driver's cfg0..cfg5 registers
    byteIndex, regStatus, bootTimer,
    stream, captured,        \* the stream FSM and its shift register
    data, dataValid,         \* the last measurement and its one-clock pulse
    switches,                \* the debounced switches
    int1, int2,              \* the debounced interrupts
    sensor                   \* the sensor's registers

testerVars == <<tester, mode>>
drvVars    == <<drv, cfg, byteIndex, regStatus, bootTimer>>
streamVars == <<stream, captured, data, dataValid>>
inputVars  == <<switches, int1, int2>>
vars == <<testerVars, drvVars, streamVars, inputVars, sensor, spiVars>>

-----------------------------------------------------------------------------
(* The transfers.                                                          *)

CfgOps   == {"CFG0", "CFG1", "CFG2", "CFG3", "CFG4", "CFG5"}
DataOps  == {"READ_MEASU", "READ_INACT0", "READ_ACT0"}
ClearOps == {"CLEAR_MEASU", "CLEAR_AWAKE0", "CLEAR_AWAKE1"}
ReadOps  == DataOps \cup ClearOps
WriteOps == CfgOps \cup {"SOFTRESET"}
Ops      == ReadOps \cup WriteOps

(* Bytes written after the command and the address, and bytes read.        *)
WriteLen(op) == CASE op = "CFG0" -> 7
                  [] op \in {"CFG2", "CFG3"} -> 2
                  [] op \in ReadOps -> 0
                  [] OTHER -> 1
ReadLen(op) == IF op \in DataOps THEN 8 ELSE IF op \in ClearOps THEN 1 ELSE 0

Byte(kind, pos) == [kind |-> kind, pos |-> pos, status |-> {}]
Command(op) == Byte(IF op \in ReadOps THEN "read" ELSE "write", 0)
Address(op) == Byte(CASE op \in DataOps -> "8reg" [] op \in ClearOps -> "stat"
                      [] OTHER -> op, 0)

(* What the six groups of registers hold in each mode.  Three groups are   *)
(* the same in both; the presets go in the first one.  The bytes of a      *)
(* group are told apart by their place, counted down.                      *)
Contents(op, c) == CASE op = "CFG0" -> c
                     [] op \in {"CFG1", "CFG3"} -> IF c = "MM" THEN "MM" ELSE "LM"
                     [] op = "SOFTRESET" -> "R"
                     [] OTHER -> "both"

WriteData(op, i) == Byte(Contents(op, cfg), i)

After(op) == CASE op = "CFG0" -> <<"CMD", "CFG1">>
               [] op = "CFG1" -> <<"CMD", "CFG2">>
               [] op = "CFG2" -> <<"CMD", "CFG3">>
               [] op = "CFG3" -> <<"CMD", "CFG4">>
               [] op = "CFG4" -> <<"CMD", "CFG5">>
               [] op = "CFG5" -> <<"IDLE1", "">>
               [] op = "READ_MEASU"  -> <<"CMD", "CLEAR_MEASU">>
               [] op = "READ_INACT0" -> <<"CMD", "CLEAR_AWAKE0">>
               [] op = "READ_ACT0"   -> <<"CMD", "CLEAR_AWAKE1">>
               [] op = "SOFTRESET"   -> <<"BOOT0", "">>
               [] OTHER -> <<"CHECK", op>>

-----------------------------------------------------------------------------
(* Outputs of the components in the present clock.                         *)

At == drv[1]
Op == drv[2]

o_command_ready == At \in {"IDLE0", "IDLE1"} /\ o_spi_idle

o_tx_enqueue == CASE At = "CMD"  -> <<Command(Op)>>
                  [] At = "ADDR" -> <<Address(Op)>>
                  [] At = "DATA" /\ Op \in WriteOps -> <<WriteData(Op, byteIndex)>>
                  [] OTHER -> << >>

o_go_stand == IF \/ At = "DATA" /\ Op \in WriteOps /\ byteIndex <= 1
                 \/ At = "ADDR" /\ Op \in ReadOps
              THEN Transfer(2 + WriteLen(Op), ReadLen(Op)) ELSE NoJob

o_rx_dequeue == At = "DATA" /\ Op \in ReadOps /\ o_rx_avail

o_rd_data_group_valid == At \in {"CMD", "ADDR", "DATA", "WAIT"} /\ Op \in DataOps
o_rd_data_byte_valid  == At = "DATA" /\ Op \in DataOps /\ rxData # << >>

o_cmd_init == CASE tester = "ST_1" -> "MM" [] tester = "ST_5" -> "LM" [] OTHER -> "none"
o_cmd_start == CASE tester = "ST_3" -> "MM" [] tester = "ST_7" -> "LM" [] OTHER -> "none"
o_cmd_soft_reset == tester = "ST_A"

-----------------------------------------------------------------------------
(* The tester FSM.                                                         *)

ST_0 ==
    /\ tester = "ST_0"
    /\ tester' = CASE o_command_ready /\ switches = {0} -> "ST_1"
                   [] o_command_ready /\ switches = {1} -> "ST_5"
                   [] OTHER -> "ST_0"
    /\ UNCHANGED mode

(* Hold the init command until the driver has taken it.                    *)
ST_init ==
    /\ tester \in {"ST_1", "ST_5"}
    /\ mode' = IF tester = "ST_1" THEN "measur" ELSE "linked"
    /\ tester' = IF o_command_ready THEN tester
                 ELSE IF tester = "ST_1" THEN "ST_2" ELSE "ST_6"

(* Wait for the end of the configuration.                                  *)
ST_configuring ==
    /\ tester \in {"ST_2", "ST_6"}
    /\ tester' = IF ~o_command_ready THEN tester
                 ELSE IF tester = "ST_2" THEN "ST_3" ELSE "ST_7"
    /\ UNCHANGED mode

(* Hold the start command until the driver has taken it.                   *)
ST_start ==
    /\ tester \in {"ST_3", "ST_7"}
    /\ tester' = IF o_command_ready THEN tester
                 ELSE IF tester = "ST_3" THEN "ST_4" ELSE "ST_8"
    /\ UNCHANGED mode

ST_started ==
    /\ tester \in {"ST_4", "ST_8"}
    /\ tester' = "ST_9"
    /\ UNCHANGED mode

(* Run until the debounced switches are all off.                           *)
ST_9 ==
    /\ tester = "ST_9"
    /\ tester' = IF switches = {} THEN "ST_A" ELSE "ST_9"
    /\ UNCHANGED mode

(* Hold the soft-reset command until the driver is back and ready.         *)
ST_A ==
    /\ tester = "ST_A"
    /\ tester' = IF o_command_ready THEN "ST_0" ELSE "ST_A"
    /\ mode' = "none"

Tester == ST_0 \/ ST_init \/ ST_configuring \/ ST_start \/ ST_started \/ ST_9 \/ ST_A

-----------------------------------------------------------------------------
(* The driver FSM.                                                         *)

(* Mutant: the driver does not wait for the sensor to boot.                *)
BootSkipped ==
    /\ At = "BOOT0"
    /\ drv' = <<"IDLE0", "">> /\ bootTimer' = 0
    /\ UNCHANGED <<cfg, byteIndex, regStatus>>

(* Mutant: the timer counts one too far.                                   *)
BootOneMore ==
    /\ At = "BOOT0"
    /\ IF bootTimer = BootTime
       THEN drv' = <<"IDLE0", "">> /\ bootTimer' = 0
       ELSE drv' = drv /\ bootTimer' = bootTimer + 1
    /\ UNCHANGED <<cfg, byteIndex, regStatus>>

drvBoot ==
    /\ At = "BOOT0"
    /\ IF bootTimer = BootTime - 1
       THEN drv' = <<"IDLE0", "">> /\ bootTimer' = 0
       ELSE drv' = drv /\ bootTimer' = bootTimer + 1
    /\ UNCHANGED <<cfg, byteIndex, regStatus>>

drvIdle0 ==
    /\ At = "IDLE0"
    /\ drv' = IF o_cmd_init = "none" THEN drv ELSE <<"INIT", o_cmd_init>>
    /\ UNCHANGED <<cfg, byteIndex, regStatus, bootTimer>>

(* Load the configuration registers with the table of the mode; the        *)
(* thresholds of linked mode are the presets selected in this clock.       *)
drvInit ==
    /\ At = "INIT"
    /\ \E preset \in Presets : cfg' = IF Op = "LM" THEN preset ELSE "MM"
    /\ drv' = <<"CMD", "CFG0">>
    /\ UNCHANGED <<byteIndex, regStatus, bootTimer>>

drvCommand ==
    /\ At = "CMD"
    /\ drv' = <<"ADDR", Op>>
    /\ UNCHANGED <<cfg, byteIndex, regStatus, bootTimer>>

drvAddress ==
    /\ At = "ADDR"
    /\ byteIndex' = IF Op \in ReadOps THEN ReadLen(Op) ELSE WriteLen(Op)
    /\ drv' = <<"DATA", Op>>
    /\ UNCHANGED <<cfg, regStatus, bootTimer>>

drvWriteData ==
    /\ At = "DATA" /\ Op \in WriteOps
    /\ byteIndex' = byteIndex - 1
    /\ drv' = IF byteIndex <= 1 THEN <<"WAIT", Op>> ELSE drv
    /\ UNCHANGED <<cfg, regStatus, bootTimer>>

drvReadData ==
    /\ At = "DATA" /\ Op \in ReadOps
    /\ IF rxData # << >>
       THEN /\ byteIndex' = byteIndex - 1
            /\ drv' = IF byteIndex <= 1 \/ Op \in ClearOps THEN <<"WAIT", Op>> ELSE drv
            /\ regStatus' = IF Op \in ClearOps THEN rxData[1].status ELSE regStatus
       ELSE UNCHANGED <<byteIndex, drv, regStatus>>
    /\ UNCHANGED <<cfg, bootTimer>>

(* Mutant: the driver does not wait for the end of the transfer.           *)
WaitForNothing ==
    /\ At = "WAIT"
    /\ drv' = After(Op)
    /\ UNCHANGED <<cfg, byteIndex, regStatus, bootTimer>>

drvWait ==
    /\ At = "WAIT"
    /\ drv' = IF o_spi_idle THEN After(Op) ELSE drv
    /\ UNCHANGED <<cfg, byteIndex, regStatus, bootTimer>>

(* Reading STATUS should have cleared the interrupt; otherwise read again, *)
(* whatever the tester commands.                                           *)
InterruptUp == IF Op = "CLEAR_AWAKE1" THEN int2 ELSE int1

drvCheck ==
    /\ At = "CHECK"
    /\ drv' = IF InterruptUp THEN <<"CMD", Op>>
              ELSE CASE Op = "CLEAR_MEASU"  -> <<"INT", "DR">>
                     [] Op = "CLEAR_AWAKE0" -> <<"INT", "AT2">>
                     [] OTHER               -> <<"INT", "AT1">>
    /\ UNCHANGED <<cfg, byteIndex, regStatus, bootTimer>>

drvIdle1 ==
    /\ At = "IDLE1"
    /\ drv' = CASE o_cmd_start = "LM" -> <<"INT", "AT1">>
                [] o_cmd_start = "MM" -> <<"INT", "DR">>
                [] OTHER -> drv
    /\ UNCHANGED <<cfg, byteIndex, regStatus, bootTimer>>

(* Mutant: each state of the linked mode looks at one interrupt only.      *)
WatchOneInterrupt ==
    /\ At = "INT"
    /\ drv' = IF o_cmd_soft_reset THEN <<"CMD", "SOFTRESET">>
              ELSE IF Op = "DR" THEN (IF int1 THEN <<"CMD", "READ_MEASU">> ELSE drv)
              ELSE IF Op = "AT1" THEN (IF int1 THEN <<"CMD", "READ_INACT0">> ELSE drv)
              ELSE IF int2 THEN <<"CMD", "READ_ACT0">> ELSE drv
    /\ UNCHANGED <<cfg, byteIndex, regStatus, bootTimer>>

(* Mutant: the interrupts go first.                                        *)
SoftResetLast ==
    /\ At = "INT"
    /\ drv' = IF Op = "DR" /\ int1 THEN <<"CMD", "READ_MEASU">>
              ELSE IF Op # "DR" /\ int1 /\ (Op = "AT1" \/ ~int2) THEN <<"CMD", "READ_INACT0">>
              ELSE IF Op # "DR" /\ int2 THEN <<"CMD", "READ_ACT0">>
              ELSE IF o_cmd_soft_reset THEN <<"CMD", "SOFTRESET">> ELSE drv
    /\ UNCHANGED <<cfg, byteIndex, regStatus, bootTimer>>

(* Wait for an interrupt or for the soft-reset command, which goes first.  *)
(* After an inactivity the driver looks at INT2 first, after an activity   *)
(* at INT1.                                                                *)
drvInterrupt ==
    /\ At = "INT"
    /\ drv' = IF o_cmd_soft_reset THEN <<"CMD", "SOFTRESET">>
              ELSE IF Op = "DR" THEN (IF int1 THEN <<"CMD", "READ_MEASU">> ELSE drv)
              ELSE IF int1 /\ (Op = "AT1" \/ ~int2) THEN <<"CMD", "READ_INACT0">>
              ELSE IF int2 THEN <<"CMD", "READ_ACT0">> ELSE drv
    /\ UNCHANGED <<cfg, byteIndex, regStatus, bootTimer>>

Driver == \/ drvBoot \/ drvIdle0 \/ drvInit \/ drvCommand \/ drvAddress \/ drvWriteData
          \/ drvReadData \/ drvWait \/ drvCheck \/ drvIdle1 \/ drvInterrupt

-----------------------------------------------------------------------------
(* The FSM that collects the bytes of a measurement.                       *)

streamWaitGroup ==
    /\ stream = "WAIT_GROUP"
    /\ captured' = << >> /\ dataValid' = FALSE
    /\ stream' = IF o_rd_data_group_valid THEN "WAIT_VALID" ELSE stream
    /\ UNCHANGED data

(* Mutant: the group is taken for complete one byte early.                 *)
CaptureSeven ==
    /\ stream = "WAIT_VALID"
    /\ dataValid' = FALSE
    /\ IF Len(captured) = 7 THEN stream' = "DONE_CYCLE" /\ UNCHANGED captured
       ELSE /\ captured' = IF o_rd_data_byte_valid THEN captured \o rxData ELSE captured
            /\ UNCHANGED stream
    /\ UNCHANGED data

streamWaitValid ==
    /\ stream = "WAIT_VALID"
    /\ dataValid' = FALSE
    /\ IF Len(captured) = 8 THEN stream' = "DONE_CYCLE" /\ UNCHANGED captured
       ELSE /\ captured' = IF o_rd_data_byte_valid THEN captured \o rxData ELSE captured
            /\ UNCHANGED stream
    /\ UNCHANGED data

streamDone ==
    /\ stream = "DONE_CYCLE"
    /\ IF o_rd_data_group_valid
       THEN dataValid' = FALSE /\ UNCHANGED <<stream, data>>
       ELSE stream' = "WAIT_GROUP" /\ data' = captured /\ dataValid' = TRUE
    /\ UNCHANGED captured

Stream == streamWaitGroup \/ streamWaitValid \/ streamDone

-----------------------------------------------------------------------------
(* The sensor (external): what its six groups of configuration registers   *)
(* hold, and its status bits.                                              *)

Tables == Presets \cup {"MM"}
Values == Tables \cup {"LM", "both"}

SensorDefault == [conf   |-> [op \in CfgOps |-> "reset"],
                  busy   |-> FALSE,
                  status |-> {}]

WriteFrame(op, value) ==
    <<Byte("write", 0), Byte(op, 0)>>
        \o [i \in 1..WriteLen(op) |-> Byte(value, WriteLen(op) + 1 - i)]

SoftReset == WriteFrame("SOFTRESET", "R")

(* A frame that is no write to a group leaves it alone when it is a write  *)
(* to another one, complete or cut off; otherwise what it holds is of no   *)
(* table.                                                                  *)
AfterFrame(s, f) ==
    LET Cut(op) == \E v \in Values : IsPrefix(f, WriteFrame(op, v))
        Spared(op) == Len(f) <= 2 \/ IsPrefix(f, SoftReset) \/ \E o \in CfgOps \ {op} : Cut(o)
        Written(op) == {v \in Values : f = WriteFrame(op, v)}
    IN  IF s.busy \/ f[1] = Byte("read", 0) THEN s
        ELSE IF f = SoftReset THEN [SensorDefault EXCEPT !.busy = TRUE]
        ELSE [s EXCEPT !.conf = [op \in CfgOps |->
                 IF Written(op) # {} THEN CHOOSE v \in Values : v \in Written(op)
                 ELSE IF Spared(op) THEN @[op] ELSE "mixed"]]

(* What the sensor answers in the present byte, and its effect: reading    *)
(* the data clears DATA_READY, reading STATUS clears the two events.       *)
Answer == IF frame[2] = Address("CLEAR_MEASU")
          THEN [kind |-> "status", pos |-> 1, status |-> sensor.status]
          ELSE Byte("sample", 9 - job.rx)
Cleared == IF frame[2] = Address("CLEAR_MEASU") THEN {"ACT", "INACT"} ELSE {"DATA_READY"}

Measuring == sensor.conf["CFG5"] # "reset"

MayComplete(event) == event = "DATA_READY" => sensor.conf["CFG1"] # "reset"

SensorStep ==
    \/ UNCHANGED sensor
    \/ sensor.busy /\ sensor' = [sensor EXCEPT !.busy = FALSE]
    \/ \E event \in {"DATA_READY", "ACT", "INACT"} :
          /\ Measuring /\ MayComplete(event)
          /\ sensor' = [sensor EXCEPT !.status = @ \cup {event}]

(* The part boots faster than the driver's BOOT0 lasts.                    *)
BootsInTime == At = "BOOT0" /\ bootTimer = BootTime - 2 => ~sensor'.busy

(* Interrupt lines: DATA_READY or INACT on INT1, ACT on INT2, as the       *)
(* interrupt maps of the two tables say.                                   *)
Pin1 == CASE sensor.conf["CFG3"] = "MM" -> "DATA_READY" \in sensor.status
          [] sensor.conf["CFG3"] = "LM" -> "INACT" \in sensor.status
          [] OTHER -> FALSE
Pin2 == sensor.conf["CFG3"] = "LM" /\ "ACT" \in sensor.status

-----------------------------------------------------------------------------
(* The bus and the inputs in one clock.                                    *)

BusHold    == SpiHold(o_tx_enqueue, o_go_stand, o_rx_dequeue) /\ SensorStep /\ BootsInTime
BusSend    == SpiSend(o_tx_enqueue, o_rx_dequeue) /\ UNCHANGED sensor
BusReceive == /\ SpiReceive(Answer, o_tx_enqueue, o_rx_dequeue)
              /\ sensor' = [sensor EXCEPT !.status = @ \ Cleared]
BusStop    == SpiStop(o_tx_enqueue, o_rx_dequeue) /\ sensor' = AfterFrame(sensor, frame)

BusMoves == BusSend \/ BusReceive \/ BusStop

Bus == BusHold \/ BusMoves

Configuring == tester \in {"ST_1", "ST_2", "ST_3", "ST_4", "ST_5", "ST_6", "ST_7", "ST_8"}

(* The debouncer shows no switch between two switches.                     *)
DebouncedSwitches ==
    \/ UNCHANGED switches
    \/ switches # {} /\ switches' = {}
    \/ switches = {} /\ ~(SlowSwitches /\ Configuring) /\ switches' \in SwitchValues

(* A debounced interrupt follows its line with some delay.                 *)
Inputs == /\ DebouncedSwitches
          /\ int1' \in {int1, Pin1}
          /\ int2' \in {int2, Pin2}

-----------------------------------------------------------------------------
InitLogic ==
    /\ tester = "ST_0" /\ mode = "none"
    /\ drv = <<"BOOT0", "">> /\ cfg = "none" /\ byteIndex = 0
    /\ regStatus = {} /\ bootTimer = 0
    /\ stream = "WAIT_GROUP" /\ captured = << >> /\ data = << >> /\ dataValid = FALSE
    /\ switches = {} /\ int1 = FALSE /\ int2 = FALSE
    /\ SpiInit

Init == InitLogic /\ sensor = SensorDefault

Clock == Tester /\ Driver /\ Stream /\ Inputs /\ Bus

(* The reset button resets the logic but not the sensor, nor the register  *)
(* of the pulse dataValid; a register write on the bus is cut off.         *)
Reset ==
    /\ tester' = "ST_0" /\ mode' = "none"
    /\ drv' = <<"BOOT0", "">> /\ cfg' = "none" /\ byteIndex' = 0
    /\ regStatus' = {} /\ bootTimer' = 0
    /\ stream' = "WAIT_GROUP" /\ captured' = << >> /\ data' = << >>
    /\ switches' = {} /\ int1' = FALSE /\ int2' = FALSE
    /\ UNCHANGED dataValid
    /\ SpiReset
    /\ sensor' = IF job.busy /\ frame # << >> THEN AfterFrame(sensor, frame) ELSE sensor

Next == Clock \/ Reset

Spec == Init /\ [][Next]_vars

(* The clock runs as long as a state machine has a step to take, a         *)
(* transfer goes on, and the debouncers follow their lines.  A step is a   *)
(* Clock, which all of them take together; fairness of each part alone is  *)
(* enough, as no part waits for another's step in the same clock.  Nothing *)
(* is assumed of the switches and the events of the sensor: each of these  *)
(* steps can be taken with the environment at rest.                        *)
FairSpec == /\ Init /\ [][Clock]_vars
            /\ WF_testerVars(Tester) /\ WF_drvVars(Driver) /\ WF_streamVars(Stream)
            /\ WF_spiVars(BusMoves)
            /\ WF_int1(int1' = Pin1) /\ WF_int2(int2' = Pin2)

-----------------------------------------------------------------------------
(* Properties.                                                             *)

States == {<<at, "">> : at \in {"BOOT0", "IDLE0", "IDLE1"}}
          \cup {<<"INIT", m>> : m \in {"MM", "LM"}}
          \cup ({"CMD", "ADDR", "DATA", "WAIT"} \X Ops)
          \cup {<<"CHECK", op>> : op \in ClearOps}
          \cup {<<"INT", w>> : w \in {"DR", "AT1", "AT2"}}

Status == SUBSET {"DATA_READY", "ACT", "INACT"}
SampleBytes == [i \in 1..8 |-> Byte("sample", i)]

(* Every variable holds a value of its type.                               *)
TypeOK ==
    /\ tester \in {"ST_0", "ST_1", "ST_2", "ST_3", "ST_4", "ST_5", "ST_6", "ST_7", "ST_8",
                   "ST_9", "ST_A"}
    /\ mode \in {"none", "measur", "linked"}
    /\ drv \in States /\ cfg \in Tables \cup {"none"}
    /\ byteIndex \in 0..8 /\ regStatus \in Status /\ bootTimer \in 0..(BootTime - 1)
    /\ stream \in {"WAIT_GROUP", "WAIT_VALID", "DONE_CYCLE"} /\ Len(captured) <= 8
    /\ dataValid \in BOOLEAN
    /\ switches \in SUBSET (0..3)
    /\ int1 \in BOOLEAN /\ int2 \in BOOLEAN
    /\ sensor.conf \in [CfgOps -> Values \cup {"reset", "mixed"}]
    /\ sensor.busy \in BOOLEAN /\ sensor.status \in Status
    /\ Len(txFifo) <= 9 /\ Len(rxFifo) <= 8 /\ Len(rxData) <= 1 /\ Len(frame) <= 9
    /\ job.busy \in BOOLEAN /\ job.tx \in 0..9 /\ job.rx \in 0..8

HoldsTable(c) == ~sensor.busy /\ sensor.conf = [op \in CfgOps |-> Contents(op, c)]

(* While the tester shows that a mode runs, all registers of the sensor    *)
(* hold the table of that mode, whatever mode ran before, and the          *)
(* driver is in the reading loop of that mode: the two FSMs, which see     *)
(* each other only through command_ready, are never in different modes.    *)
ModeMatchesSensor ==
    tester = "ST_9" =>
        \/ /\ mode = "measur" /\ HoldsTable("MM")
           /\ Op \in {"DR", "READ_MEASU", "CLEAR_MEASU"}
        \/ /\ mode = "linked" /\ \E t \in Presets : HoldsTable(t)
           /\ Op \in {"AT1", "AT2"} \cup (ReadOps \ {"READ_MEASU", "CLEAR_MEASU"})

(* Each transfer starts on an idle bus with the queues empty: no go is     *)
(* lost or cuts a transfer short, and no byte of one transfer is sent or   *)
(* taken as a byte of the next.                                            *)
TransfersAligned ==
    /\ o_go_stand.busy => o_spi_idle
    /\ At = "CMD" => txFifo = << >> /\ rxFifo = << >> /\ rxData = << >>
    /\ ~o_spi_idle => Len(txFifo) = job.tx

(* The measurement handed to the displays is the eight bytes of the data   *)
(* registers in their order, never part of them, nor shifted by a byte: the *)
(* collecting FSM is back for every group the driver streams.              *)
MeasurementWhole ==
    /\ data \in {<< >>, SampleBytes}
    /\ At = "CMD" /\ Op \in DataOps => stream = "WAIT_GROUP"

(* The driver reads STATUS again and again, and finds the interrupt up     *)
(* after each time: an event of the kind keeps coming before the last one  *)
(* is seen to be cleared, or a sample became ready after the data was      *)
(* read, which reading STATUS does not clear.                              *)
HeldByInterrupt == <>[](Op \in ClearOps) /\ []<>(At = "CHECK" /\ InterruptUp)

(* A switch that stays on brings its mode up for good, even when the       *)
(* switch was changed from the other one or while a mode came up; without  *)
(* a switch the design goes back to idle.  In measurement mode the samples *)
(* that keep becoming ready keep being handed to the displays.  The sensor *)
(* can prevent it in one way only, by never letting go of the interrupt.   *)
ModeFollowsSwitch ==
    \/ HeldByInterrupt
    \/ /\ <>[](switches = {0}) =>
             /\ <>[](tester = "ST_9" /\ mode = "measur")
             /\ []<>("DATA_READY" \in sensor.status) => []<>dataValid
       /\ <>[](switches = {1}) => <>[](tester = "ST_9" /\ mode = "linked")
       /\ <>[](switches = {}) => <>[](tester = "ST_0")

(* Each event of linked mode is in the status register the LEDs are driven *)
(* from after some reading of STATUS, also when both interrupts come at    *)
(* once, or the one being served does not fall.                            *)
EventsReported ==
    \A event \in {"ACT", "INACT"} :
        (tester = "ST_9" /\ mode = "linked" /\ event \in sensor.status)
            ~> (tester # "ST_9" \/ (At = "CHECK" /\ event \in regStatus))
=============================================================================
