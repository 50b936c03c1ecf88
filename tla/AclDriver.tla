----------------------------- MODULE AclDriver -----------------------------
(***************************************************************************)
(* PmodACL2custom.c byte by byte: every function of the driver as the SPI  *)
(* frames it sends, the chip-select pin it drives by hand, and the         *)
(* register file of the sensor that takes each byte as it comes.  Module   *)
(* PmodACL2custom is the same driver seen from the master task, a register *)
(* group at a time; ConfiguresAsSpecified ties the two together.           *)
(*                                                                         *)
(* The processor may be reset between any two bytes.  The sensor then      *)
(* keeps the bytes it has, and stays selected until ACL2c_begin.           *)
(***************************************************************************)
EXTENDS Integers, Sequences

CONSTANTS Readings,    \* what X, Y, Z and temperature may read: tuples of four
          Presets      \* what the master may put in the linked-mode fields

Byte  == 0..255
Level == 0..2047     \* a threshold has eleven bits
Word  == 0..65535
Value == -2048..2047 \* a reading has twelve, with the sign
Fields == [activeThresh: Level, activeTimer: Byte, inactiveThresh: Level, inactiveTimer: Word]

ASSUME ReadingsAssumption == Readings \subseteq [1..4 -> Value]
ASSUME PresetsAssumption == Presets \subseteq Fields

VARIABLES
    pc,          \* down, ready, select, transfer, ended
    acl2,        \* the driver's fields, the PmodACL2c object
    call,        \* the function under way and its argument
    frames,      \* the frames it still has to send, the present one first
    bytearray,   \* the buffer of the present frame, sent and received
    sent,        \* how many of its bytes are exchanged
    result,      \* what the last function returned
    prepared,    \* how far the caller is between a reset and a configuration
    selected,    \* the chip-select pin is low
    frame,       \* sensor: command and present address of the frame it is in
    regs,        \* sensor: the configuration registers
    status, booting,
    reading,     \* sensor: the last sample
    latched      \* sensor: the sample a frame reads

programVars == <<pc, acl2, call, frames, bytearray, sent, result, prepared>>
sensorVars  == <<frame, regs, status, booting, reading, latched>>
vars == <<programVars, selected, sensorVars>>

-----------------------------------------------------------------------------
(* Registers and commands.                                                 *)

STATUS        == 11
XDATA_L       == 14
TEMP_L        == 20
SOFT_RESET    == 31
THRESH_ACT_L  == 32
ACT_INACT_CTL == 39
FIFO_CONTROL  == 40
FILTER_CTL    == 44
POWER_CTL     == 45
DataPairs == {14, 16, 18, 20}

WRITE == 10
READ  == 11

Low(v)  == v % 256
High(v) == v \div 256

(* The sixteen bits of a signed number.                                    *)
Unsigned(v) == v % 65536

(* The buffer of a write and of a read; what a read sends after the        *)
(* address is ignored by the sensor.                                       *)
ACL2c_WriteSpi(reg, wData) == <<WRITE, reg>> \o wData
ACL2c_ReadSpi(reg, nData)  == <<READ, reg>> \o [i \in 1..nData |-> 0]

(* Mutant: the sign is not extended.                                       *)
RawUnsigned(low, high) == 256 * high + low

(* A register pair as a signed number of 16 bits.                          *)
ACL2c_RawToInt(low, high) ==
    LET data == 256 * high + low IN IF data >= 32768 THEN data - 65536 ELSE data

(* Mutant: the two bits themselves are stored.                             *)
RangeBits(filter) == filter \div 64

(* The two range bits of FILTER_CTL: 0xC0 and 0x80 are 8 g.                *)
RangeOf(filter) == CASE filter >= 128 -> 8
                   [] filter \in 64..127 -> 4
                   [] OTHER -> 2

(* Mutant: 4 g is set without clearing the upper bit first.                *)
OrRange(filter, newRange) ==
    CASE newRange = 2 -> filter % 64
      [] newRange = 4 -> IF (filter \div 64) % 2 = 1 THEN filter ELSE filter + 64
      [] newRange = 8 -> IF filter >= 128 THEN filter ELSE filter + 128
      [] OTHER -> filter

(* The value setRange writes back for the one it has read.                 *)
WithRange(filter, newRange) ==
    CASE newRange = 2 -> filter % 64
      [] newRange = 4 -> (filter % 64) + 64
      [] newRange = 8 -> IF filter >= 128 THEN filter ELSE filter + 128
      [] OTHER -> filter

(* A reading in thousandths of g.                                          *)
ACL2c_DataToG(range, data) ==
    CASE range = 2 -> data [] range = 4 -> 2 * data [] range = 8 -> 4 * data [] OTHER -> 0

-----------------------------------------------------------------------------
(* What the functions send.                                                *)

(* Without FIFO, range 2 g at 100 Hz, measurement on, then read the range. *)
CommonFrames == << ACL2c_WriteSpi(FIFO_CONTROL, <<0, 0>>),
                   ACL2c_WriteSpi(FILTER_CTL, <<19>>),
                   ACL2c_WriteSpi(POWER_CTL, <<34>>),
                   ACL2c_ReadSpi(FILTER_CTL, 1) >>

ACL2c_configureMeasureMode ==
    << ACL2c_WriteSpi(THRESH_ACT_L, <<20, 0, 100, 16, 0, 100, 0>>),
       ACL2c_WriteSpi(ACT_INACT_CTL, <<5>>) >> \o CommonFrames

(* Mutant: the inactivity timer is sent as one byte.                       *)
TimerInOneByte(o) ==
    << ACL2c_WriteSpi(THRESH_ACT_L,
           <<Low(o.activeThresh), High(o.activeThresh), o.activeTimer,
             Low(o.inactiveThresh), High(o.inactiveThresh), Low(o.inactiveTimer), 0>>),
       ACL2c_WriteSpi(ACT_INACT_CTL, <<31>>) >> \o CommonFrames

ACL2c_configureLinkedMode(o) ==
    << ACL2c_WriteSpi(THRESH_ACT_L,
           <<Low(o.activeThresh), High(o.activeThresh), o.activeTimer,
             Low(o.inactiveThresh), High(o.inactiveThresh),
             Low(o.inactiveTimer), High(o.inactiveTimer)>>),
       ACL2c_WriteSpi(ACT_INACT_CTL, <<31>>) >> \o CommonFrames

ACL2c_reset == << ACL2c_WriteSpi(SOFT_RESET, <<82>>) >>
ACL2c_getStatus == << ACL2c_ReadSpi(STATUS, 1) >>

(* Mutant: status and data are read in one burst.                          *)
BurstFromStatus == << ACL2c_ReadSpi(STATUS, 11) >>

ACL2c_getSample == << ACL2c_ReadSpi(XDATA_L, 8) >>
ACL2c_getData(start_reg) == << ACL2c_ReadSpi(start_reg, 2) >>
ACL2c_getTemp == ACL2c_getData(TEMP_L)
ACL2c_updateRange == << ACL2c_ReadSpi(FILTER_CTL, 1) >>

(* Read the register into temp, write it with the new range, read the      *)
(* range back.                                                             *)
ACL2c_setRange(newRange, temp) ==
    ACL2c_updateRange \o << ACL2c_WriteSpi(FILTER_CTL, <<WithRange(temp, newRange)>>) >>
                      \o ACL2c_updateRange

-----------------------------------------------------------------------------
(* The sensor (external): it takes a byte at a time.                       *)

ConfigRegisters == 32..45
NoSample == [i \in 1..4 |-> 0]
RegDefaults == [a \in ConfigRegisters |-> CASE a = FILTER_CTL -> 19 [] a = 41 -> 128 [] OTHER -> 0]

(* The high bytes of the two thresholds have three bits.                   *)
Width(a) == IF a \in {33, 36} THEN 8 ELSE 256

StatusByte == (IF "DATA_READY" \in status THEN 1 ELSE 0)
              + (IF "ACT" \in status THEN 16 ELSE 0) + (IF "INACT" \in status THEN 32 ELSE 0)

(* A byte of the sample that the frame reads.                              *)
DataByte(a) ==
    LET v == Unsigned(latched[(a - 14) \div 2 + 1]) IN IF a % 2 = 0 THEN Low(v) ELSE High(v)

(* What it answers at an address.                                          *)
RegByte(a) ==
    CASE a = STATUS -> StatusByte
      [] a \in 14..21 -> DataByte(a)
      [] a \in ConfigRegisters -> regs[a]
      [] OTHER -> 0

(* What it answers within a frame.                                         *)
Answer == IF Len(frame) = 2 /\ frame[1] = READ THEN RegByte(frame[2]) ELSE 0

Measuring == regs[POWER_CTL] % 4 = 2

ClearedBy(a) == CASE a = STATUS -> {"ACT", "INACT"}
                  [] a \in 14..21 -> {"DATA_READY"}
                  [] OTHER -> {}

(* It hears a byte.                                                        *)
Hears(byte) ==
    /\ UNCHANGED latched
    /\ IF Len(frame) < 2
       THEN /\ frame' = Append(frame, byte)
            /\ UNCHANGED <<regs, status, booting, reading>>
       ELSE /\ frame' = <<frame[1], frame[2] + 1>>
            /\ CASE frame[1] = READ ->
                      /\ status' = status \ ClearedBy(frame[2])
                      /\ UNCHANGED <<regs, booting, reading>>
                 [] booting -> UNCHANGED <<regs, status, booting, reading>>
                 [] frame[1] = WRITE /\ frame[2] = SOFT_RESET /\ byte = 82 ->
                      /\ regs' = RegDefaults /\ status' = {} /\ booting' = TRUE
                      /\ reading' = NoSample
                 [] frame[1] = WRITE /\ frame[2] \in ConfigRegisters ->
                      /\ regs' = [regs EXCEPT ![frame[2]] = byte % Width(frame[2])]
                      /\ UNCHANGED <<status, booting, reading>>
                 [] OTHER -> UNCHANGED <<regs, status, booting, reading>>

(* It measures, and detects the events that are enabled.                   *)
SensorEvent ==
    /\ Measuring /\ ~booting
    /\ \/ status' = status \cup {"DATA_READY"} /\ reading' \in Readings
       \/ /\ regs[ACT_INACT_CTL] % 2 = 1
          /\ status' = status \cup {"ACT"} /\ UNCHANGED reading
       \/ /\ (regs[ACT_INACT_CTL] \div 4) % 2 = 1
          /\ status' = status \cup {"INACT"} /\ UNCHANGED reading
    /\ UNCHANGED <<programVars, selected, frame, regs, booting, latched>>

-----------------------------------------------------------------------------
(* The program.                                                            *)

NoCall   == [fn |-> "none", arg |-> 0]
NoResult == [fn |-> "none", arg |-> 0, val |-> << >>]

ZeroedObject == [range |-> 0, activeThresh |-> 0, activeTimer |-> 0,
                 inactiveThresh |-> 0, inactiveTimer |-> 0]

Init ==
    /\ pc = "down" /\ acl2 = ZeroedObject /\ call = NoCall /\ frames = << >>
    /\ bytearray = << >> /\ sent = 0 /\ result = NoResult /\ prepared = "no"
    /\ selected = FALSE
    /\ frame = << >> /\ regs = RegDefaults /\ status = {} /\ booting = FALSE
    /\ reading = NoSample /\ latched = NoSample

(* The sensor is deselected: the frame it was in, if any, is over.         *)
DriveSelectHigh == selected' = FALSE /\ frame' = << >>

(* Mutant: the pin is not driven high.                                     *)
BeginKeepsPin == UNCHANGED <<selected, frame>>

(* The pin is made an output and driven high.                              *)
BeginGpio == DriveSelectHigh

ACL2c_begin ==
    /\ pc = "down"
    /\ BeginGpio
    /\ acl2' = [range |-> acl2.range, activeThresh |-> 32, activeTimer |-> 100,
                inactiveThresh |-> 26, inactiveTimer |-> 100]
    /\ pc' = "ready"
    /\ UNCHANGED <<call, frames, bytearray, sent, result, prepared,
                   regs, status, booting, reading, latched>>

(* Nothing is sent any more; no program calls it.                          *)
ACL2c_end ==
    /\ pc = "ready" /\ prepared = "no"
    /\ pc' = "ended"
    /\ UNCHANGED <<acl2, call, frames, bytearray, sent, result, prepared, selected, sensorVars>>

Call(fn, arg, toSend) ==
    /\ pc = "ready"
    /\ call' = [fn |-> fn, arg |-> arg] /\ frames' = toSend
    /\ result' = NoResult
    /\ pc' = "select"
    /\ UNCHANGED <<acl2, bytearray, sent, prepared, selected, sensorVars>>

(* The calls of the program, and of the functions that none of the three   *)
(* programs calls.  A configuration comes after a soft reset and a delay.  *)
CallAny ==
    /\ prepared = "no"
    /\ \/ Call("reset", 0, ACL2c_reset)
       \/ Call("getStatus", 0, ACL2c_getStatus)
       \/ Call("getSample", 0, ACL2c_getSample)
       \/ Call("getData", TEMP_L, ACL2c_getTemp)
       \/ \E reg \in DataPairs \ {TEMP_L} : Call("getData", reg, ACL2c_getData(reg))
       \/ \E newRange \in {2, 3, 4, 8} :
             Call("setRange", newRange, ACL2c_setRange(newRange, 0))
CallConfigure ==
    /\ prepared = "delayed"
    /\ \/ Call("configureMeasureMode", 0, ACL2c_configureMeasureMode)
       \/ Call("configureLinkedMode", 0, ACL2c_configureLinkedMode(acl2))

(* Experiment_presetLinkedMode writes the fields of the object.            *)
presetLinkedMode ==
    /\ pc = "ready" /\ prepared = "no"
    /\ \E p \in Presets :
          acl2' = [acl2 EXCEPT !.activeThresh = p.activeThresh, !.activeTimer = p.activeTimer,
                               !.inactiveThresh = p.inactiveThresh,
                               !.inactiveTimer = p.inactiveTimer]
    /\ UNCHANGED <<pc, call, frames, bytearray, sent, result, prepared, selected, sensorVars>>

(* The delay of 100 ms after a reset, in which the sensor boots.           *)
delayAfterReset ==
    /\ pc = "ready" /\ prepared = "reset"
    /\ booting' = FALSE
    /\ prepared' = "delayed"
    /\ UNCHANGED <<pc, acl2, call, frames, bytearray, sent, result, selected,
                   frame, regs, status, reading, latched>>

select ==
    /\ pc = "select"
    /\ selected' = TRUE
    /\ bytearray' = Head(frames) /\ sent' = 0
    /\ latched' = reading
    /\ pc' = "transfer"
    /\ UNCHANGED <<acl2, call, frames, result, prepared, frame, regs, status, booting, reading>>

(* One byte of XSpi_Transfer, which receives into the buffer it sends.     *)
exchange ==
    /\ pc = "transfer" /\ sent < Len(bytearray)
    /\ Hears(bytearray[sent + 1])
    /\ bytearray' = [bytearray EXCEPT ![sent + 1] = Answer]
    /\ sent' = sent + 1
    /\ UNCHANGED <<pc, acl2, call, frames, result, prepared, selected>>

Configures == call.fn \in {"configureMeasureMode", "configureLinkedMode"}

Received == bytearray[3]

(* What is left to send when a frame is over.                              *)
Remaining == IF call.fn = "setRange" /\ Len(frames) = 3
             THEN Tail(ACL2c_setRange(call.arg, Received)) ELSE Tail(frames)

Returned ==
    CASE call.fn = "getStatus" -> <<Received>>
      [] call.fn = "getData"   -> <<ACL2c_RawToInt(bytearray[3], bytearray[4])>>
      [] call.fn = "getSample" -> [i \in 1..4 |-> ACL2c_RawToInt(bytearray[2 * i + 1],
                                                                 bytearray[2 * i + 2])]
      [] OTHER -> << >>

(* The end of a frame, and of the function when it was the last one.       *)
deselect ==
    /\ pc = "transfer" /\ sent = Len(bytearray)
    /\ DriveSelectHigh
    /\ frames' = Remaining
    /\ IF Remaining # << >>
       THEN pc' = "select" /\ UNCHANGED <<acl2, call, result, prepared>>
       ELSE /\ pc' = "ready" /\ call' = NoCall
            /\ result' = [fn |-> call.fn, arg |-> call.arg, val |-> Returned]
            /\ acl2' = IF Configures \/ call.fn = "setRange"
                       THEN [acl2 EXCEPT !.range = RangeOf(Received)] ELSE acl2
            /\ prepared' = IF call.fn = "reset" THEN "reset"
                           ELSE IF Configures THEN "no" ELSE prepared
    /\ bytearray' = << >> /\ sent' = 0 /\ latched' = NoSample
    /\ UNCHANGED <<regs, status, booting, reading>>

(* The processor is reset, at any time, and its program starts afresh.     *)
(* The pin keeps its level or is driven high; the sensor keeps its power,  *)
(* and has long ended a soft reset by the time of ACL2c_begin.             *)
ProcessorReset ==
    /\ pc # "down"
    /\ pc' = "down" /\ acl2' = ZeroedObject /\ call' = NoCall /\ frames' = << >>
    /\ bytearray' = << >> /\ sent' = 0 /\ result' = NoResult /\ prepared' = "no"
    /\ \/ UNCHANGED <<selected, frame>>
       \/ selected /\ DriveSelectHigh
    /\ booting' = FALSE /\ latched' = NoSample
    /\ UNCHANGED <<regs, status, reading>>

Next == \/ ACL2c_begin \/ ACL2c_end \/ CallAny \/ CallConfigure
        \/ presetLinkedMode \/ delayAfterReset
        \/ select \/ exchange \/ deselect
        \/ SensorEvent \/ ProcessorReset

Spec == Init /\ [][Next]_vars

-----------------------------------------------------------------------------
(* Properties.                                                             *)

Events == {"DATA_READY", "ACT", "INACT"}

(* The variables have their types; the range is never but one of the three *)
(* that ACL2c_DataToG knows, or zero before the first configuration.       *)
TypeOK ==
    /\ pc \in {"down", "ready", "select", "transfer", "ended"}
    /\ acl2 \in [range: {0, 2, 4, 8}, activeThresh: Level, activeTimer: Byte,
                 inactiveThresh: Level, inactiveTimer: Word]
    /\ frames \in Seq(Seq(Byte)) /\ bytearray \in Seq(Byte) /\ sent \in 0..Len(bytearray)
    /\ prepared \in {"no", "reset", "delayed"}
    /\ selected \in BOOLEAN /\ booting \in BOOLEAN
    /\ frame \in Seq(Byte) /\ Len(frame) <= 2
    /\ regs \in [ConfigRegisters -> Byte] /\ status \in SUBSET Events
    /\ reading \in Readings \cup {NoSample} /\ latched \in Readings \cup {NoSample}

(* What the sensor has heard of the present frame is what the driver has   *)
(* sent of it, and between two frames it is deselected, also after a reset *)
(* of the processor that cut a frame and left the pin low.                 *)
SensorInStep ==
    CASE pc = "transfer" ->
           /\ selected
           /\ frame = IF sent < 2 THEN SubSeq(frames[1], 1, sent)
                      ELSE <<frames[1][1], frames[1][2] + sent - 2>>
      [] pc \in {"ready", "select", "ended"} -> ~selected /\ frame = << >>
      [] OTHER -> TRUE

P == INSTANCE PmodACL2custom

(* Thousandths of g of one unit, by the range bits of the sensor.          *)
Weight == CASE regs[FILTER_CTL] < 64 -> 1
            [] regs[FILTER_CTL] \in 64..127 -> 2
            [] OTHER -> 4

(* The register file as module PmodACL2custom has it.                      *)
Pair(a) == regs[a] + 256 * regs[a + 1]
Registers ==
    [thresh |-> [act   |-> Pair(32), actTimer   |-> regs[34],
                 inact |-> Pair(35), inactTimer |-> Pair(37)],
     ctl    |-> CASE regs[39] = 0 -> "off" [] regs[39] = 5 -> "absolute"
                  [] regs[39] = 31 -> "linked" [] OTHER -> "other",
     fifo   |-> IF regs[40] = 0 THEN "off" ELSE "on",
     filter |-> 2 * Weight,
     power  |-> IF Measuring THEN "measure" ELSE "standby"]

ConfigurationOf(d) == [r \in DOMAIN Registers |-> d[r]]

AbstractWrites == IF call.fn = "configureMeasureMode" THEN P!ACL2c_configureMeasureMode
                                                      ELSE P!ACL2c_configureLinkedMode(acl2)

(* The sensor of that module after each of the five writes.                *)
AbstractAfter ==
    LET w  == AbstractWrites
        d1 == P!DevWrite(P!DevDefault, w[1])
        d2 == P!DevWrite(d1, w[2])
        d3 == P!DevWrite(d2, w[3])
        d4 == P!DevWrite(d3, w[4])
        d5 == P!DevWrite(d4, w[5])
    IN  <<d1, d2, d3, d4, d5>>

(* A configuration leaves the sensor, after each of its frames, with the   *)
(* registers that the same number of writes of module PmodACL2custom make  *)
(* of a sensor after its reset; a soft reset leaves it with the defaults.  *)
WritesAsSpecified ==
    pc = "transfer" /\ sent = Len(bytearray) =>
        /\ Configures =>
             LET done == 7 - Len(frames)
             IN  Registers = ConfigurationOf(AbstractAfter[IF done > 5 THEN 5 ELSE done])
        /\ call.fn = "reset" => Registers = ConfigurationOf(P!DevAfterReset) /\ booting

(* A sensor that measures has all registers of one configuration, whether  *)
(* or not the program that wrote them has been cut by a reset since; only  *)
(* its range may have been changed.                                        *)
MeasuresConfigured ==
    Measuring =>
        /\ regs[FIFO_CONTROL] = 0 /\ regs[41] = 0
        /\ regs[FILTER_CTL] % 64 = 19
        /\ regs[POWER_CTL] = 34
        /\ \/ regs[ACT_INACT_CTL] = 5 /\ SubSeq([i \in 1..7 |-> regs[31 + i]], 1, 7)
                                         = <<20, 0, 100, 16, 0, 100, 0>>
           \/ /\ regs[ACT_INACT_CTL] = 31
              /\ \E p \in Presets \cup {[activeThresh |-> 32, activeTimer |-> 100,
                                         inactiveThresh |-> 26, inactiveTimer |-> 100]} :
                    /\ Pair(32) = p.activeThresh   /\ regs[34] = p.activeTimer
                    /\ Pair(35) = p.inactiveThresh /\ Pair(37) = p.inactiveTimer

(* The sensor is configured as the master asked, whatever frame a reset of *)
(* the processor cuts.                                                     *)
ConfiguresAsSpecified == WritesAsSpecified /\ MeasuresConfigured

(* Between two calls ACL2c_DataToG scales by the range the sensor has, and *)
(* after ACL2c_setRange this is the range asked for, with the rate and the *)
(* bandwidth as they were configured.                                      *)
ScaleAgrees ==
    pc = "ready" /\ prepared = "no" /\ acl2.range # 0 =>
        /\ \A s \in Readings : \A i \in 1..3 : ACL2c_DataToG(acl2.range, s[i]) = s[i] * Weight
        /\ result.fn = "setRange" /\ result.arg \in {2, 4, 8} => acl2.range = result.arg
        /\ Measuring => regs[FILTER_CTL] % 64 = 19

(* A sample is one the sensor has taken, sign and all four values, and a   *)
(* register pair is one of its four values.                                *)
SampleWhole ==
    LET Taken == Readings \cup {NoSample}
    IN  /\ result.fn = "getSample" => result.val \in Taken
        /\ result.fn = "getData" => \E s \in Taken : result.val[1] = s[(result.arg - 14) \div 2 + 1]

(* An event of the sensor is cleared by nothing but a soft reset and the   *)
(* status read that has its bit in the byte returned.                      *)
EventsNotLost ==
    [][\A e \in {"ACT", "INACT"} :
          e \in status /\ e \notin status' =>
              \/ booting'
              \/ /\ call.fn = "getStatus" /\ sent = 2
                 /\ (bytearray'[3] \div (IF e = "ACT" THEN 16 ELSE 32)) % 2 = 1]_vars
=============================================================================
