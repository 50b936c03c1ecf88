-------------------------- MODULE AclDriverProofs --------------------------
(***************************************************************************)
(* Proofs about AclDriver, for any readings and presets, with the          *)
(* processor reset between any two bytes.                                  *)
(*                                                                         *)
(* The argument follows the frames: those still to be sent are the last    *)
(* ones of the script of the function under way (Scripted), the sensor     *)
(* has heard as much of the present one as has been sent of it (InStep),   *)
(* what has been received is what the registers hold (ReadBack), and what  *)
(* a configuration has sent is in the registers (Written).  So a sensor    *)
(* that measures is configured (Configured), and the range of the driver   *)
(* is that of the sensor whenever it is used (Ranged).                     *)
(***************************************************************************)
EXTENDS AclDriver, SequenceTheorems, TLAPS

-----------------------------------------------------------------------------
(* The inductive invariant.                                                *)

Object == [range: {0, 2, 4, 8}, activeThresh: Level, activeTimer: Byte,
           inactiveThresh: Level, inactiveTimer: Word]

Taken == Readings \cup {NoSample}

Defaults == [activeThresh |-> 32, activeTimer |-> 100, inactiveThresh |-> 26, inactiveTimer |-> 100]

(* The fields are a preset or those of ACL2c_begin.                        *)
Chosen == \E p \in Presets \cup {Defaults} :
             /\ acl2.activeThresh = p.activeThresh     /\ acl2.activeTimer = p.activeTimer
             /\ acl2.inactiveThresh = p.inactiveThresh /\ acl2.inactiveTimer = p.inactiveTimer

FilterValues == {19, 83, 147, 211}

(* The length of a sequence, and how many frames are left.                *)
Size(s) == Len(s)
Left    == Len(frames)

(* The frames the driver sends: reads of known registers, the soft reset,  *)
(* and writes of configuration registers, FILTER_CTL with its low bits as  *)
(* they were configured.                                                   *)
Frames == {f \in Seq(Byte) :
             \/ f[1] = READ  /\ f[2] \in {STATUS, FILTER_CTL} /\ Size(f) = 3
             \/ f[1] = READ  /\ f[2] \in DataPairs /\ Size(f) = 4
             \/ f[1] = READ  /\ f[2] = XDATA_L /\ Size(f) = 10
             \/ f[1] = WRITE /\ f[2] = SOFT_RESET /\ Size(f) = 3 /\ f[3] = 82
             \/ f[1] = WRITE /\ f[2] = THRESH_ACT_L /\ Size(f) = 9
             \/ f[1] = WRITE /\ f[2] \in {ACT_INACT_CTL, POWER_CTL} /\ Size(f) = 3
             \/ f[1] = WRITE /\ f[2] = FIFO_CONTROL /\ Size(f) = 4
             \/ f[1] = WRITE /\ f[2] = FILTER_CTL /\ Size(f) = 3 /\ f[3] \in FilterValues}

Types ==
    /\ pc \in {"down", "ready", "select", "transfer", "ended"}
    /\ acl2 \in Object
    /\ prepared \in {"no", "reset", "delayed"}
    /\ selected \in BOOLEAN /\ booting \in BOOLEAN
    /\ frame \in Seq(Byte) /\ Len(frame) <= 2
    /\ regs \in [ConfigRegisters -> Byte] /\ status \in SUBSET Events
    /\ reading \in Taken /\ latched \in Taken
    /\ regs[FILTER_CTL] \in FilterValues

Busy == pc \in {"select", "transfer"}

(* What the sensor has of frame f when n bytes are sent.                   *)
Heard(f, n) == CASE n = 0 -> << >>
                 [] n = 1 -> <<f[1]>>
                 [] OTHER -> <<f[1], f[2] + n - 2>>

InStep ==
    /\ Busy => frames \in Seq(Seq(Byte)) /\ frames # << >> /\ frames[1] \in Frames
    /\ ~Busy => frames = << >> /\ call = NoCall
    /\ pc = "transfer" =>
          /\ selected
          /\ bytearray \in Seq(Byte) /\ Size(bytearray) = Size(frames[1])
          /\ sent \in 0..Size(frames[1])
          /\ \A i \in sent + 1..Size(frames[1]) : bytearray[i] = frames[1][i]
          /\ frame = Heard(frames[1], sent)
    /\ pc # "transfer" => bytearray = << >> /\ sent = 0
    /\ pc \in {"ready", "select", "ended"} => ~selected /\ frame = << >>

(* The seven bytes of the thresholds, and the byte of ACT_INACT_CTL.       *)
ThreshData == IF call.fn = "configureMeasureMode" THEN <<20, 0, 100, 16, 0, 100, 0>>
              ELSE <<Low(acl2.activeThresh), High(acl2.activeThresh), acl2.activeTimer,
                     Low(acl2.inactiveThresh), High(acl2.inactiveThresh),
                     Low(acl2.inactiveTimer), High(acl2.inactiveTimer)>>
CtlData == IF call.fn = "configureMeasureMode" THEN <<5>> ELSE <<31>>

(* The frame of a configuration when k of its six are left.                *)
ConfFrame(k) == CASE k = 6 -> ACL2c_WriteSpi(THRESH_ACT_L, ThreshData)
                  [] k = 5 -> ACL2c_WriteSpi(ACT_INACT_CTL, CtlData)
                  [] k = 4 -> ACL2c_WriteSpi(FIFO_CONTROL, <<0, 0>>)
                  [] k = 3 -> ACL2c_WriteSpi(FILTER_CTL, <<19>>)
                  [] k = 2 -> ACL2c_WriteSpi(POWER_CTL, <<34>>)
                  [] OTHER -> ACL2c_ReadSpi(FILTER_CTL, 1)

Calls == {"reset", "getStatus", "getSample", "getData", "setRange",
          "configureMeasureMode", "configureLinkedMode"}

Ranges == {2, 3, 4, 8}

Scripted ==
    Busy =>
        /\ call.fn \in Calls
        /\ call.fn = "reset"     => frames = ACL2c_reset
        /\ call.fn = "getStatus" => frames = ACL2c_getStatus
        /\ call.fn = "getSample" => frames = ACL2c_getSample
        /\ call.fn = "getData"   => call.arg \in DataPairs /\ frames = ACL2c_getData(call.arg)
        /\ call.fn = "setRange"  =>
              /\ call.arg \in Ranges /\ Left \in 1..3
              /\ Left \in {1, 3} => frames[1] = ACL2c_ReadSpi(FILTER_CTL, 1)
              /\ Left = 2 =>
                    /\ \E t \in FilterValues :
                          frames[1] = ACL2c_WriteSpi(FILTER_CTL, <<WithRange(t, call.arg)>>)
                    /\ frames[2] = ACL2c_ReadSpi(FILTER_CTL, 1)
        /\ Configures =>
              /\ Left \in 1..6
              /\ \A i \in 1..Left : frames[i] = ConfFrame(Left + 1 - i)

ReadBack ==
    pc = "transfer" /\ frames[1][1] = READ =>
        /\ frames[1][2] = FILTER_CTL /\ sent = 3 => bytearray[3] = regs[FILTER_CTL]
        /\ frames[1][2] \in 14..21 =>
              \A i \in 3..sent : bytearray[i] = DataByte(frames[1][2] + i - 3)

(* The n-th byte of data of the frame with k left is in the sensor.        *)
Got(k, n) == Left < k \/ (Left = k /\ sent >= n + 2)

Written ==
    Busy /\ Configures =>
        /\ \A i \in 1..7 : Got(6, i) => regs[31 + i] = ThreshData[i]
        /\ Got(5, 1) => regs[ACT_INACT_CTL] = CtlData[1]
        /\ Got(4, 1) => regs[FIFO_CONTROL] = 0
        /\ Got(4, 2) => regs[41] = 0
        /\ Got(3, 1) => regs[FILTER_CTL] = 19
        /\ Got(2, 1) => regs[POWER_CTL] = 34
        /\ ~Got(5, 1) => regs[ACT_INACT_CTL] = 0
        /\ ~Got(4, 1) => regs[FIFO_CONTROL] = 0
        /\ ~Got(3, 1) => regs[FILTER_CTL] = 19
        /\ ~Got(2, 1) => regs[POWER_CTL] = 0

(* A soft reset ends before anything else is written.                      *)
Prepared ==
    /\ prepared = "reset" => pc = "ready"
    /\ prepared = "delayed" => pc = "ready" \/ (Busy /\ Configures)
    /\ Busy /\ Configures => prepared = "delayed"
    /\ booting => prepared = "reset" \/ (pc = "transfer" /\ call.fn = "reset" /\ sent = 3)
    /\ pc = "ready" /\ prepared # "no" => regs = RegDefaults
    /\ Busy /\ call.fn = "reset" /\ sent = 3 => regs = RegDefaults /\ booting

Ranged ==
    /\ acl2.range # 0 /\ prepared = "no" /\ call.fn \notin {"reset", "setRange"} =>
          acl2.range = RangeOf(regs[FILTER_CTL])
    /\ result.fn = "setRange" /\ result.arg \in {2, 4, 8} /\ pc = "ready" => acl2.range = result.arg
    /\ pc = "down" => result = NoResult
    /\ Busy /\ call.fn = "setRange" /\ call.arg \in {2, 4, 8}
          /\ (Left = 1 \/ (Left = 2 /\ sent = 3)) => RangeOf(regs[FILTER_CTL]) = call.arg

IInv == /\ Types /\ InStep /\ Scripted /\ ReadBack /\ Written /\ Prepared /\ Ranged
        /\ MeasuresConfigured /\ SampleWhole
        /\ pc # "down" => Chosen

-----------------------------------------------------------------------------
(* The frames of the functions.                                            *)

(* The ranges of numbers as inequalities: from an interval with literal    *)
(* ends the provers make a disjunction of all its numbers.                 *)
LEMMA Interval ==
  ASSUME NEW m \in Int, NEW n \in Int
  PROVE  \A v : v \in m..n <=> v \in Int /\ m <= v /\ v <= n
  OBVIOUS

LEMMA Bytes ==
  \A v : v \in Byte <=> v \in Int /\ 0 <= v /\ v <= 255
  <1>1. PICK n \in Int : n = 255
    OBVIOUS
  <1>2. Byte = 0..n
    BY <1>1, SMT DEF Byte
  <1>3. \A v : v \in Byte <=> v \in Int /\ 0 <= v /\ v <= n
    BY <1>2, Interval
  <1> QED
    BY <1>1, <1>3

LEMMA Levels ==
  \A v : v \in Level <=> v \in Int /\ 0 <= v /\ v <= 2047
  <1>1. PICK n \in Int : n = 2047
    OBVIOUS
  <1>2. Level = 0..n
    BY <1>1, SMT DEF Level
  <1>3. \A v : v \in Level <=> v \in Int /\ 0 <= v /\ v <= n
    BY <1>2, Interval
  <1> QED
    BY <1>1, <1>3

LEMMA Words ==
  \A v : v \in Word <=> v \in Int /\ 0 <= v /\ v <= 65535
  <1>1. PICK n \in Int : n = 65535
    OBVIOUS
  <1>2. Word = 0..n
    BY <1>1, SMT DEF Word
  <1>3. \A v : v \in Word <=> v \in Int /\ 0 <= v /\ v <= n
    BY <1>2, Interval
  <1> QED
    BY <1>1, <1>3

LEMMA Values ==
  \A v : v \in Value <=> v \in Int /\ -2048 <= v /\ v <= 2047
  <1>1. PICK m \in Int : m = -2048
    OBVIOUS
  <1>2. PICK n \in Int : n = 2047
    OBVIOUS
  <1>3. Value = m..n
    BY <1>1, <1>2, SMT DEF Value
  <1>4. \A v : v \in Value <=> v \in Int /\ m <= v /\ v <= n
    BY <1>3, Interval
  <1> QED
    BY <1>1, <1>2, <1>4

LEMMA Literals ==
  /\ STATUS = 11 /\ XDATA_L = 14 /\ TEMP_L = 20 /\ SOFT_RESET = 31 /\ THRESH_ACT_L = 32
  /\ ACT_INACT_CTL = 39 /\ FIFO_CONTROL = 40 /\ FILTER_CTL = 44 /\ POWER_CTL = 45
  /\ WRITE = 10 /\ READ = 11 /\ (\A v : v \in Byte <=> v \in Int /\ 0 <= v /\ v <= 255)
  /\ DataPairs = {14, 16, 18, 20}
  /\ ConfigRegisters = 32..45 /\ FilterValues = {19, 83, 147, 211}
  BY Bytes DEF STATUS, XDATA_L, TEMP_L, SOFT_RESET, THRESH_ACT_L, ACT_INACT_CTL, FIFO_CONTROL,
     FILTER_CTL, POWER_CTL, WRITE, READ, DataPairs, ConfigRegisters, FilterValues

LEMMA Reset ==
  /\ RegDefaults \in [ConfigRegisters -> Byte]
  /\ \A a \in 32..40 : RegDefaults[a] = 0
  /\ RegDefaults[39] = 0 /\ RegDefaults[40] = 0 /\ RegDefaults[44] = 19 /\ RegDefaults[45] = 0
  <1>1. \A a \in ConfigRegisters : RegDefaults[a] \in {0, 19, 128}
    BY DEF RegDefaults
  <1>2. \A b \in {0, 19, 128} : b \in Byte
    BY Literals
  <1>3. RegDefaults \in [ConfigRegisters -> Byte]
    BY <1>1, <1>2 DEF RegDefaults
  <1> QED
    BY <1>3, Literals DEF RegDefaults

LEMMA Zeros ==
  ASSUME NEW n \in Nat
  PROVE  /\ [i \in 1..n |-> 0] \in Seq(Byte)
         /\ Len([i \in 1..n |-> 0]) = n
  <1> DEFINE z == [i \in 1..n |-> 0]
  <1>1. z \in [1..n -> Byte]
    BY Literals
  <1>2. z \in Seq(Byte)
    BY <1>1, SeqDef
  <1>3. DOMAIN z = 1..n /\ DOMAIN z = 1..Len(z) /\ Len(z) \in Nat
    BY <1>2, LenProperties
  <1>4. ASSUME NEW m \in Nat, 1..n = 1..m PROVE m = n
    BY <1>4
  <1> QED
    BY <1>2, <1>3, <1>4

LEMMA Pairs ==
  ASSUME NEW a \in Byte, NEW b \in Byte
  PROVE  /\ <<a, b>> \in Seq(Byte) /\ Len(<<a, b>>) = 2
         /\ <<a, b>>[1] = a /\ <<a, b>>[2] = b
  OBVIOUS

LEMMA ReadSpi ==
  ASSUME NEW reg \in Byte, NEW n \in Nat
  PROVE  /\ ACL2c_ReadSpi(reg, n) \in Seq(Byte) /\ Len(ACL2c_ReadSpi(reg, n)) = 2 + n
         /\ ACL2c_ReadSpi(reg, n)[1] = READ /\ ACL2c_ReadSpi(reg, n)[2] = reg
  <1> DEFINE f == ACL2c_ReadSpi(reg, n)
  <1>1. READ \in Byte
    BY Literals
  <1>2. f = <<READ, reg>> \o [i \in 1..n |-> 0]
    BY DEF ACL2c_ReadSpi
  <1> HIDE DEF f
  <1>3. /\ f \in Seq(Byte) /\ Len(f) = 2 + n
        /\ \A i \in 1..2 + n : i <= 2 => f[i] = <<READ, reg>>[i]
    <2> DEFINE z == [i \in 1..n |-> 0]
    <2>1. z \in Seq(Byte) /\ Len(z) = n /\ f = <<READ, reg>> \o z
      BY <1>2, Zeros
    <2>2. <<READ, reg>> \in Seq(Byte) /\ Len(<<READ, reg>>) = 2
      BY <1>1, Pairs
    <2> HIDE DEF z
    <2> QED
      BY <2>1, <2>2, ConcatProperties
  <1>4. 1 \in 1..2 + n /\ 2 \in 1..2 + n
    OBVIOUS
  <1>5. 1 <= 2 /\ 2 <= 2 /\ <<READ, reg>>[1] = READ /\ <<READ, reg>>[2] = reg
    BY <1>1, Pairs
  <1> QED
    BY <1>3, <1>4, <1>5 DEF f

LEMMA WriteSpi ==
  ASSUME NEW reg \in Byte, NEW d \in Seq(Byte), NEW f, f = ACL2c_WriteSpi(reg, d)
  PROVE  /\ f \in Seq(Byte) /\ Len(f) = 2 + Len(d) /\ f[1] = WRITE /\ f[2] = reg
         /\ \A i \in 3..Len(f) : f[i] = d[i - 2]
  <1>1. WRITE \in Byte
    BY Literals
  <1>2. f = <<WRITE, reg>> \o d
    BY DEF ACL2c_WriteSpi
  <1>3. /\ f \in Seq(Byte) /\ Len(f) = 2 + Len(d)
        /\ \A i \in 1..2 + Len(d) : f[i] = IF i <= 2 THEN <<WRITE, reg>>[i] ELSE d[i - 2]
    BY <1>1, <1>2, Pairs, ConcatProperties
  <1>4. Len(d) \in Nat
    OBVIOUS
  <1>5. \A i \in 3..2 + Len(d) : i \in 1..2 + Len(d) /\ ~(i <= 2)
    BY <1>4
  <1>6. 1 \in 1..2 + Len(d) /\ 2 \in 1..2 + Len(d)
    BY <1>4
  <1>7. f[1] = WRITE /\ f[2] = reg
    <2>1. 1 <= 2 /\ 2 <= 2 /\ <<WRITE, reg>>[1] = WRITE /\ <<WRITE, reg>>[2] = reg
      BY <1>1, Pairs
    <2> QED
      BY <1>3, <1>6, <2>1
  <1>8. \A i \in 3..Len(f) : f[i] = d[i - 2]
    BY <1>3, <1>5
  <1> QED
    BY <1>3, <1>7, <1>8

(* A frame by the numbers of its command, address and length.              *)
LEMMA FrameShape ==
  ASSUME NEW f \in Frames
  PROVE  \/ f[1] = 11 /\ f[2] \in {11, 44} /\ Size(f) = 3
         \/ f[1] = 11 /\ f[2] \in {14, 16, 18, 20} /\ Size(f) = 4
         \/ f[1] = 11 /\ f[2] = 14 /\ Size(f) = 10
         \/ f[1] = 10 /\ f[2] = 31 /\ Size(f) = 3 /\ f[3] = 82
         \/ f[1] = 10 /\ f[2] = 32 /\ Size(f) = 9
         \/ f[1] = 10 /\ f[2] \in {39, 45} /\ Size(f) = 3
         \/ f[1] = 10 /\ f[2] = 40 /\ Size(f) = 4
         \/ f[1] = 10 /\ f[2] = 44 /\ Size(f) = 3 /\ f[3] \in FilterValues
  <1> DEFINE k == Size(f)
  <1>1. \/ f[1] = READ  /\ f[2] \in {STATUS, FILTER_CTL} /\ k = 3
        \/ f[1] = READ  /\ f[2] \in DataPairs /\ k = 4
        \/ f[1] = READ  /\ f[2] = XDATA_L /\ k = 10
        \/ f[1] = WRITE /\ f[2] = SOFT_RESET /\ k = 3 /\ f[3] = 82
        \/ f[1] = WRITE /\ f[2] = THRESH_ACT_L /\ k = 9
        \/ f[1] = WRITE /\ f[2] \in {ACT_INACT_CTL, POWER_CTL} /\ k = 3
        \/ f[1] = WRITE /\ f[2] = FIFO_CONTROL /\ k = 4
        \/ f[1] = WRITE /\ f[2] = FILTER_CTL /\ k = 3 /\ f[3] \in FilterValues
    BY Zenon DEF Frames
  <1>2. /\ READ = 11 /\ WRITE = 10 /\ STATUS = 11 /\ XDATA_L = 14 /\ SOFT_RESET = 31
        /\ THRESH_ACT_L = 32 /\ ACT_INACT_CTL = 39 /\ FIFO_CONTROL = 40 /\ FILTER_CTL = 44
        /\ POWER_CTL = 45 /\ DataPairs = {14, 16, 18, 20}
    BY Literals, Zenon
  <1> HIDE DEF k
  <1>3. \/ f[1] = 11 /\ f[2] \in {11, 44} /\ k = 3
        \/ f[1] = 11 /\ f[2] \in {14, 16, 18, 20} /\ k = 4
        \/ f[1] = 11 /\ f[2] = 14 /\ k = 10
        \/ f[1] = 10 /\ f[2] = 31 /\ k = 3 /\ f[3] = 82
        \/ f[1] = 10 /\ f[2] = 32 /\ k = 9
        \/ f[1] = 10 /\ f[2] \in {39, 45} /\ k = 3
        \/ f[1] = 10 /\ f[2] = 40 /\ k = 4
        \/ f[1] = 10 /\ f[2] = 44 /\ k = 3 /\ f[3] \in FilterValues
    BY ONLY <1>1, <1>2
  <1> QED
    BY <1>3, Zenon DEF k

LEMMA FrameBytes ==
  ASSUME NEW f \in Frames
  PROVE  /\ Size(f) \in 3..10
         /\ f[1] \in {READ, WRITE} /\ f[2] \in 11..45 /\ f[2] + Size(f) <= 48
         /\ \A i \in 1..Size(f) : f[i] \in Byte
  <1>1. f \in Seq(Byte) /\ Size(f) = Len(f)
    BY DEF Frames, Size
  <1>2. \A i \in 1..Len(f) : f[i] \in Byte
    BY <1>1
  <1>3. \A i \in 1..Size(f) : f[i] \in Byte
    BY <1>1, <1>2
  <1>4. READ = 11 /\ WRITE = 10
    BY Literals, Zenon
  <1> DEFINE k == Size(f)
  <1>5. \/ f[1] = 11 /\ f[2] \in {11, 44} /\ k = 3
        \/ f[1] = 11 /\ f[2] \in {14, 16, 18, 20} /\ k = 4
        \/ f[1] = 11 /\ f[2] = 14 /\ k = 10
        \/ f[1] = 10 /\ f[2] = 31 /\ k = 3
        \/ f[1] = 10 /\ f[2] = 32 /\ k = 9
        \/ f[1] = 10 /\ f[2] \in {39, 45} /\ k = 3
        \/ f[1] = 10 /\ f[2] = 40 /\ k = 4
        \/ f[1] = 10 /\ f[2] = 44 /\ k = 3
    BY FrameShape, Zenon
  <1> HIDE DEF k
  <1>6. k \in 3..10 /\ f[1] \in {READ, WRITE} /\ f[2] \in 11..45 /\ f[2] + k <= 48
    BY ONLY <1>4, <1>5
  <1> QED
    BY <1>3, <1>6, Zenon DEF k

(* Division by 256 as inequalities, which is how the provers use it.       *)
LEMMA Division ==
  ASSUME NEW v \in Int
  PROVE  /\ v % 256 \in Int /\ 0 <= v % 256 /\ v % 256 < 256
         /\ v \div 256 \in Int /\ (v % 256) + 256 * (v \div 256) = v
  <1>1. v % 256 \in Int /\ 0 <= v % 256 /\ v % 256 < 256
    OBVIOUS
  <1>2. v \div 256 \in Int
    OBVIOUS
  <1>3. (v % 256) + 256 * (v \div 256) = v
    OBVIOUS
  <1> QED
    BY ONLY <1>1, <1>2, <1>3, Zenon

LEMMA LowHigh ==
  ASSUME NEW v \in Word
  PROVE  /\ Low(v) \in Byte /\ High(v) \in Byte /\ Low(v) + 256 * High(v) = v
         /\ v \in Level => High(v) \in 0..7
  <1>1. Low(v) = v % 256 /\ High(v) = v \div 256
    BY DEF Low, High
  <1>2. v \in Int /\ 0 <= v /\ v <= 65535
    BY Words
  <1> DEFINE r == Low(v)
             q == High(v)
  <1>3. r \in Int /\ 0 <= r /\ r < 256 /\ q \in Int /\ r + 256 * q = v
    BY ONLY <1>1, <1>2, Division
  <1>4. v \in Level => v <= 2047
    BY Levels
  <1> HIDE DEF r, q
  <1>5. 0 <= q /\ q <= 255 /\ (v \in Level => q <= 7)
    BY ONLY <1>2, <1>3, <1>4
  <1>6. r \in Byte /\ q \in Byte /\ (v \in Level => q \in 0..7)
    BY ONLY <1>3, <1>5, Bytes
  <1> QED
    BY <1>3, <1>6, Zenon DEF r, q

LEMMA ObjectFields ==
  ASSUME NEW o \in Object
  PROVE  /\ o.range \in {0, 2, 4, 8}
         /\ o.activeThresh \in Level /\ o.activeTimer \in Byte
         /\ o.inactiveThresh \in Level /\ o.inactiveTimer \in Word
         /\ o.activeThresh \in Word /\ o.inactiveThresh \in Word
  <1>1. \A v \in Level : v \in Word
    BY Levels, Words
  <1> QED
    BY <1>1 DEF Object

LEMMA Sevens ==
  ASSUME NEW a \in Byte, NEW b \in Byte, NEW c \in Byte, NEW d \in Byte, NEW e \in Byte,
         NEW g \in Byte, NEW h \in Byte, NEW t, t = <<a, b, c, d, e, g, h>>
  PROVE  /\ t \in Seq(Byte) /\ Len(t) = 7
         /\ t[1] = a /\ t[2] = b /\ t[3] = c /\ t[4] = d /\ t[5] = e /\ t[6] = g /\ t[7] = h
         /\ \A i \in 1..7 : t[i] \in Byte
  OBVIOUS

LEMMA ThreshBytes ==
  ASSUME acl2 \in Object
  PROVE  /\ ThreshData \in Seq(Byte) /\ Len(ThreshData) = 7
         /\ \A i \in 1..7 : ThreshData[i] \in Byte /\ ThreshData[i] % Width(31 + i) = ThreshData[i]
  <1> DEFINE t == ThreshData
  <1>1. /\ acl2.activeThresh \in Level /\ acl2.activeTimer \in Byte
        /\ acl2.inactiveThresh \in Level /\ acl2.inactiveTimer \in Word
        /\ acl2.activeThresh \in Word /\ acl2.inactiveThresh \in Word
    BY ObjectFields
  <1>2. /\ Low(acl2.activeThresh) \in Byte /\ High(acl2.activeThresh) \in 0..7
        /\ Low(acl2.inactiveThresh) \in Byte /\ High(acl2.inactiveThresh) \in 0..7
        /\ Low(acl2.inactiveTimer) \in Byte /\ High(acl2.inactiveTimer) \in Byte
    BY <1>1, LowHigh
  <1>3. /\ t \in Seq(Byte) /\ Len(t) = 7
        /\ \A i \in 1..7 : t[i] \in Byte
        /\ t[2] \in 0..7 /\ t[5] \in 0..7
    <2>1. CASE call.fn = "configureMeasureMode"
      <3>1. t = <<20, 0, 100, 16, 0, 100, 0>>
        BY <2>1 DEF ThreshData
      <3>2. 20 \in Byte /\ 0 \in Byte /\ 100 \in Byte /\ 16 \in Byte
        BY Literals
      <3> HIDE DEF t
      <3>3. /\ t \in Seq(Byte) /\ Len(t) = 7 /\ t[2] = 0 /\ t[5] = 0
            /\ \A i \in 1..7 : t[i] \in Byte
        BY <3>1, <3>2, Sevens
      <3> QED
        BY <3>3
    <2>2. CASE call.fn # "configureMeasureMode"
      <3>1. t = <<Low(acl2.activeThresh), High(acl2.activeThresh), acl2.activeTimer,
                  Low(acl2.inactiveThresh), High(acl2.inactiveThresh),
                  Low(acl2.inactiveTimer), High(acl2.inactiveTimer)>>
        BY <2>2 DEF ThreshData
      <3>2. High(acl2.activeThresh) \in Byte /\ High(acl2.inactiveThresh) \in Byte
        BY <1>2, Literals
      <3> HIDE DEF t
      <3>3. /\ t \in Seq(Byte) /\ Len(t) = 7
            /\ t[2] = High(acl2.activeThresh) /\ t[5] = High(acl2.inactiveThresh)
            /\ \A i \in 1..7 : t[i] \in Byte
        BY <1>1, <1>2, <3>1, <3>2, Sevens
      <3> QED
        BY <1>2, <3>3
    <2> QED
      BY <2>1, <2>2
  <1> HIDE DEF t
  <1>4. ASSUME NEW i \in 1..7 PROVE t[i] \in Byte /\ t[i] % Width(31 + i) = t[i]
    <2>1. t[i] \in Int /\ 0 <= t[i] /\ t[i] <= 255 /\ (i = 2 \/ i = 5 => t[i] <= 7)
      <3>1. t[i] \in Byte
        BY <1>3
      <3>2. t[2] \in 0..7 /\ t[5] \in 0..7
        BY <1>3
      <3> QED
        BY ONLY <3>1, <3>2, Bytes
    <2>2. CASE i = 2 \/ i = 5
      <3>1. Width(31 + i) = 8
        BY <2>2 DEF Width
      <3>2. t[i] % 8 = t[i]
        <4>1. ASSUME NEW x \in Int, 0 <= x, x <= 7 PROVE x % 8 = x
          BY ONLY <4>1
        <4> QED
          BY <2>1, <2>2, <4>1
      <3> QED
        BY <1>3, <3>1, <3>2
    <2>3. CASE ~(i = 2 \/ i = 5)
      <3>1. Width(31 + i) = 256
        BY <2>3 DEF Width
      <3>2. t[i] % 256 = t[i]
        <4>1. ASSUME NEW x \in Int, 0 <= x, x <= 255 PROVE x % 256 = x
          BY ONLY <4>1
        <4> QED
          BY <2>1, <4>1
      <3> QED
        BY <1>3, <3>1, <3>2
    <2> QED
      BY <2>2, <2>3
  <1> QED
    BY <1>3, <1>4 DEF t

LEMMA Ones ==
  ASSUME NEW b \in Byte
  PROVE  <<b>> \in Seq(Byte) /\ Len(<<b>>) = 1 /\ <<b>>[1] = b
  OBVIOUS

(* A write of one byte.                                                    *)
LEMMA WriteOne ==
  ASSUME NEW reg \in Byte, NEW b \in Byte, NEW f, f = ACL2c_WriteSpi(reg, <<b>>)
  PROVE  f \in Seq(Byte) /\ Len(f) = 3 /\ f[1] = WRITE /\ f[2] = reg /\ f[3] = b
  <1> DEFINE d == <<b>>
  <1>1. d \in Seq(Byte)
    BY Ones
  <1>4. Len(d) = 1 /\ d[1] = b
    BY Ones
  <1>2. f = ACL2c_WriteSpi(reg, d)
    OBVIOUS
  <1> HIDE DEF d
  <1>3. /\ f \in Seq(Byte) /\ Len(f) = 2 + Len(d) /\ f[1] = WRITE /\ f[2] = reg
        /\ \A i \in 3..Len(f) : f[i] = d[i - 2]
    <2>1. ASSUME NEW e \in Seq(Byte), f = ACL2c_WriteSpi(reg, e)
          PROVE  /\ f \in Seq(Byte) /\ Len(f) = 2 + Len(e) /\ f[1] = WRITE /\ f[2] = reg
                 /\ \A i \in 3..Len(f) : f[i] = e[i - 2]
      BY ONLY reg \in Byte, <2>1, WriteSpi
    <2> QED
      BY ONLY <1>1, <1>2, <2>1, Zenon
  <1> QED
    BY <1>3, <1>4

(* The frames of a configuration, by how many are left.                    *)
LEMMA ConfFrames ==
  ASSUME acl2 \in Object, NEW k \in 1..6, NEW f, f = ConfFrame(k)
  PROVE  /\ f \in Frames
         /\ f[1] = IF k = 1 THEN READ ELSE WRITE
         /\ k = 6 => f[2] = 32 /\ Size(f) = 9 /\ \A i \in 3..9 : f[i] = ThreshData[i - 2]
         /\ k = 5 => f[2] = 39 /\ Size(f) = 3 /\ f[3] = CtlData[1] /\ f[3] \in {5, 31}
         /\ k = 4 => f[2] = 40 /\ Size(f) = 4 /\ f[3] = 0 /\ f[4] = 0
         /\ k = 3 => f[2] = 44 /\ Size(f) = 3 /\ f[3] = 19
         /\ k = 2 => f[2] = 45 /\ Size(f) = 3 /\ f[3] = 34
         /\ k = 1 => f[2] = 44 /\ Size(f) = 3
  <1>1. CASE k = 6
    <2>1. f = ACL2c_WriteSpi(32, ThreshData)
      BY <1>1, Literals DEF ConfFrame
    <2>2. ThreshData \in Seq(Byte)
      BY ThreshBytes
    <2>6. Len(ThreshData) = 7
      BY ThreshBytes
    <2>3. 32 \in Byte
      BY Literals
    <2>4. /\ f \in Seq(Byte) /\ Len(f) = 2 + Len(ThreshData) /\ f[1] = WRITE /\ f[2] = 32
          /\ \A i \in 3..Len(f) : f[i] = ThreshData[i - 2]
      BY <2>1, <2>2, <2>3, WriteSpi
    <2>5. Len(f) = 9 /\ \A i \in 3..9 : f[i] = ThreshData[i - 2]
      BY <2>4, <2>6
    <2> QED
      BY <1>1, <2>4, <2>5, Literals DEF Frames, Size
  <1>2. CASE k = 5
    <2>1. PICK b \in {5, 31} : CtlData = <<b>>
      BY DEF CtlData
    <2>2. f = ACL2c_WriteSpi(39, <<b>>)
      BY <1>2, <2>1, Literals DEF ConfFrame
    <2>3. 39 \in Byte /\ b \in Byte
      BY Literals
    <2>4. f \in Seq(Byte) /\ Len(f) = 3 /\ f[1] = WRITE /\ f[2] = 39 /\ f[3] = b
      BY <2>2, <2>3, WriteOne
    <2> QED
      BY <1>2, <2>1, <2>4, Literals DEF Frames, Size
  <1>3. CASE k = 4
    <2>1. f = ACL2c_WriteSpi(40, <<0, 0>>)
      BY <1>3, Literals DEF ConfFrame
    <2> DEFINE d == <<0, 0>>
    <2>2. 40 \in Byte /\ 0 \in Byte
      BY Literals
    <2>3. d \in Seq(Byte) /\ f = ACL2c_WriteSpi(40, d)
      BY <2>1, <2>2, Pairs
    <2>6. Len(d) = 2 /\ d[1] = 0 /\ d[2] = 0
      BY <2>2, Pairs
    <2> HIDE DEF d
    <2>4. /\ f \in Seq(Byte) /\ Len(f) = 2 + Len(d) /\ f[1] = WRITE /\ f[2] = 40
          /\ \A i \in 3..Len(f) : f[i] = d[i - 2]
      BY <2>2, <2>3, WriteSpi
    <2>5. Len(f) = 4 /\ f[3] = d[3 - 2] /\ f[4] = d[4 - 2]
      BY <2>4, <2>6
    <2> QED
      BY <1>3, <2>4, <2>5, <2>6, Literals DEF Frames, Size
  <1>4. CASE k = 3
    <2>1. f = ACL2c_WriteSpi(44, <<19>>)
      BY <1>4, Literals DEF ConfFrame
    <2>2. 44 \in Byte /\ 19 \in Byte
      BY Literals
    <2>3. f \in Seq(Byte) /\ Len(f) = 3 /\ f[1] = WRITE /\ f[2] = 44 /\ f[3] = 19
      BY <2>1, <2>2, WriteOne
    <2> QED
      BY <1>4, <2>3, Literals DEF Frames, Size
  <1>5. CASE k = 2
    <2>1. f = ACL2c_WriteSpi(45, <<34>>)
      BY <1>5, Literals DEF ConfFrame
    <2>2. 45 \in Byte /\ 34 \in Byte
      BY Literals
    <2>3. f \in Seq(Byte) /\ Len(f) = 3 /\ f[1] = WRITE /\ f[2] = 45 /\ f[3] = 34
      BY <2>1, <2>2, WriteOne
    <2> QED
      BY <1>5, <2>3, Literals DEF Frames, Size
  <1>6. CASE k = 1
    <2>1. f = ACL2c_ReadSpi(44, 1)
      BY <1>6, Literals DEF ConfFrame
    <2>2. 44 \in Byte
      BY Literals
    <2>3. f \in Seq(Byte) /\ Len(f) = 2 + 1 /\ f[1] = READ /\ f[2] = 44
      BY ONLY <2>1, <2>2, 1 \in Nat, ReadSpi, Zenon
    <2> QED
      BY <1>6, <2>3, Literals DEF Frames, Size
  <1> QED
    BY <1>1, <1>2, <1>3, <1>4, <1>5, <1>6

LEMMA Single ==
  ASSUME NEW S, NEW a \in S
  PROVE  <<a>> \in Seq(S) /\ Len(<<a>>) = 1 /\ <<a>>[1] = a /\ Tail(<<a>>) = << >>
  OBVIOUS

LEMMA Triple ==
  ASSUME NEW S, NEW a \in S, NEW b \in S, NEW c \in S, NEW s, s = (<<a>> \o <<b>>) \o <<c>>
  PROVE  /\ s \in Seq(S) /\ Len(s) = 3 /\ s[1] = a /\ s[2] = b /\ s[3] = c
         /\ Tail(s) \in Seq(S) /\ Len(Tail(s)) = 2 /\ Tail(s)[1] = b /\ Tail(s)[2] = c
  <1>1. ASSUME NEW x \in Seq(S), NEW y \in Seq(S), NEW z \in Seq(S), NEW xy, xy = x \o y,
               Len(x) = 1, Len(y) = 1, Len(z) = 1, x[1] = a, y[1] = b, z[1] = c, s = xy \o z
        PROVE  s \in Seq(S) /\ Len(s) = 3 /\ s[1] = a /\ s[2] = b /\ s[3] = c
    <2>1. xy \in Seq(S) /\ Len(xy) = 2
      <3>1. xy \in Seq(S) /\ Len(xy) = Len(x) + Len(y)
        BY ONLY <1>1, ConcatProperties
      <3> QED
        BY ONLY <1>1, <3>1
    <2>2. xy[1] = a /\ xy[2] = b
      <3>1. \A i \in 1..Len(x) + Len(y) : xy[i] = IF i <= Len(x) THEN x[i] ELSE y[i - Len(x)]
        BY ONLY <1>1, ConcatProperties
      <3> DEFINE m == Len(x)
                 n == Len(y)
      <3>2. m = 1 /\ n = 1 /\ \A i \in 1..m + n : xy[i] = IF i <= m THEN x[i] ELSE y[i - m]
        BY ONLY <1>1, <3>1, Zenon
      <3> HIDE DEF m, n
      <3>3. xy[1] = x[1] /\ xy[2] = y[1]
        BY ONLY <3>2
      <3> QED
        BY ONLY <1>1, <3>3
    <2>3. s \in Seq(S) /\ Len(s) = 3
      <3>1. s \in Seq(S) /\ Len(s) = Len(xy) + Len(z)
        BY ONLY <1>1, <2>1, ConcatProperties
      <3> QED
        BY ONLY <1>1, <2>1, <3>1
    <2>4. s[1] = a /\ s[2] = b /\ s[3] = c
      <3>1. \A i \in 1..Len(xy) + Len(z) : s[i] = IF i <= Len(xy) THEN xy[i] ELSE z[i - Len(xy)]
        BY ONLY <1>1, <2>1, ConcatProperties
      <3> DEFINE m == Len(xy)
                 n == Len(z)
      <3>2. m = 2 /\ n = 1 /\ \A i \in 1..m + n : s[i] = IF i <= m THEN xy[i] ELSE z[i - m]
        BY ONLY <1>1, <2>1, <3>1, Zenon
      <3> HIDE DEF m, n
      <3>3. s[1] = xy[1] /\ s[2] = xy[2] /\ s[3] = z[1]
        BY ONLY <3>2
      <3> QED
        BY ONLY <1>1, <2>2, <3>3
    <2> QED
      BY ONLY <2>3, <2>4, Zenon
  <1>2. s \in Seq(S) /\ Len(s) = 3 /\ s[1] = a /\ s[2] = b /\ s[3] = c
    <2>1. /\ <<a>> \in Seq(S) /\ <<b>> \in Seq(S) /\ <<c>> \in Seq(S)
          /\ Len(<<a>>) = 1 /\ Len(<<b>>) = 1 /\ Len(<<c>>) = 1
          /\ <<a>>[1] = a /\ <<b>>[1] = b /\ <<c>>[1] = c
      BY Single
    <2>2. <<a>> \o <<b>> = <<a>> \o <<b>>
      OBVIOUS
    <2> QED
      BY ONLY <1>1, <2>1, <2>2, s = (<<a>> \o <<b>>) \o <<c>>, Zenon
  <1>3. s # << >>
    BY <1>2
  <1>4. /\ Tail(s) \in Seq(S) /\ Len(Tail(s)) = Len(s) - 1
        /\ \A i \in 1..Len(Tail(s)) : Tail(s)[i] = s[i + 1]
    BY <1>2, <1>3, HeadTailProperties
  <1>5. Len(Tail(s)) = 2 /\ Tail(s)[1] = s[1 + 1] /\ Tail(s)[2] = s[2 + 1]
    BY <1>2, <1>4
  <1> QED
    BY <1>2, <1>4, <1>5

LEMMA Sextuple ==
  ASSUME NEW S, NEW a \in S, NEW b \in S, NEW c \in S, NEW d \in S, NEW e \in S, NEW g \in S,
         NEW s, s = <<a, b>> \o <<c, d, e, g>>
  PROVE  /\ s \in Seq(S) /\ Len(s) = 6
         /\ s[1] = a /\ s[2] = b /\ s[3] = c /\ s[4] = d /\ s[5] = e /\ s[6] = g
  <1>1. ASSUME NEW x \in Seq(S), NEW y \in Seq(S), Len(x) = 2, Len(y) = 4, s = x \o y,
               x[1] = a, x[2] = b, y[1] = c, y[2] = d, y[3] = e, y[4] = g
        PROVE  /\ s \in Seq(S) /\ Len(s) = 6
               /\ s[1] = a /\ s[2] = b /\ s[3] = c /\ s[4] = d /\ s[5] = e /\ s[6] = g
    <2>1. s \in Seq(S) /\ Len(s) = 6
      BY <1>1
    <2>2. s[1] = a /\ s[2] = b
      BY <1>1, <2>1
    <2>3. s[3] = c /\ s[4] = d /\ s[5] = e /\ s[6] = g
      BY <1>1, <2>1
    <2> QED
      BY <2>1, <2>2, <2>3
  <1>2. /\ <<a, b>> \in Seq(S) /\ Len(<<a, b>>) = 2 /\ <<a, b>>[1] = a /\ <<a, b>>[2] = b
    OBVIOUS
  <1>3. /\ <<c, d, e, g>> \in Seq(S) /\ Len(<<c, d, e, g>>) = 4
        /\ <<c, d, e, g>>[1] = c /\ <<c, d, e, g>>[2] = d
        /\ <<c, d, e, g>>[3] = e /\ <<c, d, e, g>>[4] = g
    OBVIOUS
  <1> QED
    BY <1>1, <1>2, <1>3, Zenon

LEMMA ReadFrame ==
  ASSUME NEW reg, NEW n,
         \/ reg \in {STATUS, FILTER_CTL} /\ n = 1
         \/ reg \in DataPairs /\ n = 2
         \/ reg = XDATA_L /\ n = 8
  PROVE  /\ ACL2c_ReadSpi(reg, n) \in Frames
         /\ ACL2c_ReadSpi(reg, n)[1] = READ /\ ACL2c_ReadSpi(reg, n)[2] = reg
         /\ Size(ACL2c_ReadSpi(reg, n)) = 2 + n
  <1> DEFINE f == ACL2c_ReadSpi(reg, n)
  <1>1. reg \in Byte /\ n \in Nat
    BY Literals
  <1>2. f \in Seq(Byte) /\ Len(f) = 2 + n /\ f[1] = READ /\ f[2] = reg
    BY <1>1, ReadSpi
  <1> HIDE DEF f
  <1>3. \/ f[2] \in {STATUS, FILTER_CTL} /\ Len(f) = 3
        \/ f[2] \in DataPairs /\ Len(f) = 4
        \/ f[2] = XDATA_L /\ Len(f) = 10
    BY <1>2
  <1>4. f \in Frames
    BY <1>2, <1>3 DEF Frames, Size
  <1> QED
    BY <1>2, <1>4 DEF f, Size

LEMMA ResetFrame ==
  ASSUME NEW f, f = ACL2c_WriteSpi(SOFT_RESET, << 82 >>)
  PROVE  f \in Frames /\ f[1] = WRITE /\ f[2] = SOFT_RESET /\ Size(f) = 3 /\ f[3] = 82
  <1>1. SOFT_RESET \in Byte /\ 82 \in Byte
    BY Literals
  <1>2. f \in Seq(Byte) /\ Len(f) = 3 /\ f[1] = WRITE /\ f[2] = SOFT_RESET /\ f[3] = 82
    BY <1>1, WriteOne
  <1> QED
    BY <1>2 DEF Frames, Size

(* Setting a range keeps the low bits; 2, 4 and 8 are what RangeOf reads   *)
(* of the value written.                                                   *)
LEMMA RangeBitsKept ==
  ASSUME NEW t \in Byte, NEW r \in Ranges
  PROVE  /\ WithRange(t, r) \in Byte
         /\ t \in FilterValues => WithRange(t, r) \in FilterValues
         /\ t \in FilterValues /\ r # 3 => RangeOf(WithRange(t, r)) = r
  BY Literals DEF WithRange, RangeOf, Ranges

LEMMA RangeFrame ==
  ASSUME NEW t \in FilterValues, NEW r \in Ranges, NEW f,
         f = ACL2c_WriteSpi(FILTER_CTL, <<WithRange(t, r)>>)
  PROVE  /\ f \in Frames /\ f[1] = WRITE /\ f[2] = FILTER_CTL /\ Size(f) = 3
         /\ f[3] = WithRange(t, r)
  <1>1. t \in Byte /\ FILTER_CTL \in Byte
    BY Literals
  <1>2. WithRange(t, r) \in Byte /\ WithRange(t, r) \in FilterValues
    BY <1>1, RangeBitsKept
  <1>3. f \in Seq(Byte) /\ Len(f) = 3 /\ f[1] = WRITE /\ f[2] = FILTER_CTL /\ f[3] = WithRange(t, r)
    BY <1>1, <1>2, WriteOne
  <1> QED
    BY <1>2, <1>3 DEF Frames, Size

-----------------------------------------------------------------------------
(* What the exchange of a byte does.                                       *)

LEMMA Exchanging ==
  ASSUME InStep, exchange
  PROVE  /\ frames[1] \in Frames /\ pc = "transfer" /\ sent \in 0..Size(frames[1]) - 1
         /\ bytearray \in Seq(Byte) /\ Size(bytearray) = Size(frames[1])
         /\ bytearray[sent + 1] = frames[1][sent + 1]
         /\ frame = Heard(frames[1], sent)
         /\ \A i \in sent + 1..Size(frames[1]) : bytearray[i] = frames[1][i]
  <1>1. pc = "transfer" /\ sent < Size(bytearray)
    BY DEF exchange, Size
  <1>2. /\ frames[1] \in Frames
        /\ bytearray \in Seq(Byte) /\ Size(bytearray) = Size(frames[1])
        /\ sent \in 0..Size(frames[1])
        /\ \A i \in sent + 1..Size(frames[1]) : bytearray[i] = frames[1][i]
        /\ frame = Heard(frames[1], sent)
    BY <1>1 DEF InStep, Busy
  <1>3. Size(frames[1]) \in 3..10
    BY <1>2, FrameBytes
  <1>4. sent \in 0..Size(frames[1]) - 1 /\ sent + 1 \in sent + 1..Size(frames[1])
    BY <1>1, <1>2, <1>3
  <1> QED
    BY <1>1, <1>2, <1>4

LEMMA WriteFrames ==
  ASSUME NEW f \in Frames, f[1] = WRITE
  PROVE  IF f[2] = SOFT_RESET THEN Size(f) = 3 /\ f[3] = 82 ELSE f[2] \in 32..45
  <1>1. f[1] = 10 /\ SOFT_RESET = 31
    BY Literals
  <1>2. \/ f[2] = 31 /\ Size(f) = 3 /\ f[3] = 82
        \/ f[2] = 32 \/ f[2] \in {39, 45} \/ f[2] = 40 \/ f[2] = 44
    BY <1>1, FrameShape
  <1> QED
    BY ONLY <1>1, <1>2

LEMMA HeardLen ==
  ASSUME NEW f, NEW n \in Nat
  PROVE  /\ n < 2 => Len(Heard(f, n)) = n
         /\ n >= 2 => Len(Heard(f, n)) = 2 /\ Heard(f, n)[1] = f[1] /\ Heard(f, n)[2] = f[2] + n - 2
  BY DEF Heard

LEMMA HeardNext ==
  ASSUME NEW f \in Frames, NEW n \in 0..9
  PROVE  /\ n < 2 => Heard(f, n + 1) = Append(Heard(f, n), f[n + 1])
         /\ n >= 2 => Heard(f, n + 1) = <<Heard(f, n)[1], Heard(f, n)[2] + 1>>
  <1>1. f[1] \in Byte /\ f[2] \in 0..255
    BY FrameBytes, Literals
  <1>2. CASE n = 0
    BY <1>1, <1>2 DEF Heard
  <1>3. CASE n = 1
    <2>1. Heard(f, 1) = <<f[1]>> /\ Heard(f, 2) = <<f[1], f[2]>>
      BY <1>1 DEF Heard
    <2>2. ASSUME NEW x \in Byte, NEW y \in Byte PROVE Append(<<x>>, y) = <<x, y>>
      <3>1. Append(<<x>>, y) \in Seq(Byte) /\ <<x, y>> \in Seq(Byte)
        OBVIOUS
      <3>2. Len(Append(<<x>>, y)) = 2 /\ Len(<<x, y>>) = 2
        OBVIOUS
      <3>3. Append(<<x>>, y)[1] = x /\ Append(<<x>>, y)[2] = y
        OBVIOUS
      <3>4. \A i \in 1..2 : Append(<<x>>, y)[i] = <<x, y>>[i]
        BY <3>3
      <3> QED
        BY <3>1, <3>2, <3>4, SeqEqual, Zenon
    <2>3. Append(<<f[1]>>, f[2]) = <<f[1], f[2]>>
      <3>1. f[1] \in Byte /\ f[2] \in Byte
        BY <1>1, Literals
      <3> QED
        BY <2>2, <3>1, Zenon
    <2>4. Append(Heard(f, 1), f[2]) = Heard(f, 2)
      BY <2>1, <2>3
    <2> QED
      BY <1>3, <2>4
  <1>4. CASE n >= 2
    <2>1. Heard(f, n) = <<f[1], f[2] + n - 2>> /\ Heard(f, n + 1) = <<f[1], f[2] + (n + 1) - 2>>
      BY <1>4 DEF Heard
    <2>2. f[2] + (n + 1) - 2 = (f[2] + n - 2) + 1
      BY <1>1
    <2> QED
      BY <1>4, <2>1, <2>2
  <1> QED
    BY <1>2, <1>3, <1>4

LEMMA HeardFrame ==
  ASSUME NEW f \in Frames, NEW n \in 0..Size(f)
  PROVE  Heard(f, n) \in Seq(Byte) /\ Len(Heard(f, n)) <= 2
  <1>1. Size(f) \in 3..10 /\ f[1] \in Byte /\ f[2] \in 11..45 /\ f[2] + Size(f) <= 48
    BY FrameBytes, Literals
  <1>2. CASE n = 0
    BY <1>2 DEF Heard
  <1>3. CASE n = 1
    BY <1>1, <1>3 DEF Heard
  <1>4. CASE n >= 2
    <2>1. f[2] + n - 2 \in Byte
      <3>1. f[2] + n - 2 \in 0..255
        BY <1>1, <1>4
      <3> QED
        BY <3>1, Literals
    <2>2. Heard(f, n) = <<f[1], f[2] + n - 2>>
      BY <1>4 DEF Heard
    <2> QED
      BY <1>1, <2>1, <2>2
  <1> QED
    BY <1>1, <1>2, <1>3, <1>4

LEMMA NotBooting ==
  ASSUME IInv, exchange
  PROVE  ~booting /\ pc = "transfer"
  <1>1. pc = "transfer"
    BY DEF exchange
  <1>2. ASSUME call.fn = "reset" PROVE sent # 3
    <2>1. frames = ACL2c_reset
      BY <1>1, <1>2 DEF IInv, Scripted, Busy
    <2>2. Size(frames[1]) = 3
      BY <2>1, ResetFrame DEF ACL2c_reset
    <2>3. InStep
      BY DEF IInv
    <2>4. sent \in 0..Size(frames[1]) - 1
      BY <2>3, Exchanging
    <2> QED
      BY <2>2, <2>4
  <1> QED
    BY <1>1, <1>2 DEF IInv, Prepared

LEMMA ExchangeEffect ==
  ASSUME IInv, exchange, NEW f, f = frames[1], NEW a, a = f[2] + sent - 2
  PROVE  /\ frame' = Heard(f, sent + 1) /\ sent' = sent + 1
         /\ sent < 2 => UNCHANGED <<regs, status, booting, reading>>
         /\ sent >= 2 /\ f[1] = READ =>
               status' = status \ ClearedBy(a) /\ UNCHANGED <<regs, booting, reading>>
         /\ sent >= 2 /\ f[1] = WRITE /\ f[2] = SOFT_RESET =>
               regs' = RegDefaults /\ status' = {} /\ booting' = TRUE /\ reading' = NoSample
         /\ sent >= 2 /\ f[1] = WRITE /\ f[2] # SOFT_RESET =>
               /\ a \in ConfigRegisters
               /\ regs' = [regs EXCEPT ![a] = f[sent + 1] % Width(a)]
               /\ UNCHANGED <<status, booting, reading>>
         /\ Answer = IF sent >= 2 /\ f[1] = READ THEN RegByte(a) ELSE 0
         /\ UNCHANGED <<pc, acl2, call, frames, result, prepared, selected, latched>>
  <1> DEFINE b == f[sent + 1]
  <1>1. /\ f \in Frames /\ Size(f) \in 3..10 /\ sent \in 0..9 /\ sent < Size(f) /\ sent \in Nat
        /\ bytearray[sent + 1] = b
        /\ f[1] \in {READ, WRITE} /\ f[2] \in 11..45 /\ f[2] + Size(f) <= 48
        /\ frame = Heard(f, sent)
    <2>1. InStep
      BY DEF IInv
    <2>2. /\ f \in Frames /\ sent \in 0..Size(f) - 1
          /\ bytearray[sent + 1] = b /\ frame = Heard(f, sent)
      BY <2>1, Exchanging
    <2>3. /\ Size(f) \in 3..10
          /\ f[1] \in {READ, WRITE} /\ f[2] \in 11..45 /\ f[2] + Size(f) <= 48
      BY <2>2, FrameBytes
    <2> QED
      BY <2>2, <2>3
  <1>2. ~booting
    BY NotBooting
  <1>3. Hears(b) /\ sent' = sent + 1
        /\ UNCHANGED <<pc, acl2, call, frames, result, prepared, selected>>
    BY <1>1 DEF exchange
  <1> HIDE DEF b
  <1>4. UNCHANGED latched
    BY <1>3 DEF Hears
  <1>5. ASSUME sent < 2
        PROVE  /\ frame' = Heard(f, sent + 1) /\ Answer = 0
               /\ UNCHANGED <<regs, status, booting, reading>>
    <2>1. Len(frame) = sent
      BY <1>1, <1>5, HeardLen
    <2>2. frame' = Append(frame, b) /\ UNCHANGED <<regs, status, booting, reading>>
      BY <1>3, <1>5, <2>1 DEF Hears
    <2>3. frame' = Heard(f, sent + 1)
      BY <1>1, <1>5, <2>2, HeardNext DEF b
    <2>4. Answer = 0
      BY <1>5, <2>1 DEF Answer
    <2> QED
      BY <2>2, <2>3, <2>4
  <1>6. ASSUME sent >= 2
        PROVE  /\ frame' = Heard(f, sent + 1) /\ Answer = IF f[1] = READ THEN RegByte(a) ELSE 0
               /\ f[1] = READ => status' = status \ ClearedBy(a) /\ UNCHANGED <<regs, booting, reading>>
               /\ f[1] = WRITE /\ f[2] = SOFT_RESET =>
                     regs' = RegDefaults /\ status' = {} /\ booting' = TRUE /\ reading' = NoSample
               /\ f[1] = WRITE /\ f[2] # SOFT_RESET =>
                     /\ a \in ConfigRegisters
                     /\ regs' = [regs EXCEPT ![a] = b % Width(a)]
                     /\ UNCHANGED <<status, booting, reading>>
    <2>1. Len(frame) = 2
      BY <1>1, <1>6, HeardLen
    <2>2. frame[1] = f[1] /\ frame[2] = a
      BY <1>1, <1>6, HeardLen
    <2>3. /\ frame' = <<frame[1], frame[2] + 1>>
          /\ CASE frame[1] = READ ->
                    /\ status' = status \ ClearedBy(frame[2])
                    /\ UNCHANGED <<regs, booting, reading>>
               [] booting -> UNCHANGED <<regs, status, booting, reading>>
               [] frame[1] = WRITE /\ frame[2] = SOFT_RESET /\ b = 82 ->
                    /\ regs' = RegDefaults /\ status' = {} /\ booting' = TRUE
                    /\ reading' = NoSample
               [] frame[1] = WRITE /\ frame[2] \in ConfigRegisters ->
                    /\ regs' = [regs EXCEPT ![frame[2]] = b % Width(frame[2])]
                    /\ UNCHANGED <<status, booting, reading>>
               [] OTHER -> UNCHANGED <<regs, status, booting, reading>>
      BY <1>3, <2>1 DEF Hears
    <2>4. frame' = Heard(f, sent + 1)
      BY <1>1, <1>6, <2>3, HeardNext
    <2>5. Answer = IF f[1] = READ THEN RegByte(a) ELSE 0
      BY <2>1, <2>2 DEF Answer
    <2>6. CASE f[1] = READ
      <3>2. f[1] # WRITE
        BY <2>6, Literals
      <3>1. status' = status \ ClearedBy(a) /\ UNCHANGED <<regs, booting, reading>>
        BY <1>2, <2>2, <2>3, <2>6, <3>2, Zenon
      <3> QED
        BY <2>4, <2>5, <3>1, <3>2
    <2>7. CASE f[1] = WRITE /\ f[2] = SOFT_RESET
      <3>1. Size(f) = 3 /\ f[3] = 82
        BY <1>1, <2>7, WriteFrames
      <3>2. sent = 2 /\ b = 82 /\ a = SOFT_RESET
        BY <1>1, <1>6, <2>7, <3>1, Literals DEF b
      <3>3. regs' = RegDefaults /\ status' = {} /\ booting' = TRUE /\ reading' = NoSample
        BY <1>2, <2>2, <2>3, <2>7, <3>2, Literals
      <3>4. f[1] # READ
        BY <2>7, Literals
      <3> QED
        BY <2>4, <2>5, <2>7, <3>3, <3>4
    <2>8. CASE f[1] = WRITE /\ f[2] # SOFT_RESET
      <3>1. f[2] \in 32..45
        BY <1>1, <2>8, WriteFrames
      <3>2. a \in ConfigRegisters /\ a # SOFT_RESET
        BY <1>1, <1>6, <3>1, Literals
      <3>4. f[1] # READ
        BY <2>8, Literals
      <3>3. regs' = [regs EXCEPT ![a] = b % Width(a)] /\ UNCHANGED <<status, booting, reading>>
        BY <1>2, <2>2, <2>3, <2>8, <3>2, <3>4, Zenon
      <3> QED
        BY <2>4, <2>5, <2>8, <3>2, <3>3, <3>4
    <2> QED
      BY <1>1, <2>6, <2>7, <2>8
  <1>7. (sent < 2 /\ ~(sent >= 2)) \/ (sent >= 2 /\ ~(sent < 2))
    BY <1>1
  <1> QED
    BY <1>3, <1>4, <1>5, <1>6, <1>7, Zenon DEF b

-----------------------------------------------------------------------------
(* What a step keeps.                                                      *)

LEMMA RegsKept ==
  ASSUME MeasuresConfigured, regs' = regs
  PROVE  MeasuresConfigured'
  BY DEF MeasuresConfigured, Measuring, Pair

LEMMA ResultKept ==
  ASSUME SampleWhole, result' = result
  PROVE  SampleWhole'
  BY DEF SampleWhole

LEMMA NothingReturned ==
  ASSUME result' = NoResult
  PROVE  SampleWhole'
  BY DEF SampleWhole, NoResult

LEMMA IdleScript ==
  ASSUME ~Busy'
  PROVE  Scripted' /\ Written' /\ ReadBack'
  BY DEF Scripted, Written, ReadBack, Busy

LEMMA Objects ==
  ASSUME NEW r \in {0, 2, 4, 8}, NEW a \in Level, NEW b \in Byte, NEW c \in Level, NEW d \in Word
  PROVE  [range |-> r, activeThresh |-> a, activeTimer |-> b, inactiveThresh |-> c, inactiveTimer |-> d]
            \in Object
  BY DEF Object

LEMMA BeginKeeps ==
  ASSUME IInv, ACL2c_begin
  PROVE  IInv'
  <1>1. /\ pc = "down" /\ pc' = "ready" /\ selected' = FALSE /\ frame' = << >>
        /\ UNCHANGED <<call, frames, bytearray, sent, result, prepared,
                       regs, status, booting, reading, latched>>
    BY DEF ACL2c_begin, BeginGpio, DriveSelectHigh
  <1>2. acl2' = [range |-> acl2.range, activeThresh |-> 32, activeTimer |-> 100,
                 inactiveThresh |-> 26, inactiveTimer |-> 100]
    BY DEF ACL2c_begin
  <1>3. acl2.range \in {0, 2, 4, 8}
    BY ObjectFields DEF IInv, Types
  <1>4. ~Busy /\ ~Busy'
    BY <1>1 DEF Busy
  <1>5. Types'
    <2>1. acl2' \in Object
      <3>1. 32 \in Level /\ 100 \in Byte /\ 26 \in Level /\ 100 \in Word
        BY Bytes, Levels, Words
      <3> QED
        BY <1>2, <1>3, <3>1, Objects
    <2>2. frame' \in Seq(Byte) /\ Len(frame') <= 2
      BY <1>1
    <2> QED
      BY <1>1, <2>1, <2>2 DEF IInv, Types
  <1>6. InStep'
    BY <1>1, <1>4 DEF IInv, InStep
  <1>7. Prepared'
    <2>1. prepared \in {"no", "reset", "delayed"}
      BY DEF IInv, Types
    <2> QED
      BY <1>1, <1>4, <2>1 DEF IInv, Prepared
  <1>8. Ranged'
    <2>1. acl2'.range = acl2.range
      BY <1>2
    <2>2. result' = NoResult /\ result'.fn # "setRange"
      BY <1>1 DEF IInv, Ranged, NoResult
    <2>3. prepared' = prepared /\ call'.fn = call.fn /\ regs'[FILTER_CTL] = regs[FILTER_CTL]
      BY <1>1
    <2> QED
      BY <1>1, <1>4, <2>1, <2>2, <2>3 DEF IInv, Ranged
  <1>9. Chosen'
    <2>1. /\ acl2'.activeThresh = Defaults.activeThresh /\ acl2'.activeTimer = Defaults.activeTimer
          /\ acl2'.inactiveThresh = Defaults.inactiveThresh
          /\ acl2'.inactiveTimer = Defaults.inactiveTimer
      BY <1>2 DEF Defaults
    <2> QED
      BY <2>1 DEF Chosen
  <1> QED
    BY <1>1, <1>4, <1>5, <1>6, <1>7, <1>8, <1>9, RegsKept, ResultKept, IdleScript DEF IInv

LEMMA EndKeeps ==
  ASSUME IInv, ACL2c_end
  PROVE  IInv'
  <1>1. /\ pc = "ready" /\ prepared = "no" /\ pc' = "ended"
        /\ UNCHANGED <<acl2, call, frames, bytearray, sent, result, prepared, selected,
                       frame, regs, status, booting, reading, latched>>
    BY DEF ACL2c_end, sensorVars
  <1>2. ~Busy /\ ~Busy'
    BY <1>1 DEF Busy
  <1>3. Types'
    BY <1>1 DEF IInv, Types
  <1>4. InStep'
    BY <1>1, <1>2 DEF IInv, InStep
  <1>5. Prepared'
    BY <1>1, <1>2 DEF IInv, Prepared
  <1>6. Ranged'
    BY <1>1, <1>2 DEF IInv, Ranged
  <1>7. Chosen'
    BY <1>1 DEF IInv, Chosen
  <1> QED
    BY <1>1, <1>2, <1>3, <1>4, <1>5, <1>6, <1>7, RegsKept, ResultKept, IdleScript DEF IInv

LEMMA DelayKeeps ==
  ASSUME IInv, delayAfterReset
  PROVE  IInv'
  <1>1. /\ pc = "ready" /\ prepared = "reset" /\ booting' = FALSE /\ prepared' = "delayed"
        /\ UNCHANGED <<pc, acl2, call, frames, bytearray, sent, result, selected,
                       frame, regs, status, reading, latched>>
    BY DEF delayAfterReset
  <1>2. ~Busy /\ ~Busy'
    BY <1>1 DEF Busy
  <1>3. Types'
    BY <1>1 DEF IInv, Types
  <1>4. InStep'
    BY <1>1, <1>2 DEF IInv, InStep
  <1>5. Prepared'
    BY <1>1, <1>2 DEF IInv, Prepared
  <1>6. Ranged'
    BY <1>1, <1>2 DEF IInv, Ranged
  <1>7. Chosen'
    BY <1>1 DEF IInv, Chosen
  <1> QED
    BY <1>1, <1>2, <1>3, <1>4, <1>5, <1>6, <1>7, RegsKept, ResultKept, IdleScript DEF IInv

LEMMA PresetKeeps ==
  ASSUME IInv, presetLinkedMode
  PROVE  IInv'
  <1>1. /\ pc = "ready" /\ prepared = "no"
        /\ UNCHANGED <<pc, call, frames, bytearray, sent, result, prepared, selected,
                       frame, regs, status, booting, reading, latched>>
    BY DEF presetLinkedMode, sensorVars
  <1>2. PICK p \in Presets :
          acl2' = [acl2 EXCEPT !.activeThresh = p.activeThresh, !.activeTimer = p.activeTimer,
                               !.inactiveThresh = p.inactiveThresh,
                               !.inactiveTimer = p.inactiveTimer]
    BY Zenon DEF presetLinkedMode
  <1>3. ~Busy /\ ~Busy'
    BY <1>1 DEF Busy
  <1>4. /\ p.activeThresh \in Level /\ p.activeTimer \in Byte
        /\ p.inactiveThresh \in Level /\ p.inactiveTimer \in Word
    <2>1. p \in [activeThresh: Level, activeTimer: Byte, inactiveThresh: Level, inactiveTimer: Word]
      <3>1. Fields = [activeThresh: Level, activeTimer: Byte, inactiveThresh: Level,
                      inactiveTimer: Word]
        BY Zenon DEF Fields
      <3>2. p \in Fields
        BY PresetsAssumption, Zenon
      <3> QED
        BY <3>1, <3>2, Zenon
    <2> QED
      BY <2>1
  <1>5. /\ acl2' \in Object /\ acl2'.range = acl2.range
        /\ acl2'.activeThresh = p.activeThresh     /\ acl2'.activeTimer = p.activeTimer
        /\ acl2'.inactiveThresh = p.inactiveThresh /\ acl2'.inactiveTimer = p.inactiveTimer
    <2>1. acl2 \in Object
      BY DEF IInv, Types
    <2> QED
      BY <1>2, <1>4, <2>1 DEF Object
  <1>6. Types'
    BY <1>1, <1>5 DEF IInv, Types
  <1>7. InStep'
    BY <1>1, <1>3 DEF IInv, InStep
  <1>8. Prepared'
    BY <1>1, <1>3 DEF IInv, Prepared
  <1>9. Ranged'
    BY <1>1, <1>3, <1>5 DEF IInv, Ranged
  <1>10. Chosen'
    BY <1>5 DEF Chosen
  <1> QED
    BY <1>1, <1>3, <1>6, <1>7, <1>8, <1>9, <1>10, RegsKept, ResultKept, IdleScript DEF IInv

LEMMA SameScript ==
  ASSUME UNCHANGED <<call, frames, acl2>>
  PROVE  /\ Left' = Left /\ (Configures' <=> Configures)
         /\ ThreshData' = ThreshData /\ CtlData' = CtlData
         /\ \A k \in Int : ConfFrame(k)' = ConfFrame(k)
  <1>1. Left' = Left /\ (Configures' <=> Configures)
    BY DEF Left, Configures
  <1>2. ThreshData' = ThreshData /\ CtlData' = CtlData
    BY DEF ThreshData, CtlData
  <1>3. \A k \in Int : ConfFrame(k)' = ConfFrame(k)
    BY <1>2 DEF ConfFrame
  <1> QED
    BY <1>1, <1>2, <1>3

LEMMA ScriptKept ==
  ASSUME Scripted, Busy, UNCHANGED <<call, frames, acl2>>
  PROVE  Scripted'
  <1>1. /\ Left' = Left /\ (Configures' <=> Configures)
        /\ \A k \in Int : ConfFrame(k)' = ConfFrame(k)
    BY SameScript
  <1>2. ASSUME Configures', NEW i \in 1..Left'
        PROVE  frames'[i] = ConfFrame(Left + 1 - i)'
    <2>1. Left \in 1..6 /\ i \in 1..Left /\ frames[i] = ConfFrame(Left + 1 - i)
      BY <1>1, <1>2 DEF Scripted
    <2>2. Left + 1 - i \in Int
      BY <2>1
    <2> QED
      BY <1>1, <2>1, <2>2
  <1> QED
    BY <1>1, <1>2 DEF Scripted

LEMMA SensorEventKeeps ==
  ASSUME IInv, SensorEvent
  PROVE  IInv'
  <1>1. /\ ~booting /\ status' \in SUBSET Events /\ reading' \in Taken
        /\ UNCHANGED <<pc, acl2, call, frames, bytearray, sent, result, prepared, selected,
                       frame, regs, booting, latched>>
    BY DEF SensorEvent, programVars, IInv, Types, Events, Taken
  <1>2. Busy' <=> Busy
    BY <1>1 DEF Busy
  <1>3. Left' = Left /\ (Configures' <=> Configures) /\ ThreshData' = ThreshData /\ CtlData' = CtlData
    BY <1>1, SameScript
  <1>4. Types'
    BY <1>1 DEF IInv, Types
  <1>5. InStep'
    BY <1>1, <1>2 DEF IInv, InStep
  <1>6. Scripted'
    BY <1>1, <1>2, ScriptKept, IdleScript DEF IInv
  <1>7. ReadBack'
    BY <1>1 DEF IInv, ReadBack, DataByte
  <1>8. Written'
    BY <1>1, <1>2, <1>3 DEF IInv, Written, Got
  <1>9. Prepared'
    BY <1>1, <1>2, <1>3 DEF IInv, Prepared
  <1>10. Ranged'
    BY <1>1, <1>2, <1>3 DEF IInv, Ranged
  <1>11. pc' # "down" => Chosen'
    BY <1>1 DEF IInv, Chosen
  <1> QED
    BY <1>1, <1>4, <1>5, <1>6, <1>7, <1>8, <1>9, <1>10, <1>11, RegsKept, ResultKept DEF IInv

LEMMA ProcessorResetKeeps ==
  ASSUME IInv, ProcessorReset
  PROVE  IInv'
  <1>1. /\ pc' = "down" /\ acl2' = ZeroedObject /\ call' = NoCall /\ frames' = << >>
        /\ bytearray' = << >> /\ sent' = 0 /\ result' = NoResult /\ prepared' = "no"
        /\ booting' = FALSE /\ latched' = NoSample
        /\ UNCHANGED <<regs, status, reading>>
    BY DEF ProcessorReset
  <1>2. ~Busy'
    BY <1>1 DEF Busy
  <1>3. Types'
    <2>1. acl2' \in Object
      <3>1. 0 \in {0, 2, 4, 8} /\ 0 \in Level /\ 0 \in Byte /\ 0 \in Word
        BY Bytes, Levels, Words
      <3> QED
        BY <1>1, <3>1, Objects DEF ZeroedObject
    <2>2. selected' \in BOOLEAN
      BY DEF ProcessorReset, DriveSelectHigh, IInv, Types
    <2>3. frame' \in Seq(Byte) /\ Len(frame') <= 2
      <3>1. frame \in Seq(Byte) /\ Len(frame) <= 2
        BY DEF IInv, Types
      <3>2. frame' = frame \/ frame' = << >>
        BY DEF ProcessorReset, DriveSelectHigh
      <3>3. ASSUME frame' = << >> PROVE frame' \in Seq(Byte) /\ Len(frame') <= 2
        BY <3>3
      <3> QED
        BY <3>1, <3>2, <3>3, Zenon
    <2> QED
      BY <1>1, <2>1, <2>2, <2>3 DEF IInv, Types, Taken
  <1>4. InStep'
    BY <1>1, <1>2 DEF InStep
  <1>5. Prepared'
    BY <1>1, <1>2 DEF Prepared
  <1>6. Ranged'
    BY <1>1, <1>2 DEF Ranged, NoResult, ZeroedObject
  <1> QED
    BY <1>1, <1>2, <1>3, <1>4, <1>5, <1>6, RegsKept, NothingReturned, IdleScript DEF IInv

LEMMA SelectKeeps ==
  ASSUME IInv, select
  PROVE  IInv'
  <1>1. /\ pc = "select" /\ pc' = "transfer" /\ selected' = TRUE
        /\ bytearray' = Head(frames) /\ sent' = 0 /\ latched' = reading
        /\ UNCHANGED <<acl2, call, frames, result, prepared, frame, regs, status, booting, reading>>
    BY DEF select
  <1>2. Busy /\ Busy'
    BY <1>1 DEF Busy
  <1>3. Left' = Left /\ (Configures' <=> Configures) /\ ThreshData' = ThreshData /\ CtlData' = CtlData
    BY <1>1, SameScript
  <1>4. Types'
    BY <1>1 DEF IInv, Types
  <1>5. InStep'
    <2>1. /\ frames \in Seq(Seq(Byte)) /\ frames # << >> /\ frames[1] \in Frames
          /\ frame = << >>
      BY <1>1, <1>2 DEF IInv, InStep
    <2>2. bytearray' = frames[1]
      BY <1>1, <2>1
    <2>3. frames[1] \in Seq(Byte)
      BY <2>1 DEF Frames
    <2>4. Size(bytearray') = Size(frames[1])
      BY <2>2
    <2>5. 0 \in 0..Size(frames[1])
      <3>1. Size(frames[1]) \in 3..10
        BY <2>1, FrameBytes
      <3> QED
        BY ONLY <3>1
    <2>6. frame' = Heard(frames[1], 0)
      BY <1>1, <2>1 DEF Heard
    <2> QED
      BY <1>1, <1>2, <2>1, <2>2, <2>3, <2>4, <2>5, <2>6 DEF InStep
  <1>6. Scripted'
    BY <1>1, <1>2, ScriptKept DEF IInv
  <1>7. ReadBack'
    BY <1>1 DEF ReadBack
  <1>8. Written'
    <2>1. sent = 0
      BY <1>1 DEF IInv, InStep
    <2> QED
      BY <1>1, <1>2, <1>3, <2>1 DEF IInv, Written, Got
  <1>9. Prepared'
    BY <1>1, <1>2, <1>3 DEF IInv, Prepared
  <1>10. Ranged'
    BY <1>1, <1>2, <1>3 DEF IInv, Ranged
  <1>11. Chosen'
    BY <1>1 DEF IInv, Chosen
  <1> QED
    BY <1>1, <1>4, <1>5, <1>6, <1>7, <1>8, <1>9, <1>10, <1>11, RegsKept, ResultKept DEF IInv

(* A function is called, with what it sends.                               *)
LEMMA CallKeeps ==
  ASSUME IInv, NEW fn, NEW arg, NEW toSend, Call(fn, arg, toSend),
         toSend \in Seq(Seq(Byte)), toSend # << >>, toSend[1] \in Frames,
         Scripted',
         IF fn \in {"configureMeasureMode", "configureLinkedMode"}
         THEN prepared = "delayed" /\ Left' = 6
         ELSE prepared = "no" /\ (fn = "setRange" => Left' = 3)
  PROVE  IInv'
  <1>1. /\ pc = "ready" /\ pc' = "select" /\ call' = [fn |-> fn, arg |-> arg]
        /\ frames' = toSend /\ result' = NoResult
        /\ UNCHANGED <<acl2, bytearray, sent, prepared, selected,
                       frame, regs, status, booting, reading, latched>>
    BY DEF Call, sensorVars
  <1>2. Busy' /\ ~Busy
    BY <1>1 DEF Busy
  <1>3. call'.fn = fn /\ (Configures' <=> fn \in {"configureMeasureMode", "configureLinkedMode"})
    BY <1>1 DEF Configures
  <1>4. bytearray = << >> /\ sent = 0 /\ ~selected /\ frame = << >> /\ call = NoCall
    BY <1>1, <1>2 DEF IInv, InStep
  <1>5. Types'
    BY <1>1 DEF IInv, Types
  <1>6. InStep'
    BY <1>1, <1>2, <1>4 DEF InStep
  <1>7. ReadBack'
    BY <1>1 DEF ReadBack
  <1>8. Prepared'
    BY <1>1, <1>2, <1>3, <1>4 DEF IInv, Prepared
  <1>9. Written'
    <2> SUFFICES ASSUME Configures' PROVE Written'
      BY <1>2 DEF Written
    <2>1. Left' = 6 /\ sent' = 0 /\ prepared = "delayed"
      BY <1>1, <1>3, <1>4
    <2>2. /\ regs'[ACT_INACT_CTL] = 0 /\ regs'[FIFO_CONTROL] = 0
          /\ regs'[FILTER_CTL] = 19 /\ regs'[POWER_CTL] = 0
      <3>1. regs' = RegDefaults
        BY <1>1, <2>1 DEF IInv, Prepared
      <3> QED
        BY <3>1, Reset, Literals
    <2>3. /\ \A i \in 1..7 : ~Got(6, i)'
          /\ ~Got(5, 1)' /\ ~Got(4, 1)' /\ ~Got(4, 2)' /\ ~Got(3, 1)' /\ ~Got(2, 1)'
      BY <2>1 DEF Got
    <2> QED
      BY <2>2, <2>3 DEF Written
  <1>10. Ranged'
    <2>1. result'.fn # "setRange" /\ call.fn \notin {"reset", "setRange"}
      BY <1>1, <1>4 DEF NoResult, NoCall
    <2>2. Ranged
      BY DEF IInv
    <2> QED
      BY <1>1, <1>2, <1>3, <1>4, <2>1, <2>2 DEF Ranged
  <1>11. Chosen'
    BY <1>1 DEF IInv, Chosen
  <1> QED
    BY <1>1, <1>5, <1>6, <1>7, <1>8, <1>9, <1>10, <1>11, RegsKept, NothingReturned DEF IInv

LEMMA CallReadKeeps ==
  ASSUME IInv, prepared = "no", NEW fn \in {"getStatus", "getSample", "getData"}, NEW arg,
         NEW reg, NEW n, Call(fn, arg, << ACL2c_ReadSpi(reg, n) >>),
         CASE fn = "getStatus" -> reg = STATUS /\ n = 1
           [] fn = "getSample" -> reg = XDATA_L /\ n = 8
           [] fn = "getData"   -> reg = arg /\ arg \in DataPairs /\ n = 2
  PROVE  IInv'
  <1> DEFINE f == ACL2c_ReadSpi(reg, n)
  <1>1. f \in Frames
    BY ReadFrame
  <1>2. f \in Seq(Byte)
    BY <1>1 DEF Frames
  <1>3. call' = [fn |-> fn, arg |-> arg] /\ frames' = <<f>>
    BY DEF Call
  <1>4. call'.fn = fn /\ call'.arg = arg
    BY <1>3
  <1>5. Scripted'
    BY <1>3, <1>4 DEF Scripted, Configures, Calls, ACL2c_getStatus, ACL2c_getSample, ACL2c_getData
  <1> HIDE DEF f
  <1>6. <<f>> \in Seq(Seq(Byte)) /\ <<f>> # << >> /\ <<f>>[1] \in Frames
    BY <1>1, <1>2, Single
  <1>7. Call(fn, arg, <<f>>)
    BY DEF f
  <1> QED
    BY <1>5, <1>6, <1>7, CallKeeps

LEMMA CallResetKeeps ==
  ASSUME IInv, prepared = "no", Call("reset", 0, ACL2c_reset)
  PROVE  IInv'
  <1> DEFINE f == ACL2c_WriteSpi(SOFT_RESET, <<82>>)
  <1>1. f \in Frames
    BY ResetFrame
  <1>2. f \in Seq(Byte)
    BY <1>1 DEF Frames
  <1>3. call' = [fn |-> "reset", arg |-> 0] /\ frames' = ACL2c_reset
    BY DEF Call
  <1>4. call'.fn = "reset"
    BY <1>3
  <1>5. Scripted'
    BY <1>3, <1>4 DEF Scripted, Configures, Calls
  <1>6. Call("reset", 0, <<f>>)
    BY DEF ACL2c_reset
  <1> HIDE DEF f
  <1>7. <<f>> \in Seq(Seq(Byte)) /\ <<f>> # << >> /\ <<f>>[1] \in Frames
    BY <1>1, <1>2, Single
  <1> QED
    BY <1>5, <1>6, <1>7, CallKeeps

LEMMA SetRangeFrames ==
  ASSUME NEW r \in Ranges, NEW t \in Byte, NEW s, s = ACL2c_setRange(r, t)
  PROVE  /\ s \in Seq(Seq(Byte)) /\ Len(s) = 3 /\ s # << >>
         /\ s[1] = ACL2c_ReadSpi(FILTER_CTL, 1) /\ s[1] \in Frames
         /\ s[2] = ACL2c_WriteSpi(FILTER_CTL, <<WithRange(t, r)>>)
         /\ s[3] = ACL2c_ReadSpi(FILTER_CTL, 1)
         /\ Tail(s) \in Seq(Seq(Byte)) /\ Len(Tail(s)) = 2
         /\ Tail(s)[1] = ACL2c_WriteSpi(FILTER_CTL, <<WithRange(t, r)>>)
         /\ Tail(s)[2] = ACL2c_ReadSpi(FILTER_CTL, 1)
  <1> DEFINE a == ACL2c_ReadSpi(FILTER_CTL, 1)
             b == ACL2c_WriteSpi(FILTER_CTL, <<WithRange(t, r)>>)
  <1>1. a \in Frames
    BY ReadFrame
  <1>2. a \in Seq(Byte)
    BY <1>1 DEF Frames
  <1>3. b \in Seq(Byte)
    <2>1. FILTER_CTL \in Byte
      BY Literals
    <2>2. WithRange(t, r) \in Byte
      BY RangeBitsKept, Zenon
    <2> QED
      BY <2>1, <2>2, WriteOne
  <1>4. s = (<<a>> \o <<b>>) \o <<a>>
    BY DEF ACL2c_setRange, ACL2c_updateRange
  <1> HIDE DEF a, b
  <1>5. /\ s \in Seq(Seq(Byte)) /\ Len(s) = 3 /\ s[1] = a /\ s[2] = b /\ s[3] = a
        /\ Tail(s) \in Seq(Seq(Byte)) /\ Len(Tail(s)) = 2 /\ Tail(s)[1] = b /\ Tail(s)[2] = a
    BY <1>2, <1>3, <1>4, Triple
  <1>6. s # << >>
    BY <1>5
  <1> QED
    BY <1>1, <1>5, <1>6 DEF a, b

LEMMA CallSetRangeKeeps ==
  ASSUME IInv, prepared = "no", NEW r \in Ranges, Call("setRange", r, ACL2c_setRange(r, 0))
  PROVE  IInv'
  <1> DEFINE s == ACL2c_setRange(r, 0)
  <1>1. 0 \in Byte
    BY Literals
  <1>2. Call("setRange", r, s)
    OBVIOUS
  <1>3. call' = [fn |-> "setRange", arg |-> r] /\ frames' = s
    BY DEF Call
  <1>4. /\ s \in Seq(Seq(Byte)) /\ Len(s) = 3 /\ s # << >> /\ s[1] \in Frames
        /\ s[1] = ACL2c_ReadSpi(FILTER_CTL, 1)
    BY <1>1, SetRangeFrames
  <1> HIDE DEF s
  <1>5. Left' = 3
    BY <1>3, <1>4 DEF Left
  <1>6. call'.fn = "setRange" /\ call'.arg = r
    BY <1>3
  <1>7. Scripted'
    BY <1>3, <1>4, <1>5, <1>6 DEF Scripted, Configures, Calls
  <1> QED
    BY <1>2, <1>4, <1>5, <1>7, CallKeeps

LEMMA CallAnyKeeps ==
  ASSUME IInv, CallAny
  PROVE  IInv'
  <1>1. prepared = "no"
    BY DEF CallAny
  <1>2. CASE Call("reset", 0, ACL2c_reset)
    BY <1>1, <1>2, CallResetKeeps
  <1>3. CASE Call("getStatus", 0, ACL2c_getStatus)
    BY <1>1, <1>3, CallReadKeeps DEF ACL2c_getStatus
  <1>4. CASE Call("getSample", 0, ACL2c_getSample)
    BY <1>1, <1>4, CallReadKeeps DEF ACL2c_getSample
  <1>5. ASSUME NEW reg \in DataPairs, Call("getData", reg, ACL2c_getData(reg)) PROVE IInv'
    BY <1>1, <1>5, CallReadKeeps DEF ACL2c_getData
  <1>6. CASE Call("getData", TEMP_L, ACL2c_getTemp)
    <2>1. TEMP_L \in DataPairs
      BY Literals
    <2> QED
      BY <1>5, <1>6, <2>1 DEF ACL2c_getTemp
  <1>7. ASSUME NEW newRange \in {2, 3, 4, 8},
               Call("setRange", newRange, ACL2c_setRange(newRange, 0))
        PROVE  IInv'
    BY <1>1, <1>7, CallSetRangeKeeps DEF Ranges
  <1> QED
    BY <1>2, <1>3, <1>4, <1>5, <1>6, <1>7 DEF CallAny

LEMMA ConfAreFrames ==
  acl2 \in Object => \A k \in 1..6 : ConfFrame(k) \in Frames
  BY ConfFrames

LEMMA CallConfKeeps ==
  ASSUME IInv, prepared = "delayed", NEW fn \in {"configureMeasureMode", "configureLinkedMode"},
         NEW toSend, Call(fn, 0, toSend),
         toSend = <<ConfFrame(6)', ConfFrame(5)'>>
                     \o <<ConfFrame(4)', ConfFrame(3)', ConfFrame(2)', ConfFrame(1)'>>
  PROVE  IInv'
  <1>1. call' = [fn |-> fn, arg |-> 0] /\ frames' = toSend /\ acl2' = acl2
    BY DEF Call
  <1>2. acl2' \in Object
    BY <1>1 DEF IInv, Types
  <1>3. \A k \in 1..6 : ConfFrame(k)' \in Frames
    <2>1. (acl2 \in Object => \A k \in 1..6 : ConfFrame(k) \in Frames)'
      BY ConfAreFrames, PTL
    <2> QED
      BY <1>2, <2>1
  <1>4. \A k \in 1..6 : ConfFrame(k)' \in Seq(Byte)
    BY <1>3 DEF Frames
  <1>5. /\ toSend \in Seq(Seq(Byte)) /\ Len(toSend) = 6
        /\ toSend[1] = ConfFrame(6)' /\ toSend[2] = ConfFrame(5)' /\ toSend[3] = ConfFrame(4)'
        /\ toSend[4] = ConfFrame(3)' /\ toSend[5] = ConfFrame(2)' /\ toSend[6] = ConfFrame(1)'
    <2>1. /\ ConfFrame(6)' \in Seq(Byte) /\ ConfFrame(5)' \in Seq(Byte)
          /\ ConfFrame(4)' \in Seq(Byte) /\ ConfFrame(3)' \in Seq(Byte)
          /\ ConfFrame(2)' \in Seq(Byte) /\ ConfFrame(1)' \in Seq(Byte)
      BY <1>4
    <2> QED
      BY <2>1, Sextuple
  <1>6. Left' = 6 /\ toSend # << >>
    BY <1>1, <1>5 DEF Left
  <1>7. toSend[1] \in Frames
    BY <1>3, <1>5
  <1>8. call'.fn = fn /\ Configures'
    BY <1>1 DEF Configures
  <1>9. \A i \in 1..6 : frames'[i] = ConfFrame(6 + 1 - i)'
    <2>1. ASSUME NEW i \in 1..6 PROVE toSend[i] = ConfFrame(7 - i)'
      <3>1. i = 1 \/ i = 2 \/ i = 3 \/ i = 4 \/ i = 5 \/ i = 6
        OBVIOUS
      <3> QED
        BY <1>5, <3>1
    <2> QED
      BY <1>1, <2>1
  <1>10. Scripted'
    BY <1>6, <1>8, <1>9 DEF Scripted, Calls
  <1> QED
    BY <1>5, <1>6, <1>7, <1>10, CallKeeps

LEMMA CallConfigureKeeps ==
  ASSUME IInv, CallConfigure
  PROVE  IInv'
  <1>1. prepared = "delayed"
    BY DEF CallConfigure
  <1>2. CASE Call("configureMeasureMode", 0, ACL2c_configureMeasureMode)
    <2>1. call'.fn = "configureMeasureMode"
      BY <1>2 DEF Call
    <2>2. /\ ThreshData' = <<20, 0, 100, 16, 0, 100, 0>> /\ CtlData' = <<5>>
      BY <2>1 DEF ThreshData, CtlData
    <2>3. /\ ConfFrame(6)' = ACL2c_WriteSpi(THRESH_ACT_L, <<20, 0, 100, 16, 0, 100, 0>>)
          /\ ConfFrame(5)' = ACL2c_WriteSpi(ACT_INACT_CTL, <<5>>)
          /\ ConfFrame(4)' = ACL2c_WriteSpi(FIFO_CONTROL, <<0, 0>>)
          /\ ConfFrame(3)' = ACL2c_WriteSpi(FILTER_CTL, <<19>>)
          /\ ConfFrame(2)' = ACL2c_WriteSpi(POWER_CTL, <<34>>)
          /\ ConfFrame(1)' = ACL2c_ReadSpi(FILTER_CTL, 1)
      BY <2>2 DEF ConfFrame
    <2>4. ACL2c_configureMeasureMode = <<ConfFrame(6)', ConfFrame(5)'>>
                     \o <<ConfFrame(4)', ConfFrame(3)', ConfFrame(2)', ConfFrame(1)'>>
      BY <2>3, Zenon DEF ACL2c_configureMeasureMode, CommonFrames
    <2> QED
      BY <1>1, <1>2, <2>4, CallConfKeeps
  <1>3. CASE Call("configureLinkedMode", 0, ACL2c_configureLinkedMode(acl2))
    <2>1. call'.fn = "configureLinkedMode" /\ acl2' = acl2
      BY <1>3 DEF Call
    <2>2. /\ ThreshData' = <<Low(acl2.activeThresh), High(acl2.activeThresh), acl2.activeTimer,
                             Low(acl2.inactiveThresh), High(acl2.inactiveThresh),
                             Low(acl2.inactiveTimer), High(acl2.inactiveTimer)>>
          /\ CtlData' = <<31>>
      BY <2>1 DEF ThreshData, CtlData
    <2>3. /\ ConfFrame(6)' = ACL2c_WriteSpi(THRESH_ACT_L,
                  <<Low(acl2.activeThresh), High(acl2.activeThresh), acl2.activeTimer,
                    Low(acl2.inactiveThresh), High(acl2.inactiveThresh),
                    Low(acl2.inactiveTimer), High(acl2.inactiveTimer)>>)
          /\ ConfFrame(5)' = ACL2c_WriteSpi(ACT_INACT_CTL, <<31>>)
          /\ ConfFrame(4)' = ACL2c_WriteSpi(FIFO_CONTROL, <<0, 0>>)
          /\ ConfFrame(3)' = ACL2c_WriteSpi(FILTER_CTL, <<19>>)
          /\ ConfFrame(2)' = ACL2c_WriteSpi(POWER_CTL, <<34>>)
          /\ ConfFrame(1)' = ACL2c_ReadSpi(FILTER_CTL, 1)
      BY <2>2 DEF ConfFrame
    <2>4. ACL2c_configureLinkedMode(acl2) = <<ConfFrame(6)', ConfFrame(5)'>>
                     \o <<ConfFrame(4)', ConfFrame(3)', ConfFrame(2)', ConfFrame(1)'>>
      BY <2>3, Zenon DEF ACL2c_configureLinkedMode, CommonFrames
    <2> QED
      BY <1>1, <1>3, <2>4, CallConfKeeps
  <1> QED
    BY <1>2, <1>3 DEF CallConfigure

-----------------------------------------------------------------------------
(* What a byte exchanged keeps.                                            *)

LEMMA WriteAddress ==
  ASSUME NEW f \in Frames, f[1] = WRITE, f[2] # SOFT_RESET, NEW n \in 2..Size(f) - 1,
         NEW a, a = f[2] + n - 2
  PROVE  /\ a \in 32..45
         /\ a = 44 => f[2] = 44 /\ n = 2 /\ f[n + 1] = f[3] /\ f[3] \in FilterValues
         /\ a = 45 => f[2] = 45 /\ n = 2
         /\ f[n + 1] \in Byte
         /\ f[n + 1] % Width(a) \in Byte /\ Width(44) = 256 /\ Width(45) = 256
  <1>1. f[2] \in Int /\ Size(f) \in 3..10 /\ n \in Int /\ \A i \in 1..Size(f) : f[i] \in Byte
    BY FrameBytes
  <1>2. \/ f[2] = 32 /\ Size(f) = 9
        \/ f[2] \in {39, 45} /\ Size(f) = 3
        \/ f[2] = 40 /\ Size(f) = 4
        \/ f[2] = 44 /\ Size(f) = 3 /\ f[3] \in FilterValues
    <2>1. f[1] = 10 /\ SOFT_RESET = 31
      BY Literals
    <2> QED
      BY <2>1, FrameShape
  <1>3. f[n + 1] \in Byte
    BY <1>1
  <1>4. f[n + 1] % Width(a) \in Byte /\ Width(44) = 256 /\ Width(45) = 256
    BY <1>3, Literals DEF Width
  <1>5. /\ a \in 32..45
        /\ a = 44 => f[2] = 44 /\ n = 2 /\ f[3] \in FilterValues
        /\ a = 45 => f[2] = 45 /\ n = 2
    BY <1>1, <1>2
  <1> QED
    BY <1>3, <1>4, <1>5

(* The registers after the byte, in the three cases.                       *)
Untouched  == UNCHANGED <<regs, booting, reading>> /\ status' \subseteq status
Defaulted  == /\ regs' = RegDefaults /\ status' = {} /\ booting' = TRUE /\ reading' = NoSample
              /\ sent = 2 /\ frames[1][1] = WRITE /\ frames[1][2] = SOFT_RESET
              /\ Size(frames[1]) = 3
WritesByte(a) ==
    /\ regs' = [regs EXCEPT ![a] = frames[1][sent + 1] % Width(a)]
    /\ UNCHANGED <<status, booting, reading>>
    /\ sent >= 2 /\ frames[1][1] = WRITE /\ frames[1][2] # SOFT_RESET
    /\ a = frames[1][2] + sent - 2 /\ a \in 32..45
    /\ frames[1][sent + 1] % Width(a) \in Byte
    /\ a = 44 => frames[1][2] = 44 /\ sent = 2
                   /\ frames[1][sent + 1] = frames[1][3] /\ frames[1][3] \in FilterValues
    /\ a = 45 => frames[1][2] = 45 /\ sent = 2

LEMMA ExchangeCases ==
  ASSUME IInv, exchange
  PROVE  /\ frames[1] \in Frames /\ sent \in 0..Size(frames[1]) - 1 /\ Size(frames[1]) \in 3..10
         /\ sent' = sent + 1 /\ pc = "transfer" /\ ~booting
         /\ UNCHANGED <<pc, acl2, call, frames, result, prepared, selected, latched>>
         /\ \/ Untouched /\ (sent < 2 \/ frames[1][1] = READ)
            \/ Defaulted
            \/ WritesByte(frames[1][2] + sent - 2)
  <1> DEFINE f == frames[1]
             a == f[2] + sent - 2
  <1>1. f \in Frames /\ sent \in 0..Size(f) - 1 /\ pc = "transfer"
    BY Exchanging DEF IInv
  <1>2. Size(f) \in 3..10 /\ f[1] \in {READ, WRITE}
    BY <1>1, FrameBytes
  <1>3. ~booting
    BY NotBooting
  <1>4. /\ sent' = sent + 1
        /\ sent < 2 => UNCHANGED <<regs, status, booting, reading>>
        /\ sent >= 2 /\ f[1] = READ =>
               status' = status \ ClearedBy(a) /\ UNCHANGED <<regs, booting, reading>>
        /\ sent >= 2 /\ f[1] = WRITE /\ f[2] = SOFT_RESET =>
               regs' = RegDefaults /\ status' = {} /\ booting' = TRUE /\ reading' = NoSample
        /\ sent >= 2 /\ f[1] = WRITE /\ f[2] # SOFT_RESET =>
               /\ a \in ConfigRegisters
               /\ regs' = [regs EXCEPT ![a] = f[sent + 1] % Width(a)]
               /\ UNCHANGED <<status, booting, reading>>
        /\ UNCHANGED <<pc, acl2, call, frames, result, prepared, selected, latched>>
    BY ExchangeEffect
  <1>5. CASE sent < 2
    BY <1>1, <1>2, <1>3, <1>4, <1>5 DEF Untouched
  <1>6. CASE sent >= 2 /\ f[1] = READ
    BY <1>1, <1>2, <1>3, <1>4, <1>6 DEF Untouched
  <1>7. CASE sent >= 2 /\ f[1] = WRITE /\ f[2] = SOFT_RESET
    <2>1. Size(f) = 3 /\ sent = 2
      BY <1>1, <1>7, WriteFrames
    <2> QED
      BY <1>1, <1>2, <1>3, <1>4, <1>7, <2>1 DEF Defaulted
  <1>8. CASE sent >= 2 /\ f[1] = WRITE /\ f[2] # SOFT_RESET
    <2>1. sent \in 2..Size(f) - 1
      BY <1>1, <1>2, <1>8
    <2>2. /\ a \in 32..45
          /\ a = 44 => f[2] = 44 /\ sent = 2 /\ f[sent + 1] = f[3] /\ f[3] \in FilterValues
          /\ a = 45 => f[2] = 45 /\ sent = 2
          /\ f[sent + 1] % Width(a) \in Byte
      BY <1>1, <1>8, <2>1, WriteAddress
    <2>3. regs' = [regs EXCEPT ![a] = f[sent + 1] % Width(a)] /\ UNCHANGED <<status, booting, reading>>
      BY <1>4, <1>8
    <2>4. WritesByte(a)
      BY <1>8, <2>2, <2>3, Zenon DEF WritesByte
    <2> QED
      BY <1>1, <1>2, <1>3, <1>4, <2>4, Zenon
  <1>9. (sent < 2) \/ (sent >= 2 /\ ~(sent < 2))
    BY <1>1
  <1> QED
    BY <1>2, <1>5, <1>6, <1>7, <1>8, <1>9, Zenon

LEMMA SampleValues ==
  ASSUME NEW s \in Taken
  PROVE  s \in [1..4 -> Value]
  <1>1. NoSample \in [1..4 -> Value]
    BY Values DEF NoSample
  <1> QED
    BY <1>1, ReadingsAssumption DEF Taken

LEMMA Halves ==
  ASSUME NEW v \in Value
  PROVE  /\ Low(Unsigned(v)) \in Byte /\ High(Unsigned(v)) \in Byte
         /\ ACL2c_RawToInt(Low(Unsigned(v)), High(Unsigned(v))) = v
  <1> DEFINE u == Unsigned(v)
  <1>1. v \in Int /\ u = (IF v >= 0 THEN v ELSE v + 65536) /\ v <= 2047 /\ v >= -2048
    <2>1. v \in Int /\ v <= 2047 /\ v >= -2048
      BY Values
    <2>2. u = v % 65536
      BY DEF Unsigned
    <2> HIDE DEF u
    <2>3. CASE v >= 0
      <3>1. v % 65536 = v
        BY ONLY <2>1, <2>3
      <3> QED
        BY ONLY <2>1, <2>2, <2>3, <3>1
    <2>4. CASE ~(v >= 0)
      <3>1. v < 0 /\ v >= -65536
        BY ONLY <2>1, <2>4
      <3>2. v % 65536 = v + 65536
        BY ONLY <2>1, <3>1
      <3> QED
        BY ONLY <2>1, <2>2, <2>4, <3>2
    <2> QED
      BY <2>3, <2>4
  <1> HIDE DEF u
  <1>3. u \in Word
    <2>1. u \in Int /\ 0 <= u /\ u <= 65535
      BY ONLY <1>1
    <2> QED
      BY <2>1, Words
  <1>4. Low(u) \in Byte /\ High(u) \in Byte /\ Low(u) + 256 * High(u) = u
    BY <1>3, LowHigh, Zenon
  <1>5. Low(u) \in Int /\ High(u) \in Int
    BY <1>4, Literals
  <1>6. 256 * High(u) + Low(u) = u
    BY <1>4, <1>5
  <1>7. ACL2c_RawToInt(Low(u), High(u)) = IF u >= 32768 THEN u - 65536 ELSE u
    BY <1>6 DEF ACL2c_RawToInt
  <1>8. ACL2c_RawToInt(Low(u), High(u)) = v
    BY ONLY <1>1, <1>7
  <1> QED
    BY <1>4, <1>8 DEF u

LEMMA DataBytes ==
  ASSUME latched \in Taken, NEW a \in 14..21
  PROVE  DataByte(a) \in Byte
  <1> DEFINE i == (a - 14) \div 2 + 1
             v == latched[i]
  <1>1. i \in 1..4
    OBVIOUS
  <1>2. v \in Value
    <2> HIDE DEF i
    <2> QED
      BY <1>1, SampleValues
  <1>3. DataByte(a) = IF a % 2 = 0 THEN Low(Unsigned(v)) ELSE High(Unsigned(v))
    BY DEF DataByte
  <1> HIDE DEF v
  <1>4. Low(Unsigned(v)) \in Byte /\ High(Unsigned(v)) \in Byte
    BY <1>2, Halves
  <1> QED
    BY <1>3, <1>4

LEMMA RegBytes ==
  ASSUME Types, NEW a
  PROVE  RegByte(a) \in Byte
  <1>1. StatusByte \in Byte
    BY Literals DEF StatusByte
  <1>2. ASSUME a \in 14..21 PROVE DataByte(a) \in Byte
    BY <1>2, DataBytes DEF Types
  <1>3. \A c \in ConfigRegisters : regs[c] \in Byte
    BY DEF Types
  <1>4. 0 \in Byte
    BY Literals
  <1> QED
    BY <1>1, <1>2, <1>3, <1>4 DEF RegByte

LEMMA BytesExchanged ==
  ASSUME IInv, exchange
  PROVE  /\ bytearray' \in Seq(Byte) /\ Size(bytearray') = Size(frames[1])
         /\ bytearray'[sent + 1] = Answer
         /\ \A i \in 1..Size(frames[1]) : i # sent + 1 => bytearray'[i] = bytearray[i]
  <1>1. bytearray \in Seq(Byte) /\ Size(bytearray) = Size(frames[1]) /\ sent \in 0..Size(frames[1]) - 1
    BY Exchanging DEF IInv
  <1>2. Answer \in Byte
    <2>1. \A a : RegByte(a) \in Byte
      BY RegBytes DEF IInv
    <2>2. 0 \in Byte
      BY Literals
    <2> QED
      BY <2>1, <2>2 DEF Answer
  <1>3. Size(frames[1]) \in 3..10
    BY FrameBytes, Exchanging DEF IInv
  <1>4. sent + 1 \in 1..Size(bytearray)
    BY <1>1, <1>3
  <1>5. bytearray' = [bytearray EXCEPT ![sent + 1] = Answer]
    BY DEF exchange
  <1> DEFINE k == sent + 1
  <1> HIDE DEF k
  <1>6. ASSUME NEW s \in Seq(Byte), NEW j \in 1..Len(s), NEW v \in Byte
        PROVE  /\ [s EXCEPT ![j] = v] \in Seq(Byte) /\ Len([s EXCEPT ![j] = v]) = Len(s)
               /\ [s EXCEPT ![j] = v][j] = v
               /\ \A i \in 1..Len(s) : i # j => [s EXCEPT ![j] = v][i] = s[i]
    OBVIOUS
  <1>7. /\ bytearray' \in Seq(Byte) /\ Len(bytearray') = Len(bytearray) /\ bytearray'[k] = Answer
        /\ \A i \in 1..Len(bytearray) : i # k => bytearray'[i] = bytearray[i]
    <2>1. bytearray \in Seq(Byte) /\ k \in 1..Len(bytearray) /\ Answer \in Byte
          /\ bytearray' = [bytearray EXCEPT ![k] = Answer]
      BY <1>1, <1>2, <1>4, <1>5 DEF k, Size
    <2> QED
      BY ONLY <1>6, <2>1
  <1> QED
    BY <1>1, <1>7 DEF k, Size

LEMMA ExchangeInStep ==
  ASSUME IInv, exchange
  PROVE  InStep'
  <1>1. /\ frames[1] \in Frames /\ sent \in 0..Size(frames[1]) - 1 /\ Size(frames[1]) \in 3..10
        /\ sent' = sent + 1 /\ pc = "transfer"
        /\ UNCHANGED <<pc, acl2, call, frames, result, prepared, selected, latched>>
    BY ExchangeCases
  <1>2. frame' = Heard(frames[1], sent + 1)
    BY ExchangeEffect
  <1>3. /\ bytearray' \in Seq(Byte) /\ Size(bytearray') = Size(frames[1])
        /\ \A i \in 1..Size(frames[1]) : i # sent + 1 => bytearray'[i] = bytearray[i]
    BY BytesExchanged
  <1>4. \A i \in sent + 1..Size(frames[1]) : bytearray[i] = frames[1][i]
    BY Exchanging DEF IInv
  <1>5. \A i \in sent + 1 + 1..Size(frames[1]) : bytearray'[i] = frames[1][i]
    BY <1>1, <1>3, <1>4
  <1>6. Busy /\ Busy' /\ pc' = "transfer"
    BY <1>1 DEF Busy
  <1>7. sent' \in 0..Size(frames[1])
    BY <1>1
  <1>8. Busy => frames' \in Seq(Seq(Byte)) /\ frames' # << >> /\ frames'[1] \in Frames
    BY <1>1 DEF IInv, InStep
  <1>9. selected'
    BY <1>1 DEF IInv, InStep
  <1>10. /\ selected'
         /\ bytearray' \in Seq(Byte) /\ Size(bytearray') = Size(frames'[1])
         /\ sent' \in 0..Size(frames'[1])
         /\ \A i \in sent' + 1..Size(frames'[1]) : bytearray'[i] = frames'[1][i]
         /\ frame' = Heard(frames'[1], sent')
    BY <1>1, <1>2, <1>3, <1>5, <1>7, <1>9
  <1> QED
    BY <1>6, <1>8, <1>10 DEF InStep

LEMMA ExchangeTypes ==
  ASSUME IInv, exchange
  PROVE  Types'
  <1>1. /\ frames[1] \in Frames /\ sent \in 0..Size(frames[1]) - 1 /\ Size(frames[1]) \in 3..10
        /\ UNCHANGED <<pc, acl2, call, frames, result, prepared, selected, latched>>
        /\ \/ Untouched
           \/ Defaulted
           \/ WritesByte(frames[1][2] + sent - 2)
    BY ExchangeCases
  <1>2. Types
    BY DEF IInv
  <1>3. frame' \in Seq(Byte) /\ Len(frame') <= 2
    <2>1. frame' = Heard(frames[1], sent + 1)
      BY ExchangeEffect
    <2>2. sent + 1 \in 0..Size(frames[1])
      BY <1>1
    <2> QED
      BY <1>1, <2>1, <2>2, HeardFrame
  <1>4. CASE Untouched
    BY <1>1, <1>2, <1>3, <1>4 DEF Untouched, Types
  <1>5. CASE Defaulted
    BY <1>1, <1>2, <1>3, <1>5, Reset, Literals DEF Defaulted, Types, Taken
  <1>6. CASE WritesByte(frames[1][2] + sent - 2)
    <2> DEFINE a == frames[1][2] + sent - 2
               b == frames[1][sent + 1] % Width(a)
    <2>1. /\ regs' = [regs EXCEPT ![a] = b] /\ UNCHANGED <<status, booting, reading>>
          /\ a \in 32..45 /\ b \in Byte
      BY <1>6 DEF WritesByte
    <2>2. a = 44 => b \in FilterValues
      <3> SUFFICES ASSUME a = 44 PROVE b \in FilterValues
        OBVIOUS
      <3>1. frames[1][sent + 1] \in FilterValues
        BY <1>6 DEF WritesByte
      <3>2. Width(a) = 256
        BY DEF Width
      <3> QED
        BY <3>1, <3>2, Literals
    <2> HIDE DEF a, b
    <2>3. regs \in [ConfigRegisters -> Byte] /\ regs[44] \in FilterValues
      BY <1>2, Literals DEF Types
    <2>4. regs' \in [ConfigRegisters -> Byte] /\ regs'[44] \in FilterValues
      BY <2>1, <2>2, <2>3, Literals
    <2> QED
      BY <1>1, <1>2, <1>3, <2>1, <2>4, Literals DEF Types
  <1> QED
    BY <1>1, <1>4, <1>5, <1>6

LEMMA ReadAddress ==
  ASSUME NEW f \in Frames, f[1] = READ, f[2] \in 14..21, NEW n \in 2..Size(f) - 1
  PROVE  f[2] + n - 2 \in 14..21
  <1> DEFINE k == Size(f)
  <1>1. f[1] = 11
    BY Literals
  <1>2. \/ f[2] \in {14, 16, 18, 20} /\ k = 4
        \/ f[2] = 14 /\ k = 10
    BY <1>1, FrameShape
  <1>3. n \in 2..(k - 1)
    OBVIOUS
  <1> HIDE DEF k
  <1> QED
    BY ONLY <1>2, <1>3

LEMMA RegByteOf ==
  /\ \A a \in 14..21 : RegByte(a) = DataByte(a)
  /\ RegByte(FILTER_CTL) = regs[FILTER_CTL]
  /\ RegByte(STATUS) = StatusByte
  <1>1. FILTER_CTL # STATUS /\ FILTER_CTL \notin 14..21 /\ FILTER_CTL \in ConfigRegisters
        /\ \A a \in 14..21 : a # STATUS /\ a \notin ConfigRegisters
    BY Literals
  <1>2. STATUS \notin 14..21 /\ STATUS \notin ConfigRegisters
    BY Literals
  <1> QED
    BY <1>1, <1>2 DEF RegByte

LEMMA ExchangeReadBack ==
  ASSUME IInv, exchange
  PROVE  ReadBack'
  <1> DEFINE f == frames[1]
  <1>1. /\ f \in Frames /\ sent \in 0..Size(f) - 1 /\ Size(f) \in 3..10
        /\ sent' = sent + 1 /\ pc = "transfer" /\ frames' = frames /\ latched' = latched
        /\ \/ Untouched
           \/ Defaulted
           \/ WritesByte(f[2] + sent - 2)
    BY ExchangeCases
  <1> SUFFICES ASSUME f[1] = READ
               PROVE  /\ f[2] = FILTER_CTL /\ sent + 1 = 3 => bytearray'[3] = regs'[FILTER_CTL]
                      /\ f[2] \in 14..21 =>
                            \A i \in 3..sent + 1 : bytearray'[i] = DataByte(f[2] + i - 3)
    <2>1. \A a : DataByte(a)' = DataByte(a)
      BY <1>1 DEF DataByte
    <2> QED
      BY <1>1, <2>1 DEF ReadBack
  <1>2. regs' = regs
    <2>1. READ # WRITE
      BY Literals
    <2> QED
      BY <1>1, <2>1, Zenon DEF Untouched, Defaulted, WritesByte
  <1>3. sent >= 2 => bytearray'[sent + 1] = RegByte(f[2] + sent - 2)
    <2>1. bytearray'[sent + 1] = Answer
      BY BytesExchanged
    <2>2. Answer = IF sent >= 2 /\ f[1] = READ THEN RegByte(f[2] + sent - 2) ELSE 0
      BY ExchangeEffect
    <2> QED
      BY <2>1, <2>2
  <1>4. ASSUME f[2] = FILTER_CTL, sent + 1 = 3 PROVE bytearray'[3] = regs'[FILTER_CTL]
    <2>1. sent = 2 /\ f[2] + sent - 2 = FILTER_CTL
      BY <1>1, <1>4, Literals
    <2> QED
      BY <1>2, <1>3, <1>4, <2>1, RegByteOf
  <1>5. ASSUME f[2] \in 14..21, NEW i \in 3..sent + 1 PROVE bytearray'[i] = DataByte(f[2] + i - 3)
    <2>1. CASE i = sent + 1
      <3>1. sent \in 2..Size(f) - 1 /\ sent >= 2 /\ f[2] + i - 3 = f[2] + sent - 2
        BY <1>1, <1>5, <2>1
      <3>2. f[2] + sent - 2 \in 14..21
        BY <1>1, <1>5, <3>1, ReadAddress
      <3> QED
        BY <1>3, <2>1, <3>1, <3>2, RegByteOf
    <2>2. CASE i # sent + 1
      <3>1. i \in 3..sent /\ i \in 1..Size(f)
        BY <1>1, <2>2
      <3>2. bytearray'[i] = bytearray[i]
        BY <2>2, <3>1, BytesExchanged
      <3>3. \A k \in 3..sent : bytearray[k] = DataByte(f[2] + k - 3)
        BY <1>1, <1>5 DEF IInv, ReadBack
      <3> QED
        BY <3>1, <3>2, <3>3
    <2> QED
      BY <2>1, <2>2
  <1> QED
    BY <1>4, <1>5

LEMMA ByteWritten ==
  ASSUME IInv, NEW a, WritesByte(a)
  PROVE  /\ regs'[a] = frames[1][sent + 1] % Width(a)
         /\ \A c \in 32..45 : c # a => regs'[c] = regs[c]
  <1>1. regs \in [ConfigRegisters -> Byte]
    BY DEF IInv, Types
  <1>2. regs' = [regs EXCEPT ![a] = frames[1][sent + 1] % Width(a)] /\ a \in 32..45
    BY DEF WritesByte
  <1> QED
    BY <1>1, <1>2, Literals

LEMMA Configuring ==
  ASSUME IInv, Busy, Configures
  PROVE  /\ Left \in 1..6 /\ acl2 \in Object
         /\ \A i \in 1..Left : frames[i] = ConfFrame(Left + 1 - i)
         /\ frames[1] = ConfFrame(Left)
  <1>1. Left \in 1..6 /\ \A i \in 1..Left : frames[i] = ConfFrame(Left + 1 - i)
    BY DEF IInv, Scripted
  <1>2. 1 \in 1..Left /\ Left + 1 - 1 = Left
    BY <1>1
  <1>3. acl2 \in Object
    BY DEF IInv, Types
  <1> QED
    BY <1>1, <1>2, <1>3

LEMMA ExchangeWritten ==
  ASSUME IInv, exchange, Configures
  PROVE  Written'
  <1> DEFINE f == frames[1]
             k == Left
             a == f[2] + sent - 2
  <1>1. /\ f \in Frames /\ sent \in 0..Size(f) - 1 /\ Size(f) \in 3..10
        /\ sent' = sent + 1 /\ pc = "transfer" /\ UNCHANGED <<pc, call, frames, acl2>>
        /\ \/ Untouched /\ (sent < 2 \/ f[1] = READ)
           \/ Defaulted
           \/ WritesByte(a)
    BY ExchangeCases
  <1>2. Left' = k /\ ThreshData' = ThreshData /\ CtlData' = CtlData
    BY <1>1, SameScript
  <1>3. Busy
    BY <1>1 DEF Busy
  <1>4. k \in 1..6 /\ acl2 \in Object /\ f = ConfFrame(k)
    BY <1>3, Configuring
  <1>5. /\ f[1] = IF k = 1 THEN READ ELSE WRITE
        /\ k = 6 => f[2] = 32 /\ Size(f) = 9 /\ \A i \in 3..9 : f[i] = ThreshData[i - 2]
        /\ k = 5 => f[2] = 39 /\ Size(f) = 3 /\ f[3] = CtlData[1] /\ f[3] \in {5, 31}
        /\ k = 4 => f[2] = 40 /\ Size(f) = 4 /\ f[3] = 0 /\ f[4] = 0
        /\ k = 3 => f[2] = 44 /\ Size(f) = 3 /\ f[3] = 19
        /\ k = 2 => f[2] = 45 /\ Size(f) = 3 /\ f[3] = 34
        /\ k = 1 => f[2] = 44 /\ Size(f) = 3
    BY <1>4, ConfFrames
  <1>6. /\ \A i \in 1..7 : Got(6, i) => regs[31 + i] = ThreshData[i]
        /\ Got(5, 1) => regs[39] = CtlData[1]
        /\ Got(4, 1) => regs[40] = 0
        /\ Got(4, 2) => regs[41] = 0
        /\ Got(3, 1) => regs[44] = 19
        /\ Got(2, 1) => regs[45] = 34
        /\ ~Got(5, 1) => regs[39] = 0
        /\ ~Got(4, 1) => regs[40] = 0
        /\ ~Got(3, 1) => regs[44] = 19
        /\ ~Got(2, 1) => regs[45] = 0
    BY <1>3, Literals DEF IInv, Written
  <1> SUFFICES /\ \A i \in 1..7 : Got(6, i)' => regs'[31 + i] = ThreshData[i]
               /\ Got(5, 1)' => regs'[39] = CtlData[1]
               /\ Got(4, 1)' => regs'[40] = 0
               /\ Got(4, 2)' => regs'[41] = 0
               /\ Got(3, 1)' => regs'[44] = 19
               /\ Got(2, 1)' => regs'[45] = 34
               /\ ~Got(5, 1)' => regs'[39] = 0
               /\ ~Got(4, 1)' => regs'[40] = 0
               /\ ~Got(3, 1)' => regs'[44] = 19
               /\ ~Got(2, 1)' => regs'[45] = 0
    BY <1>2, Literals DEF Written
  <1>7. \A j \in 2..6 : \A n \in 1..7 : Got(j, n)' <=> k < j \/ (k = j /\ sent + 1 >= n + 2)
    BY <1>1, <1>2 DEF Got
  <1>8. \A j \in 2..6 : \A n \in 1..7 : Got(j, n) <=> k < j \/ (k = j /\ sent >= n + 2)
    BY DEF Got
  <1>9. f[2] # SOFT_RESET
    BY <1>4, <1>5, Literals
  <1> HIDE DEF k, f
  <1>10. CASE Untouched /\ (sent < 2 \/ f[1] = READ)
    <2>1. regs' = regs /\ (sent < 2 \/ k = 1)
      BY <1>5, <1>10, Literals DEF Untouched
    <2>2. \A j \in 2..6 : \A n \in 1..7 : Got(j, n)' <=> Got(j, n)
      BY <1>1, <1>4, <1>7, <1>8, <2>1
    <2> QED
      BY <1>6, <2>1, <2>2
  <1>11. CASE WritesByte(a)
    <2>1. /\ regs'[a] = f[sent + 1] % Width(a)
          /\ \A c \in 32..45 : c # a => regs'[c] = regs[c]
          /\ sent >= 2
      <3>1. /\ regs'[a] = f[sent + 1] % Width(a)
            /\ \A c \in 32..45 : c # a => regs'[c] = regs[c]
        BY <1>11, ByteWritten, Zenon DEF f
      <3>2. sent >= 2
        BY <1>11, Zenon DEF WritesByte
      <3> QED
        BY ONLY <3>1, <3>2, Zenon
    <2>2. f[1] = WRITE /\ WRITE # READ
      BY <1>11, Literals DEF WritesByte, f
    <2>3. k # 1 /\ (k = 2 \/ k = 3 \/ k = 4 \/ k = 5 \/ k = 6)
      BY <1>4, <1>5, <2>2
    <2>4. CASE k = 6
      <3>1. a = 30 + sent /\ sent \in 2..8 /\ f[sent + 1] = ThreshData[sent - 1]
        BY <1>1, <1>5, <2>1, <2>4
      <3>2. regs'[30 + sent] = ThreshData[sent - 1]
        <4>1. sent - 1 \in 1..7 /\ 31 + (sent - 1) = 30 + sent
          BY <3>1
        <4>2. ThreshData[sent - 1] % Width(31 + (sent - 1)) = ThreshData[sent - 1]
          BY <1>4, <4>1, ThreshBytes
        <4> QED
          BY <2>1, <3>1, <4>1, <4>2
      <3>3. ASSUME NEW i \in 1..7, Got(6, i)' PROVE regs'[31 + i] = ThreshData[i]
        <4>1. i <= sent - 1
          BY <1>7, <2>4, <3>1, <3>3
        <4>2. CASE i = sent - 1
          BY <3>1, <3>2, <4>2
        <4>3. CASE i # sent - 1
          <5>1. Got(6, i) /\ 31 + i # a /\ 31 + i \in 32..45
            BY <1>8, <2>4, <3>1, <4>1, <4>3
          <5> QED
            BY <1>6, <2>1, <5>1
        <4> QED
          BY <4>2, <4>3
      <3>4. \A j \in 2..5 : \A n \in 1..7 : ~Got(j, n)' /\ ~Got(j, n)
        BY <1>7, <1>8, <2>4
      <3>5. \A c \in {39, 40, 44, 45} : regs'[c] = regs[c]
        BY <2>1, <3>1
      <3> QED
        BY <1>6, <3>3, <3>4, <3>5
    <2>5. CASE k = 5
      <3>1. a = 39 /\ sent = 2 /\ f[sent + 1] = CtlData[1] /\ CtlData[1] \in {5, 31}
        BY <1>1, <1>5, <2>1, <2>5
      <3>2. regs'[39] = CtlData[1]
        BY <2>1, <3>1 DEF Width
      <3>3. ASSUME NEW i \in 1..7 PROVE regs'[31 + i] = ThreshData[i]
        BY <1>6, <1>8, <2>1, <2>5, <3>1
      <3>4. \A j \in 2..4 : \A n \in 1..7 : ~Got(j, n)' /\ ~Got(j, n)
        BY <1>7, <1>8, <2>5
      <3>5. \A c \in {40, 44, 45} : regs'[c] = regs[c]
        BY <2>1, <3>1
      <3>6. Got(5, 1)'
        BY <1>7, <2>5, <3>1
      <3> QED
        BY <1>6, <3>2, <3>3, <3>4, <3>5, <3>6
    <2>6. CASE k = 4
      <3>1. ((a = 40 /\ sent = 2) \/ (a = 41 /\ sent = 3)) /\ f[sent + 1] = 0
        BY <1>1, <1>5, <2>1, <2>6
      <3>2. regs'[a] = 0
        BY <2>1, <3>1 DEF Width
      <3>3. ASSUME NEW i \in 1..7 PROVE regs'[31 + i] = ThreshData[i]
        BY <1>6, <1>8, <2>1, <2>6, <3>1
      <3>4. \A j \in 2..3 : \A n \in 1..7 : ~Got(j, n)' /\ ~Got(j, n)
        BY <1>7, <1>8, <2>6
      <3>5. \A c \in {39, 44, 45} : regs'[c] = regs[c]
        BY <2>1, <3>1
      <3>6. Got(5, 1) /\ Got(5, 1)' /\ Got(4, 1)' /\ (Got(4, 2)' => sent = 3) /\ (sent = 3 => Got(4, 1))
        BY <1>7, <1>8, <2>6, <3>1
      <3>7. sent = 3 => regs'[40] = regs[40]
        BY <2>1, <3>1
      <3> QED
        BY <1>6, <3>1, <3>2, <3>3, <3>4, <3>5, <3>6, <3>7
    <2>7. CASE k = 3
      <3>1. a = 44 /\ sent = 2 /\ f[sent + 1] = 19
        BY <1>1, <1>5, <2>1, <2>7
      <3>2. regs'[44] = 19
        BY <2>1, <3>1 DEF Width
      <3>3. ASSUME NEW i \in 1..7 PROVE regs'[31 + i] = ThreshData[i]
        BY <1>6, <1>8, <2>1, <2>7, <3>1
      <3>4. \A n \in 1..7 : ~Got(2, n)' /\ ~Got(2, n)
        BY <1>7, <1>8, <2>7
      <3>5. \A c \in {39, 40, 41, 45} : regs'[c] = regs[c]
        BY <2>1, <3>1
      <3>6. /\ Got(5, 1) /\ Got(4, 1) /\ Got(4, 2)
            /\ Got(5, 1)' /\ Got(4, 1)' /\ Got(3, 1)'
        BY <1>7, <1>8, <2>7, <3>1
      <3> QED
        BY <1>6, <3>2, <3>3, <3>4, <3>5, <3>6
    <2>8. CASE k = 2
      <3>1. a = 45 /\ sent = 2 /\ f[sent + 1] = 34
        BY <1>1, <1>5, <2>1, <2>8
      <3>2. regs'[45] = 34
        BY <2>1, <3>1 DEF Width
      <3>3. ASSUME NEW i \in 1..7 PROVE regs'[31 + i] = ThreshData[i]
        BY <1>6, <1>8, <2>1, <2>8, <3>1
      <3>4. Got(2, 1)' /\ Got(3, 1)' /\ Got(4, 1)' /\ Got(5, 1)'
        BY <1>7, <2>8, <3>1
      <3>5. \A c \in {39, 40, 41, 44} : regs'[c] = regs[c]
        BY <2>1, <3>1
      <3>6. Got(5, 1) /\ Got(4, 1) /\ Got(4, 2) /\ Got(3, 1)
        BY <1>8, <2>8
      <3> QED
        BY <1>6, <3>2, <3>3, <3>4, <3>5, <3>6
    <2> QED
      BY <2>3, <2>4, <2>5, <2>6, <2>7, <2>8
  <1>12. ~Defaulted
    BY <1>9 DEF Defaulted, f
  <1> QED
    BY <1>1, <1>10, <1>11, <1>12, Zenon

LEMMA FirstFrame ==
  ASSUME IInv, Busy, NEW f, f = frames[1]
  PROVE  /\ call.fn = "reset" => f[1] = WRITE /\ f[2] = SOFT_RESET /\ Size(f) = 3
         /\ call.fn = "getStatus" => f[1] = READ /\ f[2] = STATUS /\ Size(f) = 3
         /\ call.fn = "getSample" => f[1] = READ /\ f[2] = XDATA_L /\ Size(f) = 10
         /\ call.fn = "getData" =>
               call.arg \in DataPairs /\ f[1] = READ /\ f[2] = call.arg /\ Size(f) = 4
         /\ call.fn = "setRange" =>
               /\ call.arg \in Ranges /\ Left \in 1..3
               /\ Left \in {1, 3} => f[1] = READ /\ f[2] = FILTER_CTL /\ Size(f) = 3
               /\ Left = 2 => /\ f[1] = WRITE /\ f[2] = FILTER_CTL /\ Size(f) = 3
                              /\ \E t \in FilterValues : f[3] = WithRange(t, call.arg)
         /\ call.fn \in Calls
  <1>1. /\ call.fn \in Calls
        /\ call.fn = "reset"     => frames = ACL2c_reset
        /\ call.fn = "getStatus" => frames = ACL2c_getStatus
        /\ call.fn = "getSample" => frames = ACL2c_getSample
        /\ call.fn = "getData"   => call.arg \in DataPairs /\ frames = ACL2c_getData(call.arg)
        /\ call.fn = "setRange"  =>
              /\ call.arg \in Ranges /\ Left \in 1..3
              /\ Left \in {1, 3} => frames[1] = ACL2c_ReadSpi(FILTER_CTL, 1)
              /\ Left = 2 => \E t \in FilterValues :
                          frames[1] = ACL2c_WriteSpi(FILTER_CTL, <<WithRange(t, call.arg)>>)
    BY DEF IInv, Scripted
  <1>2. ASSUME call.fn = "reset" PROVE f[1] = WRITE /\ f[2] = SOFT_RESET /\ Size(f) = 3
    BY <1>1, <1>2, ResetFrame DEF ACL2c_reset
  <1>3. ASSUME call.fn = "getStatus" PROVE f[1] = READ /\ f[2] = STATUS /\ Size(f) = 3
    <2>1. f = ACL2c_ReadSpi(STATUS, 1)
      BY <1>1, <1>3 DEF ACL2c_getStatus
    <2> QED
      BY <2>1, ReadFrame
  <1>4. ASSUME call.fn = "getSample" PROVE f[1] = READ /\ f[2] = XDATA_L /\ Size(f) = 10
    <2>1. f = ACL2c_ReadSpi(XDATA_L, 8)
      BY <1>1, <1>4 DEF ACL2c_getSample
    <2> QED
      BY <2>1, ReadFrame
  <1>5. ASSUME call.fn = "getData" PROVE f[1] = READ /\ f[2] = call.arg /\ Size(f) = 4
    <2>1. f = ACL2c_ReadSpi(call.arg, 2) /\ call.arg \in DataPairs
      BY <1>1, <1>5 DEF ACL2c_getData
    <2> QED
      BY <2>1, ReadFrame
  <1>6. ASSUME call.fn = "setRange", Left \in {1, 3}
        PROVE  f[1] = READ /\ f[2] = FILTER_CTL /\ Size(f) = 3
    <2>1. f = ACL2c_ReadSpi(FILTER_CTL, 1)
      BY <1>1, <1>6
    <2> QED
      BY <2>1, ReadFrame
  <1>7. ASSUME call.fn = "setRange", Left = 2
        PROVE  /\ f[1] = WRITE /\ f[2] = FILTER_CTL /\ Size(f) = 3
               /\ \E t \in FilterValues : f[3] = WithRange(t, call.arg)
    <2>1. PICK t \in FilterValues : f = ACL2c_WriteSpi(FILTER_CTL, <<WithRange(t, call.arg)>>)
      BY <1>1, <1>7
    <2>2. call.arg \in Ranges
      BY <1>1, <1>7
    <2>3. f[1] = WRITE /\ f[2] = FILTER_CTL /\ Size(f) = 3 /\ f[3] = WithRange(t, call.arg)
      BY <2>1, <2>2, RangeFrame
    <2> QED
      BY <2>3
  <1> QED
    BY <1>1, <1>2, <1>3, <1>4, <1>5, <1>6, <1>7

LEMMA ConfigureFrame ==
  ASSUME IInv, Busy, Configures, NEW f, f = frames[1]
  PROVE  f[2] # SOFT_RESET /\ (Left = 1 => f[1] = READ /\ f[2] = FILTER_CTL)
  <1>1. Left \in 1..6 /\ acl2 \in Object /\ f = ConfFrame(Left)
    BY Configuring
  <1>2. /\ Left = 6 => f[2] = 32
        /\ Left = 5 => f[2] = 39
        /\ Left = 4 => f[2] = 40
        /\ Left = 3 => f[2] = 44
        /\ Left = 2 => f[2] = 45
        /\ Left = 1 => f[1] = READ /\ f[2] = 44
    BY <1>1, ConfFrames
  <1> QED
    BY <1>1, <1>2, Literals

(* Who may send what.                                                      *)
LEMMA Senders ==
  ASSUME IInv, exchange
  PROVE  /\ Defaulted => call.fn = "reset"
         /\ \A a : WritesByte(a) => Configures \/ (call.fn = "setRange" /\ Left = 2 /\ a = 44)
         /\ call.fn = "reset" => ~Untouched \/ sent < 2
  <1> DEFINE f == frames[1]
  <1>1. Busy
    BY DEF exchange, Busy
  <1>2. call.fn \in Calls /\ READ # WRITE /\ FILTER_CTL = 44 /\ SOFT_RESET = 31
    BY <1>1, FirstFrame, Literals
  <1>3. ASSUME call.fn \in {"getStatus", "getSample", "getData"} PROVE f[1] = READ
    BY <1>1, <1>3, FirstFrame
  <1>4. ASSUME call.fn = "reset" PROVE f[1] = WRITE /\ f[2] = 31
    BY <1>1, <1>2, <1>4, FirstFrame
  <1>5. ASSUME call.fn = "setRange"
        PROVE  (f[1] = READ \/ Left = 2) /\ f[2] = 44 /\ Size(f) = 3
    BY <1>1, <1>2, <1>5, FirstFrame
  <1>6. Configures => f[2] # 31
    BY <1>1, <1>2, ConfigureFrame
  <1>7. Defaulted => f[1] = WRITE /\ f[2] = 31
    BY <1>2 DEF Defaulted
  <1>8. sent \in 0..Size(f) - 1
    BY ExchangeCases
  <1>9. ASSUME NEW a, WritesByte(a)
        PROVE  f[1] = WRITE /\ f[2] # 31 /\ a = f[2] + sent - 2 /\ sent >= 2
    BY <1>2, <1>9 DEF WritesByte
  <1>10. Configures \/ call.fn \in {"reset", "setRange", "getStatus", "getSample", "getData"}
    BY <1>2 DEF Calls, Configures
  <1>11. Defaulted => call.fn = "reset"
    BY <1>2, <1>3, <1>5, <1>6, <1>7, <1>10
  <1>12. ASSUME NEW a, WritesByte(a) PROVE Configures \/ (call.fn = "setRange" /\ Left = 2 /\ a = 44)
    BY <1>2, <1>3, <1>4, <1>5, <1>8, <1>9, <1>10, <1>12
  <1>13. ASSUME call.fn = "reset", Untouched, sent >= 2 PROVE FALSE
    <2>1. f[1] = WRITE /\ f[2] = SOFT_RESET
      BY <1>2, <1>4, <1>13
    <2>2. booting' = TRUE
      BY <1>13, <2>1, ExchangeEffect
    <2>3. booting' = booting /\ ~booting
      BY <1>13, NotBooting DEF Untouched
    <2> QED
      BY <2>2, <2>3
  <1>14. (sent >= 2) \/ (sent < 2)
    BY <1>8, ExchangeCases
  <1> QED
    BY <1>11, <1>12, <1>13, <1>14

LEMMA ExchangePrepared ==
  ASSUME IInv, exchange
  PROVE  Prepared'
  <1>1. /\ sent \in 0..Size(frames[1]) - 1 /\ Size(frames[1]) \in 3..10
        /\ sent' = sent + 1 /\ pc = "transfer" /\ ~booting
        /\ UNCHANGED <<pc, call, frames, prepared>>
        /\ \/ Untouched
           \/ Defaulted
           \/ WritesByte(frames[1][2] + sent - 2)
    BY ExchangeCases
  <1>2. Busy /\ Busy' /\ (Configures' <=> Configures) /\ pc' = "transfer"
    BY <1>1 DEF Busy, Configures
  <1>3. Prepared
    BY DEF IInv
  <1>4. booting' => call.fn = "reset" /\ sent = 2
    <2>1. booting' => Defaulted
      BY <1>1 DEF Untouched, WritesByte
    <2> QED
      BY <2>1, Senders DEF Defaulted
  <1>5. ASSUME call.fn = "reset", sent' = 3 PROVE regs' = RegDefaults /\ booting'
    <2>1. ~Untouched /\ ~Configures
      BY <1>1, <1>5, Senders DEF Configures
    <2>2. Defaulted
      BY <1>1, <1>5, <2>1, Senders
    <2> QED
      BY <2>2 DEF Defaulted
  <1> QED
    BY <1>1, <1>2, <1>3, <1>4, <1>5 DEF Prepared

LEMMA ExchangeRanged ==
  ASSUME IInv, exchange
  PROVE  Ranged'
  <1>1. /\ sent \in 0..Size(frames[1]) - 1 /\ Size(frames[1]) \in 3..10
        /\ sent' = sent + 1 /\ pc = "transfer"
        /\ UNCHANGED <<pc, acl2, call, frames, prepared>>
        /\ \/ Untouched /\ (sent < 2 \/ frames[1][1] = READ)
           \/ Defaulted
           \/ WritesByte(frames[1][2] + sent - 2)
    BY ExchangeCases
  <1>2. Busy /\ Busy' /\ Left' = Left /\ pc' = "transfer"
    BY <1>1 DEF Busy, Left
  <1>3. Ranged /\ Prepared
    BY DEF IInv
  <1>4. ASSUME prepared = "no", call.fn \notin {"reset", "setRange"} PROVE regs' = regs
    <2>1. ~Configures
      BY <1>2, <1>3, <1>4 DEF Prepared
    <2>2. Untouched
      BY <1>1, <1>4, <2>1, Senders
    <2> QED
      BY <2>2 DEF Untouched
  <1>5. ASSUME call.fn = "setRange", call.arg \in {2, 4, 8},
               Left = 1 \/ (Left = 2 /\ sent' = 3)
        PROVE  RangeOf(regs'[FILTER_CTL]) = call.arg
    <2>1. ~Configures /\ ~Defaulted
      BY <1>5, Senders DEF Configures
    <2>2. CASE Left = 1
      <3>1. Untouched
        BY <1>1, <1>5, <2>1, <2>2, Senders
      <3>2. regs' = regs
        BY <3>1 DEF Untouched
      <3> QED
        BY <1>2, <1>3, <1>5, <2>2, <3>2 DEF Ranged
    <2>3. CASE Left = 2 /\ sent' = 3
      <3>1. /\ frames[1][1] = WRITE /\ frames[1][2] = 44 /\ sent = 2 /\ WRITE # READ
            /\ \E t \in FilterValues : frames[1][3] = WithRange(t, call.arg)
        BY <1>1, <1>2, <1>5, <2>3, FirstFrame, Literals
      <3>2. PICK t \in FilterValues : frames[1][3] = WithRange(t, call.arg)
        BY <3>1
      <3>3. WritesByte(44) /\ frames[1][sent + 1] = frames[1][3]
        BY <1>1, <2>1, <3>1
      <3>4. regs'[44] = frames[1][3] % Width(44)
        BY <3>3, ByteWritten
      <3>5. t \in Byte /\ call.arg \in Ranges /\ call.arg # 3
        BY <1>5, Literals DEF Ranges
      <3>6. WithRange(t, call.arg) \in Byte /\ RangeOf(WithRange(t, call.arg)) = call.arg
        BY <3>2, <3>5, RangeBitsKept
      <3>7. regs'[44] = WithRange(t, call.arg)
        BY <3>2, <3>4, <3>6, Literals DEF Width
      <3> QED
        BY <3>6, <3>7, Literals
    <2> QED
      BY <1>5, <2>2, <2>3
  <1>6. /\ acl2'.range # 0 /\ prepared' = "no" /\ call'.fn \notin {"reset", "setRange"} =>
              acl2'.range = RangeOf(regs'[FILTER_CTL])
        /\ pc' # "ready" /\ pc' # "down"
    BY <1>1, <1>2, <1>3, <1>4 DEF Ranged
  <1>7. call'.fn = "setRange" /\ call'.arg \in {2, 4, 8} /\ (Left' = 1 \/ (Left' = 2 /\ sent' = 3))
           => RangeOf(regs'[FILTER_CTL]) = call'.arg
    BY <1>1, <1>2, <1>5
  <1> QED
    BY <1>6, <1>7 DEF Ranged

LEMMA ReadsBack ==
  ASSUME regs \in [ConfigRegisters -> Byte], NEW t, Len(t) = 7, t \in Seq(Byte),
         \A i \in 1..7 : regs[31 + i] = t[i]
  PROVE  SubSeq([i \in 1..7 |-> regs[31 + i]], 1, 7) = t
  <1> DEFINE s == [i \in 1..7 |-> regs[31 + i]]
  <1>1. \A i \in 1..7 : regs[31 + i] \in Byte
    BY ONLY regs \in [ConfigRegisters -> Byte], Literals
  <1>2. s \in [1..7 -> Byte]
    BY <1>1
  <1>3. s \in Seq(Byte)
    BY <1>2, SeqDef
  <1>4. DOMAIN s = 1..7 /\ DOMAIN s = 1..Len(s) /\ Len(s) \in Nat
    BY <1>3, LenProperties
  <1>5. ASSUME NEW m \in Nat, 1..7 = 1..m PROVE m = 7
    BY ONLY <1>5
  <1>6. Len(s) = 7 /\ \A i \in 1..7 : s[i] = t[i]
    BY <1>4, <1>5
  <1> HIDE DEF s
  <1>7. s = t
    BY <1>3, <1>6, SeqEqual
  <1>8. SubSeq(t, 1, 7) = t
    BY SubSeqProperties, SeqEqual
  <1> QED
    BY <1>7, <1>8 DEF s

(* A sensor measures with the configuration that has been written.         *)
LEMMA ConfiguredMeasures ==
  Types /\ Scripted /\ Written /\ Busy /\ Configures /\ Chosen => MeasuresConfigured
  <1> SUFFICES ASSUME Types, Scripted, Written, Busy, Configures, Chosen, Measuring
               PROVE  MeasuresConfigured
    BY DEF MeasuresConfigured
  <1>1. Left \in 1..6 /\ acl2 \in Object /\ regs \in [ConfigRegisters -> Byte]
    BY DEF Types, Scripted
  <1>2. Got(2, 1)
    <2>1. regs[45] % 4 = 2
      BY Literals DEF Measuring
    <2>2. ~Got(2, 1) => regs[45] = 0
      BY Literals DEF Written
    <2> QED
      BY <2>1, <2>2
  <1>3. \A j \in 3..6 : \A n \in 1..7 : Got(j, n)
    BY <1>1, <1>2 DEF Got
  <1>4. \A i \in 1..7 : regs[31 + i] = ThreshData[i]
    BY <1>3 DEF Written
  <1>5. /\ regs[39] = CtlData[1] /\ regs[40] = 0 /\ regs[41] = 0 /\ regs[44] = 19 /\ regs[45] = 34
    BY <1>2, <1>3, Literals DEF Written
  <1>6. /\ regs[32] = ThreshData[1] /\ regs[33] = ThreshData[2] /\ regs[34] = ThreshData[3]
        /\ regs[35] = ThreshData[4] /\ regs[36] = ThreshData[5] /\ regs[37] = ThreshData[6]
        /\ regs[38] = ThreshData[7]
    <2>1. /\ regs[31 + 1] = ThreshData[1] /\ regs[31 + 2] = ThreshData[2]
          /\ regs[31 + 3] = ThreshData[3] /\ regs[31 + 4] = ThreshData[4]
          /\ regs[31 + 5] = ThreshData[5] /\ regs[31 + 6] = ThreshData[6]
          /\ regs[31 + 7] = ThreshData[7]
      BY <1>4
    <2> QED
      BY <2>1
  <1>7. CASE call.fn = "configureMeasureMode"
    <2>1. ThreshData = <<20, 0, 100, 16, 0, 100, 0>> /\ CtlData = <<5>>
      BY <1>7 DEF ThreshData, CtlData
    <2>2. ThreshData \in Seq(Byte) /\ Len(ThreshData) = 7
      BY <1>1, ThreshBytes
    <2>3. SubSeq([i \in 1..7 |-> regs[31 + i]], 1, 7) = ThreshData
      BY <1>1, <1>4, <2>2, ReadsBack
    <2>4. regs[39] = 5
      BY <1>5, <2>1
    <2>5. SubSeq([i \in 1..7 |-> regs[31 + i]], 1, 7) = <<20, 0, 100, 16, 0, 100, 0>>
      BY <2>1, <2>3
    <2> QED
      BY <1>5, <2>4, <2>5, Literals DEF MeasuresConfigured
  <1>8. CASE call.fn = "configureLinkedMode"
    <2>1. /\ ThreshData = <<Low(acl2.activeThresh), High(acl2.activeThresh), acl2.activeTimer,
                            Low(acl2.inactiveThresh), High(acl2.inactiveThresh),
                            Low(acl2.inactiveTimer), High(acl2.inactiveTimer)>>
          /\ CtlData = <<31>>
      BY <1>8 DEF ThreshData, CtlData
    <2>2. /\ regs[39] = 31
          /\ regs[32] = Low(acl2.activeThresh) /\ regs[33] = High(acl2.activeThresh)
          /\ regs[34] = acl2.activeTimer
          /\ regs[35] = Low(acl2.inactiveThresh) /\ regs[36] = High(acl2.inactiveThresh)
          /\ regs[37] = Low(acl2.inactiveTimer) /\ regs[38] = High(acl2.inactiveTimer)
      BY <1>5, <1>6, <2>1
    <2>3. /\ Pair(32) = Low(acl2.activeThresh) + 256 * High(acl2.activeThresh)
          /\ Pair(35) = Low(acl2.inactiveThresh) + 256 * High(acl2.inactiveThresh)
          /\ Pair(37) = Low(acl2.inactiveTimer) + 256 * High(acl2.inactiveTimer)
      BY <2>2 DEF Pair
    <2>4. /\ acl2.activeThresh \in Word /\ acl2.inactiveThresh \in Word /\ acl2.inactiveTimer \in Word
      BY <1>1, ObjectFields
    <2>5. /\ Pair(32) = acl2.activeThresh /\ Pair(35) = acl2.inactiveThresh
          /\ Pair(37) = acl2.inactiveTimer /\ regs[34] = acl2.activeTimer
      BY <2>2, <2>3, <2>4, LowHigh
    <2>6. PICK p \in Presets \cup {Defaults} :
             /\ acl2.activeThresh = p.activeThresh     /\ acl2.activeTimer = p.activeTimer
             /\ acl2.inactiveThresh = p.inactiveThresh /\ acl2.inactiveTimer = p.inactiveTimer
      BY DEF Chosen
    <2>7. \E q \in Presets \cup {[activeThresh |-> 32, activeTimer |-> 100,
                                  inactiveThresh |-> 26, inactiveTimer |-> 100]} :
             /\ Pair(32) = q.activeThresh   /\ regs[34] = q.activeTimer
             /\ Pair(35) = q.inactiveThresh /\ Pair(37) = q.inactiveTimer
      <3>1. \E q \in Presets \cup {Defaults} :
               /\ Pair(32) = q.activeThresh   /\ regs[34] = q.activeTimer
               /\ Pair(35) = q.inactiveThresh /\ Pair(37) = q.inactiveTimer
        BY <2>5, <2>6
      <3> QED
        BY ONLY <3>1, Zenon DEF Defaults
    <2> QED
      BY <1>5, <2>2, <2>7, Literals DEF MeasuresConfigured
  <1> QED
    BY <1>7, <1>8 DEF Configures

LEMMA RangeOnly ==
  ASSUME IInv, \A c \in 32..45 : c # 44 => regs'[c] = regs[c], regs'[44] \in FilterValues
  PROVE  MeasuresConfigured'
  <1>1. \A c \in {32, 33, 34, 35, 36, 37, 38, 39, 40, 41, 45} : regs'[c] = regs[c]
    OBVIOUS
  <1>2. \A i \in 1..7 : regs'[31 + i] = regs[31 + i]
    OBVIOUS
  <1>3. [i \in 1..7 |-> regs'[31 + i]] = [i \in 1..7 |-> regs[31 + i]]
    BY <1>2
  <1>4. /\ regs'[ACT_INACT_CTL] = regs[ACT_INACT_CTL] /\ regs'[FIFO_CONTROL] = regs[FIFO_CONTROL]
        /\ regs'[41] = regs[41] /\ regs'[34] = regs[34] /\ regs'[POWER_CTL] = regs[POWER_CTL]
    BY <1>1, Literals
  <1>5. Pair(32)' = Pair(32) /\ Pair(35)' = Pair(35) /\ Pair(37)' = Pair(37)
    BY <1>1 DEF Pair
  <1>6. Measuring' <=> Measuring
    BY <1>4 DEF Measuring
  <1>7. regs'[FILTER_CTL] % 64 = 19
    BY Literals
  <1>8. MeasuresConfigured
    BY DEF IInv
  <1>9. ASSUME Measuring' PROVE MeasuresConfigured'
    <2>1. /\ regs'[FIFO_CONTROL] = 0 /\ regs'[41] = 0 /\ regs'[POWER_CTL] = 34
      BY <1>4, <1>6, <1>8, <1>9 DEF MeasuresConfigured
    <2>2. CASE /\ regs[ACT_INACT_CTL] = 5
               /\ SubSeq([i \in 1..7 |-> regs[31 + i]], 1, 7) = <<20, 0, 100, 16, 0, 100, 0>>
      <3>1. /\ regs'[ACT_INACT_CTL] = 5
            /\ SubSeq([i \in 1..7 |-> regs'[31 + i]], 1, 7) = <<20, 0, 100, 16, 0, 100, 0>>
        BY ONLY <1>3, <1>4, <2>2, Zenon
      <3> QED
        BY ONLY <1>7, <2>1, <3>1, Zenon DEF MeasuresConfigured
    <2>3. CASE /\ regs[ACT_INACT_CTL] = 31
               /\ \E p \in Presets \cup {[activeThresh |-> 32, activeTimer |-> 100,
                                          inactiveThresh |-> 26, inactiveTimer |-> 100]} :
                     /\ Pair(32) = p.activeThresh   /\ regs[34] = p.activeTimer
                     /\ Pair(35) = p.inactiveThresh /\ Pair(37) = p.inactiveTimer
      <3>1. PICK p \in Presets \cup {[activeThresh |-> 32, activeTimer |-> 100,
                                      inactiveThresh |-> 26, inactiveTimer |-> 100]} :
               /\ Pair(32) = p.activeThresh   /\ regs[34] = p.activeTimer
               /\ Pair(35) = p.inactiveThresh /\ Pair(37) = p.inactiveTimer
        BY <2>3, Zenon
      <3>2. /\ regs'[ACT_INACT_CTL] = 31
            /\ Pair(32)' = p.activeThresh   /\ regs'[34] = p.activeTimer
            /\ Pair(35)' = p.inactiveThresh /\ Pair(37)' = p.inactiveTimer
        BY ONLY <1>4, <1>5, <2>3, <3>1, Zenon
      <3> QED
        BY ONLY <1>7, <2>1, <3>2, p \in Presets \cup {[activeThresh |-> 32, activeTimer |-> 100,
                                         inactiveThresh |-> 26, inactiveTimer |-> 100]},
           Zenon DEF MeasuresConfigured
    <2> QED
      BY <1>6, <1>8, <1>9, <2>2, <2>3, Zenon DEF MeasuresConfigured
  <1> QED
    BY <1>9, Zenon DEF MeasuresConfigured

LEMMA ExchangeConfigured ==
  ASSUME IInv, exchange, Types', Scripted', Configures => Written', Chosen'
  PROVE  MeasuresConfigured'
  <1>1. /\ sent \in 0..Size(frames[1]) - 1
        /\ UNCHANGED <<pc, call, frames>> /\ pc = "transfer"
        /\ \/ Untouched
           \/ Defaulted
           \/ WritesByte(frames[1][2] + sent - 2)
    BY ExchangeCases
  <1>2. CASE Untouched
    BY <1>2, RegsKept DEF Untouched, IInv
  <1>3. CASE Defaulted
    <2>1. regs'[45] = 0
      BY <1>3, Reset DEF Defaulted
    <2>2. ~Measuring'
      BY <2>1, Literals DEF Measuring
    <2> QED
      BY <2>2 DEF MeasuresConfigured
  <1>4. CASE Configures
    <2>1. Busy' /\ Configures' /\ Written'
      BY <1>1, <1>4 DEF Busy, Configures
    <2>2. (Types /\ Scripted /\ Written /\ Busy /\ Configures /\ Chosen => MeasuresConfigured)'
      BY ConfiguredMeasures, PTL
    <2> QED
      BY <2>1, <2>2
  <1>5. ASSUME NEW a, WritesByte(a), ~Configures PROVE MeasuresConfigured'
    <2>1. a = 44
      BY <1>5, Senders
    <2>2. \A c \in 32..45 : c # 44 => regs'[c] = regs[c]
      BY <1>5, <2>1, ByteWritten
    <2>3. regs'[44] \in FilterValues
      BY Literals DEF Types
    <2> QED
      BY <2>2, <2>3, RangeOnly
  <1> QED
    BY <1>1, <1>2, <1>3, <1>4, <1>5

LEMMA ExchangeKeeps ==
  ASSUME IInv, exchange
  PROVE  IInv'
  <1>1. /\ UNCHANGED <<pc, acl2, call, frames, result>> /\ pc = "transfer"
    BY ExchangeCases
  <1>2. Busy /\ Busy' /\ (Configures' <=> Configures)
    BY <1>1 DEF Busy, Configures
  <1>3. Types' /\ InStep' /\ ReadBack' /\ Prepared' /\ Ranged'
    BY ExchangeTypes, ExchangeInStep, ExchangeReadBack, ExchangePrepared, ExchangeRanged
  <1>4. Scripted'
    BY <1>1, <1>2, ScriptKept DEF IInv
  <1>5. Written'
    <2>1. Configures => Written'
      BY ExchangeWritten
    <2> QED
      BY <1>2, <2>1 DEF Written
  <1>6. Chosen'
    BY <1>1 DEF IInv, Chosen
  <1>7. MeasuresConfigured'
    BY <1>3, <1>4, <1>5, <1>6, ExchangeConfigured
  <1>8. SampleWhole'
    BY <1>1, ResultKept DEF IInv
  <1> QED
    BY <1>3, <1>4, <1>5, <1>6, <1>7, <1>8 DEF IInv

-----------------------------------------------------------------------------
(* What the end of a frame keeps.                                          *)

LEMMA Deselecting ==
  ASSUME IInv, deselect
  PROVE  /\ pc = "transfer" /\ Busy /\ sent = Size(frames[1]) /\ Size(frames[1]) \in 3..10
         /\ frames \in Seq(Seq(Byte)) /\ frames # << >> /\ frames[1] \in Frames
         /\ frames' = Remaining /\ selected' = FALSE /\ frame' = << >>
         /\ bytearray' = << >> /\ sent' = 0 /\ latched' = NoSample
         /\ UNCHANGED <<regs, status, booting, reading>>
         /\ Remaining # << >> => pc' = "select" /\ UNCHANGED <<acl2, call, result, prepared>>
         /\ Remaining = << >> =>
               /\ pc' = "ready" /\ call' = NoCall
               /\ result' = [fn |-> call.fn, arg |-> call.arg, val |-> Returned]
               /\ acl2' = IF Configures \/ call.fn = "setRange"
                          THEN [acl2 EXCEPT !.range = RangeOf(Received)] ELSE acl2
               /\ prepared' = IF call.fn = "reset" THEN "reset"
                              ELSE IF Configures THEN "no" ELSE prepared
  <1>1. /\ pc = "transfer" /\ sent = Size(bytearray) /\ selected' = FALSE /\ frame' = << >>
        /\ frames' = Remaining
        /\ bytearray' = << >> /\ sent' = 0 /\ latched' = NoSample
        /\ UNCHANGED <<regs, status, booting, reading>>
    BY DEF deselect, DriveSelectHigh, Size
  <1>2. Busy
    BY <1>1 DEF Busy
  <1>3. /\ frames \in Seq(Seq(Byte)) /\ frames # << >> /\ frames[1] \in Frames
        /\ Size(bytearray) = Size(frames[1])
    BY <1>1, <1>2 DEF IInv, InStep
  <1>4. Size(frames[1]) \in 3..10
    BY <1>3, FrameBytes
  <1>5. Remaining # << >> => pc' = "select" /\ UNCHANGED <<acl2, call, result, prepared>>
    BY DEF deselect
  <1>6. Remaining = << >> =>
               /\ pc' = "ready" /\ call' = NoCall
               /\ result' = [fn |-> call.fn, arg |-> call.arg, val |-> Returned]
               /\ acl2' = IF Configures \/ call.fn = "setRange"
                          THEN [acl2 EXCEPT !.range = RangeOf(Received)] ELSE acl2
               /\ prepared' = IF call.fn = "reset" THEN "reset"
                              ELSE IF Configures THEN "no" ELSE prepared
    BY DEF deselect
  <1> QED
    BY <1>1, <1>2, <1>3, <1>4, <1>5, <1>6

(* What is left, by the function and the number of frames.                 *)
LEMMA Rest ==
  ASSUME NEW s \in Seq(Seq(Byte)), s # << >>
  PROVE  /\ Tail(s) \in Seq(Seq(Byte)) /\ Len(Tail(s)) = Len(s) - 1 /\ Len(s) \in Nat \ {0}
         /\ \A i \in 1..Len(s) - 1 : Tail(s)[i] = s[i + 1]
         /\ Len(s) = 1 <=> Tail(s) = << >>
  <1>1. /\ Tail(s) \in Seq(Seq(Byte)) /\ Len(Tail(s)) = Len(s) - 1
        /\ \A i \in 1..Len(Tail(s)) : Tail(s)[i] = s[i + 1]
    BY HeadTailProperties
  <1>2. Len(s) \in Nat \ {0}
    BY EmptySeq, LenProperties
  <1>3. Tail(s) = << >> <=> Len(Tail(s)) = 0
    BY <1>1, EmptySeq
  <1> DEFINE n == Len(s)
             m == Len(Tail(s))
  <1>4. n \in Nat \ {0} /\ m = n - 1 /\ (Tail(s) = << >> <=> m = 0)
    BY <1>1, <1>2, <1>3, Zenon
  <1>5. \A i \in 1..n - 1 : Tail(s)[i] = s[i + 1]
    BY ONLY <1>1, Zenon
  <1> HIDE DEF n, m
  <1>6. n = 1 <=> Tail(s) = << >>
    BY ONLY <1>4
  <1> QED
    BY <1>1, <1>4, <1>5, <1>6, Zenon DEF n, m

LEMMA BytesReceived ==
  ASSUME IInv, deselect, frames[1][1] = READ
  PROVE  /\ frames[1][2] = FILTER_CTL /\ Size(frames[1]) = 3 => Received = regs[FILTER_CTL]
         /\ frames[1][2] \in 14..21 =>
               \A i \in 3..Size(frames[1]) : bytearray[i] = DataByte(frames[1][2] + i - 3)
  <1>1. pc = "transfer" /\ sent = Size(frames[1]) /\ ReadBack
    BY Deselecting DEF IInv
  <1> QED
    BY <1>1 DEF ReadBack, Received

LEMMA RemainingFrames ==
  ASSUME IInv, deselect
  PROVE  /\ Left \in Nat \ {0}
         /\ call.fn \notin {"setRange"} /\ ~Configures => Left = 1 /\ Remaining = << >>
         /\ Left = 1 => Remaining = << >>
         /\ Left > 1 => /\ Remaining # << >> /\ Remaining \in Seq(Seq(Byte))
                        /\ Len(Remaining) = Left - 1
         /\ call.fn = "setRange" /\ Left = 3 =>
               /\ \E t \in FilterValues :
                     Remaining[1] = ACL2c_WriteSpi(FILTER_CTL, <<WithRange(t, call.arg)>>)
               /\ Remaining[2] = ACL2c_ReadSpi(FILTER_CTL, 1)
         /\ ~(call.fn = "setRange" /\ Left = 3) =>
               \A i \in 1..Left - 1 : Remaining[i] = frames[i + 1]
  <1>1. /\ frames \in Seq(Seq(Byte)) /\ frames # << >> /\ Busy /\ Scripted
    BY Deselecting DEF IInv
  <1>2. /\ Tail(frames) \in Seq(Seq(Byte)) /\ Len(Tail(frames)) = Left - 1 /\ Left \in Nat \ {0}
        /\ \A i \in 1..Left - 1 : Tail(frames)[i] = frames[i + 1]
        /\ Left = 1 <=> Tail(frames) = << >>
    BY <1>1, Rest DEF Left
  <1>3. Left = Len(frames)
    BY DEF Left
  <1>4. ASSUME call.fn \notin {"setRange"}, ~Configures PROVE Left = 1
    <2>1. call.fn \in {"reset", "getStatus", "getSample", "getData"}
      BY <1>1, <1>4 DEF Scripted, Calls, Configures
    <2>2. \E f : frames = <<f>>
      BY <1>1, <2>1 DEF Scripted, ACL2c_reset, ACL2c_getStatus, ACL2c_getSample, ACL2c_getData
    <2>3. PICK f : frames = <<f>>
      BY <2>2
    <2> QED
      BY <2>3 DEF Left
  <1>5. CASE call.fn = "setRange" /\ Left = 3
    <2>1. Remaining = Tail(ACL2c_setRange(call.arg, Received))
      BY <1>3, <1>5 DEF Remaining
    <2>2. frames[1][1] = READ /\ frames[1][2] = FILTER_CTL /\ Size(frames[1]) = 3 /\ call.arg \in Ranges
      BY <1>1, <1>5, FirstFrame
    <2>3. Received = regs[FILTER_CTL]
      BY <2>2, BytesReceived
    <2>4. Received \in FilterValues
      BY <2>3 DEF IInv, Types
    <2>5. Received \in Byte
      BY <2>4, Literals
    <2>6. /\ Remaining \in Seq(Seq(Byte)) /\ Len(Remaining) = 2
          /\ Remaining[1] = ACL2c_WriteSpi(FILTER_CTL, <<WithRange(Received, call.arg)>>)
          /\ Remaining[2] = ACL2c_ReadSpi(FILTER_CTL, 1)
      <3> DEFINE t == Tail(ACL2c_setRange(call.arg, Received))
      <3>1. /\ t \in Seq(Seq(Byte)) /\ Len(t) = 2
            /\ t[1] = ACL2c_WriteSpi(FILTER_CTL, <<WithRange(Received, call.arg)>>)
            /\ t[2] = ACL2c_ReadSpi(FILTER_CTL, 1)
        BY <2>2, <2>5, SetRangeFrames, Zenon
      <3> QED
        BY <2>1, <3>1, Zenon
    <2>7. Remaining # << >>
      <3>1. 2 # 0
        OBVIOUS
      <3> QED
        BY ONLY <2>6, <3>1, EmptySeq, Zenon
    <2>8. Left - 1 = 2 /\ Left # 1 /\ Left > 1 /\ call.fn \in {"setRange"}
      BY <1>5
    <2>9. \E t \in FilterValues :
             Remaining[1] = ACL2c_WriteSpi(FILTER_CTL, <<WithRange(t, call.arg)>>)
      BY <2>4, <2>6, Zenon
    <2>10. Len(Remaining) = Left - 1
      BY <2>6, <2>8, Zenon
    <2> QED
      BY <1>2, <1>5, <2>6, <2>7, <2>8, <2>9, <2>10, Zenon
  <1>6. CASE ~(call.fn = "setRange" /\ Left = 3)
    <2>1. Remaining = Tail(frames)
      BY <1>3, <1>6 DEF Remaining
    <2> QED
      BY <1>2, <1>4, <1>6, <2>1
  <1> QED
    BY <1>5, <1>6

LEMMA MoreScript ==
  ASSUME IInv, deselect, Left > 1
  PROVE  /\ Scripted' /\ Left' = Left - 1 /\ frames'[1] \in Frames
         /\ pc' = "select" /\ Remaining # << >> /\ Remaining \in Seq(Seq(Byte))
         /\ UNCHANGED <<acl2, call, result, prepared>>
         /\ call.fn = "setRange" \/ Configures
  <1>1. /\ Remaining # << >> /\ Remaining \in Seq(Seq(Byte)) /\ Len(Remaining) = Left - 1
        /\ Left \in Nat \ {0} /\ (call.fn = "setRange" \/ Configures)
    BY RemainingFrames
  <1>2. /\ frames' = Remaining /\ pc' = "select" /\ UNCHANGED <<acl2, call, result, prepared>>
        /\ Busy
    BY <1>1, Deselecting
  <1>3. Left' = Left - 1
    BY <1>1, <1>2 DEF Left
  <1>4. Busy' /\ (Configures' <=> Configures) /\ call'.fn = call.fn /\ call'.arg = call.arg
    BY <1>2 DEF Busy, Configures
  <1>5. CASE call.fn = "setRange"
    <2>1. call.arg \in Ranges /\ Left \in {2, 3} /\ ~Configures
      BY <1>1, <1>2, <1>5, FirstFrame DEF Configures
    <2>2. CASE Left = 3
      <3>1. /\ \E t \in FilterValues :
                  Remaining[1] = ACL2c_WriteSpi(FILTER_CTL, <<WithRange(t, call.arg)>>)
            /\ Remaining[2] = ACL2c_ReadSpi(FILTER_CTL, 1)
        BY <1>5, <2>2, RemainingFrames
      <3>2. PICK t \in FilterValues :
                  Remaining[1] = ACL2c_WriteSpi(FILTER_CTL, <<WithRange(t, call.arg)>>)
        BY <3>1
      <3>3. Remaining[1] \in Frames
        BY <2>1, <3>2, RangeFrame
      <3>4. Left' = 2
        BY <1>3, <2>2
      <3>5. Scripted'
        BY <1>2, <1>4, <1>5, <2>1, <3>1, <3>4 DEF Scripted, Calls
      <3> QED
        BY <1>1, <1>2, <1>3, <3>3, <3>5
    <2>3. CASE Left = 2
      <3>1. frames[2] = ACL2c_ReadSpi(FILTER_CTL, 1)
        BY <1>2, <1>5, <2>3 DEF IInv, Scripted
      <3>2. Remaining[1] = frames[2]
        <4>1. \A i \in 1..Left - 1 : Remaining[i] = frames[i + 1]
          BY <2>3, RemainingFrames
        <4>2. 1 \in 1..Left - 1 /\ 1 + 1 = 2
          BY <2>3
        <4> QED
          BY <4>1, <4>2
      <3>3. Remaining[1] \in Frames
        BY <3>1, <3>2, ReadFrame
      <3>4. Left' = 1
        BY <1>3, <2>3
      <3>5. Scripted'
        BY <1>2, <1>4, <1>5, <2>1, <3>1, <3>2, <3>4 DEF Scripted, Calls
      <3> QED
        BY <1>1, <1>2, <1>3, <3>3, <3>5
    <2> QED
      BY <2>1, <2>2, <2>3
  <1>6. CASE Configures
    <2>1. call.fn # "setRange" /\ call.fn \in {"configureMeasureMode", "configureLinkedMode"}
      BY <1>6 DEF Configures
    <2>2. /\ Left \in 1..6 /\ acl2 \in Object
          /\ \A i \in 1..Left : frames[i] = ConfFrame(Left + 1 - i)
      BY <1>2, <1>6, Configuring
    <2>3. \A i \in 1..Left - 1 : Remaining[i] = frames[i + 1]
      BY <2>1, RemainingFrames
    <2>4. \A i \in 1..Left - 1 : Remaining[i] = ConfFrame(Left - i)
      <3>1. ASSUME NEW i \in 1..Left - 1 PROVE Remaining[i] = ConfFrame(Left - i)
        <4>1. i + 1 \in 1..Left /\ Left + 1 - (i + 1) = Left - i
          BY <2>2
        <4>2. frames[i + 1] = ConfFrame(Left + 1 - (i + 1))
          BY <2>2, <4>1
        <4>3. frames[i + 1] = ConfFrame(Left - i)
          BY <4>1, <4>2
        <4> QED
          BY <2>3, <4>3
      <3> QED
        BY <3>1
    <2>5. Remaining[1] \in Frames
      <3>1. 1 \in 1..Left - 1 /\ Left - 1 \in 1..6
        BY <2>2
      <3>2. Remaining[1] = ConfFrame(Left - 1)
        BY <2>4, <3>1
      <3> QED
        BY <2>2, <3>1, <3>2, ConfFrames
    <2>6. \A k \in 1..6 : ConfFrame(k)' = ConfFrame(k)
      <3>1. ThreshData' = ThreshData /\ CtlData' = CtlData
        BY <1>2 DEF ThreshData, CtlData
      <3> QED
        BY <3>1 DEF ConfFrame
    <2>7. \A i \in 1..Left' : frames'[i] = ConfFrame(Left + 1 - i)'
      <3>1. ASSUME NEW i \in 1..Left' PROVE frames'[i] = ConfFrame(Left + 1 - i)'
        <4>1. i \in 1..Left - 1 /\ Left' + 1 - i = Left - i /\ Left - i \in 1..6
          BY <1>3, <2>2
        <4>2. frames'[i] = ConfFrame(Left - i)
          BY <1>2, <2>4, <4>1
        <4>3. ConfFrame(Left + 1 - i)' = ConfFrame(Left - i)
          BY <2>6, <4>1
        <4> QED
          BY <4>1, <4>2, <4>3
      <3> QED
        BY <3>1
    <2>8. Left' \in 1..6
      BY <1>3, <2>2
    <2>9. Scripted'
      BY <1>4, <1>6, <2>1, <2>7, <2>8 DEF Scripted, Calls
    <2> QED
      BY <1>1, <1>2, <1>3, <2>5, <2>9
  <1> QED
    BY <1>1, <1>5, <1>6

LEMMA MoreFrames ==
  ASSUME IInv, deselect, Left > 1
  PROVE  IInv'
  <1>1. /\ Scripted' /\ Left' = Left - 1 /\ frames'[1] \in Frames
        /\ pc' = "select" /\ Remaining # << >> /\ Remaining \in Seq(Seq(Byte))
        /\ UNCHANGED <<acl2, call, result, prepared>>
        /\ call.fn = "setRange" \/ Configures
    BY MoreScript
  <1>2. /\ pc = "transfer" /\ Busy /\ sent = Size(frames[1]) /\ Size(frames[1]) \in 3..10
        /\ frames' = Remaining /\ selected' = FALSE /\ frame' = << >>
        /\ bytearray' = << >> /\ sent' = 0 /\ latched' = NoSample
        /\ UNCHANGED <<regs, status, booting, reading>>
    BY Deselecting
  <1>3. Busy' /\ (Configures' <=> Configures) /\ ThreshData' = ThreshData /\ CtlData' = CtlData
    BY <1>1 DEF Busy, Configures, ThreshData, CtlData
  <1>4. Types'
    <2>1. frame' \in Seq(Byte) /\ Len(frame') <= 2
      BY <1>2
    <2> QED
      BY <1>1, <1>2, <2>1 DEF IInv, Types, Taken
  <1>5. InStep'
    BY <1>1, <1>2, <1>3 DEF InStep
  <1>6. ReadBack'
    BY <1>1 DEF ReadBack
  <1>7. ~booting
    <2>1. call.fn # "reset"
      BY <1>1 DEF Configures
    <2> QED
      BY <1>2, <2>1 DEF IInv, Prepared
  <1>8. Prepared'
    BY <1>1, <1>2, <1>3, <1>7 DEF IInv, Prepared
  <1>9. Written'
    <2> SUFFICES ASSUME Configures PROVE Written'
      BY <1>3 DEF Written
    <2>1. Left \in 1..6 /\ acl2 \in Object /\ frames[1] = ConfFrame(Left)
      BY <1>2, Configuring
    <2>2. /\ Left = 6 => sent = 9
          /\ Left = 5 => sent = 3
          /\ Left = 4 => sent = 4
          /\ Left = 3 => sent = 3
          /\ Left = 2 => sent = 3
      BY <1>2, <2>1, ConfFrames
    <2>3. /\ \A i \in 1..7 : Got(6, i)' => Got(6, i)
          /\ Got(5, 1)' <=> Got(5, 1)
          /\ Got(4, 1)' <=> Got(4, 1)
          /\ Got(4, 2)' => Got(4, 2)
          /\ Got(3, 1)' <=> Got(3, 1)
          /\ Got(2, 1)' <=> Got(2, 1)
      BY <1>1, <1>2, <2>1, <2>2 DEF Got
    <2> QED
      BY <1>2, <1>3, <2>3 DEF IInv, Written
  <1>10. Ranged'
    <2>1. ASSUME call.fn = "setRange", call.arg \in {2, 4, 8}, Left' = 1
          PROVE  RangeOf(regs'[FILTER_CTL]) = call.arg
      <3>1. Left = 2
        BY <1>1, <2>1, RemainingFrames
      <3>2. sent = 3
        BY <1>2, <2>1, <3>1, FirstFrame
      <3> QED
        BY <1>2, <2>1, <3>1, <3>2 DEF IInv, Ranged
    <2>2. /\ acl2'.range # 0 /\ prepared' = "no" /\ call'.fn \notin {"reset", "setRange"} =>
                acl2'.range = RangeOf(regs'[FILTER_CTL])
      BY <1>1, <1>2 DEF IInv, Ranged
    <2>3. pc' # "ready" /\ pc' # "down" /\ sent' # 3
      BY <1>1, <1>2
    <2>4. call'.fn = "setRange" /\ call'.arg \in {2, 4, 8} /\ (Left' = 1 \/ (Left' = 2 /\ sent' = 3))
             => RangeOf(regs'[FILTER_CTL]) = call'.arg
      BY <1>1, <2>1, <2>3
    <2> QED
      BY <2>2, <2>3, <2>4 DEF Ranged
  <1>11. Chosen'
    BY <1>1, <1>2 DEF IInv, Chosen
  <1> QED
    BY <1>1, <1>2, <1>4, <1>5, <1>6, <1>8, <1>9, <1>10, <1>11, RegsKept, ResultKept DEF IInv

LEMMA PairReceived ==
  ASSUME latched \in Taken, NEW j \in 1..4,
         NEW low, NEW high, low = DataByte(2 * j + 12), high = DataByte(2 * j + 13)
  PROVE  ACL2c_RawToInt(low, high) = latched[j]
  <1> DEFINE v == latched[j]
  <1>1. v \in Value
    BY SampleValues
  <1>2. /\ (2 * j + 12 - 14) \div 2 + 1 = j /\ (2 * j + 13 - 14) \div 2 + 1 = j
        /\ (2 * j + 12) % 2 = 0 /\ (2 * j + 13) % 2 # 0
    OBVIOUS
  <1>3. low = Low(Unsigned(v)) /\ high = High(Unsigned(v))
    BY <1>2 DEF DataByte
  <1> HIDE DEF v
  <1>4. ACL2c_RawToInt(low, high) = v
    BY <1>1, <1>3, Halves
  <1> QED
    BY <1>4 DEF v

LEMMA LastResult ==
  ASSUME IInv, deselect, Remaining = << >>
  PROVE  SampleWhole'
  <1>1. /\ Busy /\ result' = [fn |-> call.fn, arg |-> call.arg, val |-> Returned]
    BY Deselecting
  <1>2. result'.fn = call.fn /\ result'.arg = call.arg /\ result'.val = Returned
    BY <1>1
  <1>3. latched \in Taken
    BY DEF IInv, Types
  <1>4. ASSUME call.fn = "getSample" PROVE result'.val \in Taken
    <2>1. frames[1][1] = READ /\ frames[1][2] = 14 /\ Size(frames[1]) = 10
      <3>1. frames[1][1] = READ /\ frames[1][2] = XDATA_L /\ Size(frames[1]) = 10
        BY <1>1, <1>4, FirstFrame, Zenon
      <3>2. XDATA_L = 14
        BY Literals
      <3> QED
        BY ONLY <3>1, <3>2
    <2>2. \A i \in 3..10 : bytearray[i] = DataByte(14 + i - 3)
      BY <2>1, BytesReceived
    <2>3. ASSUME NEW j \in 1..4
          PROVE  ACL2c_RawToInt(bytearray[2 * j + 1], bytearray[2 * j + 2]) = latched[j]
      <3>1. /\ 2 * j + 1 \in 3..10 /\ 2 * j + 2 \in 3..10
            /\ 14 + (2 * j + 1) - 3 = 2 * j + 12 /\ 14 + (2 * j + 2) - 3 = 2 * j + 13
        OBVIOUS
      <3>2. bytearray[2 * j + 1] = DataByte(2 * j + 12) /\ bytearray[2 * j + 2] = DataByte(2 * j + 13)
        BY <2>2, <3>1
      <3> QED
        BY <1>3, <3>2, PairReceived
    <2>4. Returned = [j \in 1..4 |-> ACL2c_RawToInt(bytearray[2 * j + 1], bytearray[2 * j + 2])]
      BY <1>4 DEF Returned
    <2>5. Returned = [j \in 1..4 |-> latched[j]]
      BY <2>3, <2>4
    <2>6. latched \in [1..4 -> Value]
      BY <1>3, SampleValues
    <2>7. latched = [j \in 1..4 |-> latched[j]]
      BY <2>6
    <2> QED
      BY <1>2, <1>3, <2>5, <2>7
  <1>5. ASSUME call.fn = "getData"
        PROVE  \E s \in Taken : result'.val[1] = s[(result'.arg - 14) \div 2 + 1]
    <2>1. /\ frames[1][1] = READ /\ frames[1][2] = call.arg /\ Size(frames[1]) = 4
          /\ call.arg \in {14, 16, 18, 20}
      BY <1>1, <1>5, FirstFrame, Literals
    <2>2. frames[1][2] \in 14..21
      BY <2>1
    <2>3. \A i \in 3..4 : bytearray[i] = DataByte(call.arg + i - 3)
      BY <2>1, <2>2, BytesReceived
    <2>4. PICK j \in 1..4 : call.arg = 2 * j + 12
      BY <2>1
    <2>5. bytearray[3] = DataByte(2 * j + 12) /\ bytearray[4] = DataByte(2 * j + 13)
      <3>1. 3 \in 3..4 /\ 4 \in 3..4 /\ call.arg + 3 - 3 = 2 * j + 12 /\ call.arg + 4 - 3 = 2 * j + 13
        BY <2>4
      <3> QED
        BY <2>3, <3>1
    <2>6. ACL2c_RawToInt(bytearray[3], bytearray[4]) = latched[j]
      BY <1>3, <2>5, PairReceived
    <2>7. Returned = <<ACL2c_RawToInt(bytearray[3], bytearray[4])>>
      BY <1>5 DEF Returned
    <2>8. result'.val[1] = latched[j]
      BY <1>2, <2>6, <2>7
    <2>9. (result'.arg - 14) \div 2 + 1 = j
      BY <1>2, <2>4
    <2> QED
      BY <1>3, <2>8, <2>9
  <1> QED
    BY <1>2, <1>4, <1>5 DEF SampleWhole, Taken

LEMMA LastFrame ==
  ASSUME IInv, deselect, Remaining = << >>
  PROVE  IInv'
  <1>1. Left = 1
    BY RemainingFrames
  <1>2. /\ pc = "transfer" /\ Busy /\ sent = Size(frames[1]) /\ Size(frames[1]) \in 3..10
        /\ frames' = Remaining /\ selected' = FALSE /\ frame' = << >>
        /\ bytearray' = << >> /\ sent' = 0 /\ latched' = NoSample
        /\ UNCHANGED <<regs, status, booting, reading>>
        /\ pc' = "ready" /\ call' = NoCall
        /\ result' = [fn |-> call.fn, arg |-> call.arg, val |-> Returned]
        /\ acl2' = IF Configures \/ call.fn = "setRange"
                   THEN [acl2 EXCEPT !.range = RangeOf(Received)] ELSE acl2
        /\ prepared' = IF call.fn = "reset" THEN "reset"
                       ELSE IF Configures THEN "no" ELSE prepared
    BY Deselecting
  <1>3. ~Busy'
    BY <1>2 DEF Busy
  <1>4. acl2 \in Object
    BY DEF IInv, Types
  <1>5. RangeOf(Received) \in {2, 4, 8}
    BY DEF RangeOf
  <1>6. /\ acl2' \in Object
        /\ acl2'.activeThresh = acl2.activeThresh /\ acl2'.activeTimer = acl2.activeTimer
        /\ acl2'.inactiveThresh = acl2.inactiveThresh /\ acl2'.inactiveTimer = acl2.inactiveTimer
        /\ acl2'.range = IF Configures \/ call.fn = "setRange" THEN RangeOf(Received) ELSE acl2.range
    <2>1. CASE Configures \/ call.fn = "setRange"
      BY <1>2, <1>4, <1>5, <2>1 DEF Object
    <2>2. CASE ~(Configures \/ call.fn = "setRange")
      BY <1>2, <1>4, <2>2
    <2> QED
      BY <2>1, <2>2
  <1>7. Types'
    <2>1. frame' \in Seq(Byte) /\ Len(frame') <= 2
      BY <1>2
    <2> QED
      BY <1>2, <1>6, <2>1 DEF IInv, Types, Taken
  <1>8. InStep'
    BY <1>2, <1>3 DEF InStep
  <1>9. Prepared
    BY DEF IInv
  <1>10. ASSUME call.fn # "reset" PROVE prepared' = "no" /\ ~booting
    BY <1>2, <1>9, <1>10 DEF Prepared, IInv, Types
  <1>11. ASSUME call.fn = "reset" PROVE prepared' = "reset" /\ regs' = RegDefaults
    <2>1. sent = 3
      BY <1>2, <1>11, FirstFrame
    <2> QED
      BY <1>2, <1>9, <1>11, <2>1 DEF Prepared
  <1>12. Prepared'
    BY <1>2, <1>3, <1>10, <1>11 DEF Prepared
  <1>13. ASSUME Configures \/ call.fn = "setRange" PROVE Received = regs[FILTER_CTL]
    <2>1. frames[1][1] = READ /\ frames[1][2] = FILTER_CTL
      BY <1>1, <1>2, <1>13, FirstFrame, ConfigureFrame
    <2>2. Size(frames[1]) = 3
      <3>1. CASE call.fn = "setRange"
        BY <1>1, <1>2, <3>1, FirstFrame
      <3>2. CASE Configures
        <4>1. frames[1] = ConfFrame(1) /\ acl2 \in Object
          BY <1>1, <1>2, <3>2, Configuring
        <4>2. 1 \in 1..6
          OBVIOUS
        <4> QED
          BY <4>1, <4>2, ConfFrames
      <3> QED
        BY <1>13, <3>1, <3>2
    <2> QED
      BY <2>1, <2>2, BytesReceived
  <1>14. Ranged'
    <2>1. result'.fn = call.fn /\ result'.arg = call.arg /\ call'.fn = "none"
      BY <1>2 DEF NoCall
    <2>2. ASSUME acl2'.range # 0, prepared' = "no" PROVE acl2'.range = RangeOf(regs'[FILTER_CTL])
      <3>1. CASE Configures \/ call.fn = "setRange"
        BY <1>2, <1>6, <1>13, <3>1
      <3>2. CASE ~(Configures \/ call.fn = "setRange")
        <4>1. call.fn # "reset" /\ prepared = "no" /\ acl2'.range = acl2.range
          BY <1>2, <1>6, <1>11, <2>2, <3>2
        <4> QED
          BY <1>2, <2>2, <3>2, <4>1 DEF IInv, Ranged
      <3> QED
        BY <3>1, <3>2
    <2>3. ASSUME call.fn = "setRange", call.arg \in {2, 4, 8} PROVE acl2'.range = call.arg
      <3>1. RangeOf(regs[FILTER_CTL]) = call.arg
        BY <1>1, <1>2, <2>3 DEF IInv, Ranged
      <3> QED
        BY <1>6, <1>13, <2>3, <3>1
    <2> QED
      BY <1>2, <1>3, <2>1, <2>2, <2>3 DEF Ranged
  <1>15. Chosen'
    BY <1>2, <1>6 DEF IInv, Chosen
  <1>16. SampleWhole'
    BY LastResult
  <1> QED
    BY <1>2, <1>3, <1>7, <1>8, <1>12, <1>14, <1>15, <1>16, RegsKept, IdleScript DEF IInv

LEMMA DeselectKeeps ==
  ASSUME IInv, deselect
  PROVE  IInv'
  <1>1. Left \in Nat \ {0} /\ (Left = 1 => Remaining = << >>)
    BY RemainingFrames
  <1> QED
    BY <1>1, MoreFrames, LastFrame

-----------------------------------------------------------------------------
(* The invariant holds.                                                    *)

LEMMA StutterKeeps ==
  ASSUME IInv, UNCHANGED vars
  PROVE  IInv'
  <1>1. UNCHANGED <<pc, acl2, call, frames, bytearray, sent, result, prepared, selected,
                    frame, regs, status, booting, reading, latched>>
    BY DEF vars, programVars, sensorVars
  <1>2. Busy' <=> Busy
    BY <1>1 DEF Busy
  <1>3. Left' = Left /\ (Configures' <=> Configures) /\ ThreshData' = ThreshData /\ CtlData' = CtlData
    BY <1>1, SameScript
  <1>4. Types'
    BY <1>1 DEF IInv, Types
  <1>5. InStep'
    BY <1>1, <1>2 DEF IInv, InStep
  <1>6. Scripted'
    BY <1>1, <1>2, ScriptKept, IdleScript DEF IInv
  <1>7. ReadBack'
    BY <1>1 DEF IInv, ReadBack, DataByte
  <1>8. Written'
    BY <1>1, <1>2, <1>3 DEF IInv, Written, Got
  <1>9. Prepared'
    BY <1>1, <1>2, <1>3 DEF IInv, Prepared
  <1>10. Ranged'
    BY <1>1, <1>2, <1>3 DEF IInv, Ranged
  <1>11. pc' # "down" => Chosen'
    BY <1>1 DEF IInv, Chosen
  <1> QED
    BY <1>1, <1>4, <1>5, <1>6, <1>7, <1>8, <1>9, <1>10, <1>11, RegsKept, ResultKept DEF IInv

LEMMA InitIInv == Init => IInv
  <1> SUFFICES ASSUME Init PROVE IInv
    OBVIOUS
  <1>1. /\ pc = "down" /\ acl2 = ZeroedObject /\ call = NoCall /\ frames = << >>
        /\ bytearray = << >> /\ sent = 0 /\ result = NoResult /\ prepared = "no"
        /\ selected = FALSE
        /\ frame = << >> /\ regs = RegDefaults /\ status = {} /\ booting = FALSE
        /\ reading = NoSample /\ latched = NoSample
    BY DEF Init
  <1>2. ~Busy
    BY <1>1 DEF Busy
  <1>3. Types
    <2>1. acl2 \in Object
      <3>1. 0 \in {0, 2, 4, 8} /\ 0 \in Level /\ 0 \in Byte /\ 0 \in Word
        BY Bytes, Levels, Words
      <3> QED
        BY <1>1, <3>1, Objects DEF ZeroedObject
    <2>2. frame \in Seq(Byte) /\ Len(frame) <= 2
      BY <1>1
    <2> QED
      BY <1>1, <2>1, <2>2, Reset, Literals DEF Types, Taken
  <1>4. InStep
    BY <1>1, <1>2 DEF InStep
  <1>5. Scripted /\ Written
    BY <1>2 DEF Scripted, Written
  <1>6. ReadBack
    BY <1>1 DEF ReadBack
  <1>7. Prepared
    BY <1>1, <1>2 DEF Prepared
  <1>8. Ranged
    BY <1>1, <1>2 DEF Ranged, NoResult, ZeroedObject
  <1>9. MeasuresConfigured
    <2>1. ~Measuring
      BY <1>1, Reset, Literals DEF Measuring
    <2> QED
      BY <2>1 DEF MeasuresConfigured
  <1>10. SampleWhole
    BY <1>1 DEF SampleWhole, NoResult
  <1> QED
    BY <1>1, <1>3, <1>4, <1>5, <1>6, <1>7, <1>8, <1>9, <1>10 DEF IInv

LEMMA StepKeeps == IInv /\ [Next]_vars => IInv'
  <1> SUFFICES ASSUME IInv, [Next]_vars PROVE IInv'
    OBVIOUS
  <1> QED
    BY BeginKeeps, EndKeeps, CallAnyKeeps, CallConfigureKeeps, PresetKeeps, DelayKeeps,
       SelectKeeps, ExchangeKeeps, DeselectKeeps, SensorEventKeeps, ProcessorResetKeeps,
       StutterKeeps DEF Next

(* The inductive invariant holds in every state.                           *)
LEMMA Inductive == Spec => []IInv
  BY InitIInv, StepKeeps, PTL DEF Spec

-----------------------------------------------------------------------------
(* The properties of the runs.                                             *)

(* The variables have their types: every byte sent, received and kept is a *)
(* byte, and the range of the object is zero, 2, 4 or 8.                   *)
THEOREM Typed == Spec => []TypeOK
  <1>1. IInv => TypeOK
    <2> SUFFICES ASSUME IInv PROVE TypeOK
      OBVIOUS
    <2>1. /\ pc \in {"down", "ready", "select", "transfer", "ended"}
          /\ acl2 \in Object
          /\ prepared \in {"no", "reset", "delayed"}
          /\ selected \in BOOLEAN /\ booting \in BOOLEAN
          /\ frame \in Seq(Byte) /\ Len(frame) <= 2
          /\ regs \in [ConfigRegisters -> Byte] /\ status \in SUBSET Events
          /\ reading \in Taken /\ latched \in Taken
      BY DEF IInv, Types
    <2>2. frames \in Seq(Seq(Byte))
      <3>1. (Busy => frames \in Seq(Seq(Byte))) /\ (~Busy => frames = << >>)
        BY DEF IInv, InStep
      <3>2. << >> \in Seq(Seq(Byte))
        OBVIOUS
      <3> QED
        BY <3>1, <3>2, Zenon
    <2>3. bytearray \in Seq(Byte) /\ sent \in 0..Len(bytearray)
      <3>1. CASE pc = "transfer"
        BY <3>1 DEF IInv, InStep, Size
      <3>2. CASE pc # "transfer"
        BY <3>2 DEF IInv, InStep
      <3> QED
        BY <3>1, <3>2
    <2> QED
      BY <2>1, <2>2, <2>3, Zenon DEF TypeOK, Object, Taken
  <1> QED
    BY Inductive, <1>1, PTL

LEMMA FirstOf ==
  ASSUME NEW f \in Seq(Byte), Len(f) \in 3..10
  PROVE  SubSeq(f, 1, 1) = <<f[1]>>
  <1>1. 1 \in 1..Len(f) + 1 /\ 1 \in 1 - 1..Len(f) /\ f[1] \in Byte
    OBVIOUS
  <1>2. /\ SubSeq(f, 1, 1) \in Seq(Byte) /\ Len(SubSeq(f, 1, 1)) = 1
        /\ SubSeq(f, 1, 1)[1] = f[1]
    BY <1>1, SubSeqProperties
  <1>3. <<f[1]>> \in Seq(Byte) /\ Len(<<f[1]>>) = 1 /\ <<f[1]>>[1] = f[1]
    BY <1>1, Ones
  <1>4. ASSUME NEW s \in Seq(Byte), NEW t \in Seq(Byte), Len(s) = 1, Len(t) = 1, s[1] = t[1]
        PROVE  s = t
    <2>1. Len(s) = Len(t) /\ \A i \in 1..Len(s) : s[i] = t[i]
      BY ONLY <1>4
    <2> QED
      BY ONLY <1>4, <2>1, SeqEqual, Zenon
  <1> QED
    BY ONLY <1>2, <1>3, <1>4, Zenon

(* The sensor has heard of a frame what the driver has sent of it, and is  *)
(* deselected between two frames, whenever the processor was reset before. *)
THEOREM InStepAlways == Spec => []SensorInStep
  <1>1. IInv => SensorInStep
    <2> SUFFICES ASSUME IInv PROVE SensorInStep
      OBVIOUS
    <2>1. ASSUME pc = "transfer"
          PROVE  selected /\ frame = IF sent < 2 THEN SubSeq(frames[1], 1, sent)
                                     ELSE <<frames[1][1], frames[1][2] + sent - 2>>
      <3>1. selected /\ frame = Heard(frames[1], sent) /\ frames[1] \in Frames
            /\ sent \in 0..Size(frames[1])
        BY <2>1 DEF IInv, InStep, Busy
      <3>2. Size(frames[1]) \in 3..10
        BY <3>1, FrameBytes
      <3>3. CASE sent = 0
        BY <3>1, <3>3 DEF Heard
      <3>4. CASE sent = 1
        <4>1. frame = <<frames[1][1]>>
          BY <3>1, <3>4 DEF Heard
        <4>2. SubSeq(frames[1], 1, 1) = <<frames[1][1]>>
          <5>1. frames[1] \in Seq(Byte)
            BY <3>1 DEF Frames
          <5>2. Len(frames[1]) \in 3..10
            BY <3>2 DEF Size
          <5> QED
            BY <5>1, <5>2, FirstOf
        <4> QED
          BY <3>1, <3>4, <4>1, <4>2
      <3>5. CASE sent >= 2
        <4>1. frame = <<frames[1][1], frames[1][2] + sent - 2>>
          BY <3>1, <3>5 DEF Heard
        <4> QED
          BY <3>1, <3>5, <4>1
      <3> QED
        BY <3>1, <3>2, <3>3, <3>4, <3>5
    <2>2. pc \in {"ready", "select", "ended"} => ~selected /\ frame = << >>
      BY DEF IInv, InStep
    <2> QED
      BY <2>1, <2>2 DEF SensorInStep
  <1> QED
    BY Inductive, <1>1, PTL

(* Between two calls the driver scales a reading by the range the sensor   *)
(* has, for every reading, and setRange has set the range asked for.       *)
THEOREM ScaledByRange == Spec => []ScaleAgrees
  <1>1. IInv => ScaleAgrees
    <2> SUFFICES ASSUME IInv, pc = "ready", prepared = "no", acl2.range # 0
                 PROVE  /\ \A s \in Readings : \A i \in 1..3 :
                              ACL2c_DataToG(acl2.range, s[i]) = s[i] * Weight
                        /\ result.fn = "setRange" /\ result.arg \in {2, 4, 8} =>
                              acl2.range = result.arg
                        /\ Measuring => regs[FILTER_CTL] % 64 = 19
      BY DEF ScaleAgrees
    <2>1. call.fn = "none"
      BY DEF IInv, InStep, Busy, NoCall
    <2>2. acl2.range = RangeOf(regs[FILTER_CTL])
      BY <2>1 DEF IInv, Ranged
    <2>3. regs[FILTER_CTL] \in {19, 83, 147, 211}
      BY Literals DEF IInv, Types
    <2>4. ASSUME NEW s \in Readings, NEW i \in 1..3
          PROVE  ACL2c_DataToG(acl2.range, s[i]) = s[i] * Weight
      <3>1. s[i] \in Int
        <4>1. s \in [1..4 -> Value] /\ i \in 1..4
          BY ReadingsAssumption
        <4>2. s[i] \in Value
          BY <4>1
        <4>3. \A v \in Value : v \in Int
          BY Values
        <4> QED
          BY <4>2, <4>3, Zenon
      <3>2. \/ acl2.range = 2 /\ Weight = 1
            \/ acl2.range = 4 /\ Weight = 2
            \/ acl2.range = 8 /\ Weight = 4
        BY <2>2, <2>3 DEF RangeOf, Weight
      <3> QED
        BY <3>1, <3>2 DEF ACL2c_DataToG
    <2>5. result.fn = "setRange" /\ result.arg \in {2, 4, 8} => acl2.range = result.arg
      BY DEF IInv, Ranged
    <2>6. regs[FILTER_CTL] % 64 = 19
      BY <2>3
    <2> QED
      BY <2>4, <2>5, <2>6
  <1> QED
    BY Inductive, <1>1, PTL

(* A sample returned is one the sensor has taken, and a pair one of its    *)
(* four values, with its sign.                                             *)
THEOREM SampledWhole == Spec => []SampleWhole
  <1>1. IInv => SampleWhole
    BY DEF IInv
  <1> QED
    BY Inductive, <1>1, PTL

LEMMA StatusReader ==
  ASSUME IInv, exchange, frames[1][1] = READ, sent >= 2, frames[1][2] + sent - 2 = STATUS
  PROVE  call.fn = "getStatus" /\ sent = 2
  <1> DEFINE f == frames[1]
  <1>1. Busy /\ sent \in 0..Size(f) - 1 /\ f \in Frames /\ Size(f) \in 3..10
    BY ExchangeCases DEF Busy
  <1>2. f[2] \in 11..45
    BY <1>1, FrameBytes
  <1>3. sent = 2 /\ f[2] = 11
    BY <1>1, <1>2, Literals
  <1>4. ~Configures
    <2> SUFFICES ASSUME Configures PROVE FALSE
      OBVIOUS
    <2>1. Left \in 1..6 /\ acl2 \in Object /\ f = ConfFrame(Left)
      BY <1>1, Configuring
    <2>2. f[2] # 11
      <3>1. /\ Left = 6 => f[2] = 32
            /\ Left = 5 => f[2] = 39
            /\ Left = 4 => f[2] = 40
            /\ Left = 3 => f[2] = 44
            /\ Left = 2 => f[2] = 45
            /\ Left = 1 => f[2] = 44
        BY <2>1, ConfFrames
      <3> QED
        BY <2>1, <3>1
    <2> QED
      BY <1>3, <2>2
  <1>5. ASSUME call.fn = "setRange" PROVE FALSE
    <2>1. f[2] = 44
      BY <1>1, <1>5, FirstFrame, Literals
    <2> QED
      BY <1>3, <2>1
  <1>6. ASSUME call.fn \in {"reset", "getSample", "getData"} PROVE FALSE
    <2>1. f[2] \in {31, 14, 16, 18, 20}
      BY <1>1, <1>6, FirstFrame, Literals
    <2> QED
      BY <1>3, <2>1
  <1>7. call.fn \in Calls
    BY <1>1, FirstFrame
  <1> QED
    BY <1>3, <1>4, <1>5, <1>6, <1>7 DEF Calls, Configures

(* An event of the sensor is cleared only by a soft reset, or by a status  *)
(* read whose byte has its bit.                                            *)
THEOREM EventsKept == Spec => EventsNotLost
  <1> DEFINE Kept == \A e \in {"ACT", "INACT"} :
                e \in status /\ e \notin status' =>
                    \/ booting'
                    \/ /\ call.fn = "getStatus" /\ sent = 2
                       /\ (bytearray'[3] \div (IF e = "ACT" THEN 16 ELSE 32)) % 2 = 1
  <1>1. IInv /\ [Next]_vars => [Kept]_vars
    <2> SUFFICES ASSUME IInv, Next, NEW e \in {"ACT", "INACT"}, e \in status, e \notin status',
                        ~booting'
                 PROVE  /\ call.fn = "getStatus" /\ sent = 2
                        /\ (bytearray'[3] \div (IF e = "ACT" THEN 16 ELSE 32)) % 2 = 1
      OBVIOUS
    <2>1. exchange
      BY Zenon DEF Next, ACL2c_begin, ACL2c_end, CallAny, CallConfigure, Call, presetLinkedMode,
             delayAfterReset, select, deselect, SensorEvent, ProcessorReset, sensorVars
    <2> DEFINE a == frames[1][2] + sent - 2
    <2>2. sent >= 2 /\ frames[1][1] = READ /\ status' = status \ ClearedBy(a)
      <3>1. /\ sent \in 0..9 /\ frames[1][1] \in {READ, WRITE}
        <4>1. frames[1] \in Frames /\ sent \in 0..Size(frames[1]) - 1 /\ Size(frames[1]) \in 3..10
          BY <2>1, ExchangeCases
        <4> QED
          BY <4>1, FrameBytes
      <3>2. /\ sent < 2 => status' = status
            /\ sent >= 2 /\ frames[1][1] = READ => status' = status \ ClearedBy(a)
            /\ sent >= 2 /\ frames[1][1] = WRITE /\ frames[1][2] = SOFT_RESET => booting' = TRUE
            /\ sent >= 2 /\ frames[1][1] = WRITE /\ frames[1][2] # SOFT_RESET => status' = status
        BY <2>1, ExchangeEffect
      <3>3. sent < 2 \/ sent >= 2
        BY <3>1
      <3> QED
        BY <3>1, <3>2, <3>3
    <2>3. a = STATUS
      BY <2>2 DEF ClearedBy
    <2>4. call.fn = "getStatus" /\ sent = 2
      BY <2>1, <2>2, <2>3, StatusReader
    <2>5. bytearray'[3] = StatusByte
      <3>1. bytearray'[sent + 1] = Answer
        BY <2>1, BytesExchanged
      <3>2. Answer = RegByte(a)
        BY <2>1, <2>2, ExchangeEffect
      <3> QED
        BY <2>3, <2>4, <3>1, <3>2, RegByteOf
    <2>6. (StatusByte \div (IF e = "ACT" THEN 16 ELSE 32)) % 2 = 1
      BY DEF StatusByte
    <2> QED
      BY <2>4, <2>5, <2>6
  <1> QED
    BY Inductive, <1>1, PTL DEF Spec, EventsNotLost

-----------------------------------------------------------------------------
(* The configurations as module PmodACL2custom specifies them.             *)

(* A sensor of that module out of reset, as far as a configuration goes.   *)
DevAs(thresh, ctl, power) ==
    [thresh |-> thresh, ctl |-> ctl, fifo |-> "off", filter |-> 2, power |-> power,
     busy |-> FALSE, status |-> {}]

LEMMA DevWrites ==
  ASSUME NEW t, NEW c, NEW p, NEW v
  PROVE  /\ P!DevWrite(DevAs(t, c, p), P!Write("thresh", v)) = DevAs(P!Stored(v), c, p)
         /\ P!DevWrite(DevAs(t, c, p), P!Write("ctl", v)) = DevAs(t, v, p)
         /\ P!DevWrite(DevAs(t, c, p), P!Write("fifo", "off")) = DevAs(t, c, p)
         /\ P!DevWrite(DevAs(t, c, p), P!Write("filter", 2)) = DevAs(t, c, p)
         /\ P!DevWrite(DevAs(t, c, p), P!Write("power", v)) = DevAs(t, c, v)
  BY DEF DevAs, P!DevWrite, P!Write

LEMMA DevConfiguration ==
  ASSUME NEW t, NEW c, NEW p
  PROVE  ConfigurationOf(DevAs(t, c, p))
            = [thresh |-> t, ctl |-> c, fifo |-> "off", filter |-> 2, power |-> p]
  <1>1. DOMAIN Registers = {"thresh", "ctl", "fifo", "filter", "power"}
    BY DEF Registers
  <1> QED
    BY <1>1 DEF ConfigurationOf, DevAs

(* What a configuration writes, as that module has it.                     *)
SetThresh == IF call.fn = "configureMeasureMode"
             THEN [act |-> 20, actTimer |-> 100, inact |-> 16, inactTimer |-> 100]
             ELSE [act   |-> acl2.activeThresh,   actTimer   |-> acl2.activeTimer,
                   inact |-> acl2.inactiveThresh, inactTimer |-> acl2.inactiveTimer]
SetCtl == IF call.fn = "configureMeasureMode" THEN "absolute" ELSE "linked"

LEMMA FiveWrites ==
  ASSUME Configures
  PROVE  AbstractWrites = <<P!Write("thresh", SetThresh), P!Write("ctl", SetCtl),
                            P!Write("fifo", "off"), P!Write("filter", 2),
                            P!Write("power", "measure")>>
  BY DEF Configures, AbstractWrites, SetThresh, SetCtl, P!ACL2c_configureMeasureMode,
         P!ACL2c_configureLinkedMode

LEMMA StoredWhole ==
  ASSUME acl2 \in Object
  PROVE  P!Stored(SetThresh) = SetThresh
  <1>1. \A v \in Level : v % 2048 = v
    <2>1. ASSUME NEW v \in Int, 0 <= v, v <= 2047 PROVE v % 2048 = v
      BY ONLY <2>1
    <2> QED
      BY <2>1, Levels
  <1>2. acl2.activeThresh \in Level /\ acl2.inactiveThresh \in Level
    BY ObjectFields
  <1>3. acl2.activeThresh % 2048 = acl2.activeThresh /\ acl2.inactiveThresh % 2048 = acl2.inactiveThresh
    BY <1>1, <1>2
  <1>4. 20 % 2048 = 20 /\ 16 % 2048 = 16
    OBVIOUS
  <1> QED
    BY <1>3, <1>4 DEF P!Stored, SetThresh

LEMMA AfterWrites ==
  ASSUME acl2 \in Object, Configures
  PROVE  /\ AbstractAfter[1] = DevAs(SetThresh, "off", "standby")
         /\ AbstractAfter[2] = DevAs(SetThresh, SetCtl, "standby")
         /\ AbstractAfter[3] = DevAs(SetThresh, SetCtl, "standby")
         /\ AbstractAfter[4] = DevAs(SetThresh, SetCtl, "standby")
         /\ AbstractAfter[5] = DevAs(SetThresh, SetCtl, "measure")
  <1> DEFINE w  == AbstractWrites
             d1 == P!DevWrite(P!DevDefault, w[1])
             d2 == P!DevWrite(d1, w[2])
             d3 == P!DevWrite(d2, w[3])
             d4 == P!DevWrite(d3, w[4])
             d5 == P!DevWrite(d4, w[5])
  <1>1. AbstractAfter = <<d1, d2, d3, d4, d5>>
    BY DEF AbstractAfter
  <1>2. /\ w[1] = P!Write("thresh", SetThresh) /\ w[2] = P!Write("ctl", SetCtl)
        /\ w[3] = P!Write("fifo", "off") /\ w[4] = P!Write("filter", 2)
        /\ w[5] = P!Write("power", "measure")
    BY FiveWrites
  <1> HIDE DEF w
  <1>3. P!DevDefault = DevAs(P!NoThresholds, "off", "standby")
    BY DEF P!DevDefault, DevAs
  <1>4. d1 = DevAs(SetThresh, "off", "standby")
    BY <1>2, <1>3, DevWrites, StoredWhole
  <1> HIDE DEF d1
  <1>5. d2 = DevAs(SetThresh, SetCtl, "standby")
    BY <1>2, <1>4, DevWrites
  <1> HIDE DEF d2
  <1>6. d3 = DevAs(SetThresh, SetCtl, "standby")
    BY <1>2, <1>5, DevWrites
  <1> HIDE DEF d3
  <1>7. d4 = DevAs(SetThresh, SetCtl, "standby")
    BY <1>2, <1>6, DevWrites
  <1> HIDE DEF d4
  <1>8. d5 = DevAs(SetThresh, SetCtl, "measure")
    BY <1>2, <1>7, DevWrites
  <1> HIDE DEF d5
  <1> QED
    BY <1>1, <1>4, <1>5, <1>6, <1>7, <1>8

(* The registers as that module has them, from their bytes.                *)
LEMMA AsRegisters ==
  ASSUME NEW c, NEW p, NEW t,
         t = [act |-> Pair(32), actTimer |-> regs[34], inact |-> Pair(35), inactTimer |-> Pair(37)],
         c = "off" => regs[39] = 0, c = "absolute" => regs[39] = 5, c = "linked" => regs[39] = 31,
         c \in {"off", "absolute", "linked"},
         regs[40] = 0, regs[44] = 19,
         p = "standby" => regs[45] = 0, p = "measure" => regs[45] = 34, p \in {"standby", "measure"}
  PROVE  Registers = ConfigurationOf(DevAs(t, c, p))
  <1>1. Weight = 1
    BY Literals DEF Weight
  <1>2. Measuring <=> p = "measure"
    BY Literals DEF Measuring
  <1>3. Registers = [thresh |-> t, ctl |-> c, fifo |-> "off", filter |-> 2, power |-> p]
    BY <1>1, <1>2 DEF Registers
  <1> QED
    BY <1>3, DevConfiguration

LEMMA ThreshWritten ==
  ASSUME acl2 \in Object, Configures, \A i \in 1..7 : regs[31 + i] = ThreshData[i]
  PROVE  SetThresh = [act |-> Pair(32), actTimer |-> regs[34], inact |-> Pair(35), inactTimer |-> Pair(37)]
  <1>1. /\ regs[32] = ThreshData[1] /\ regs[33] = ThreshData[2] /\ regs[34] = ThreshData[3]
        /\ regs[35] = ThreshData[4] /\ regs[36] = ThreshData[5] /\ regs[37] = ThreshData[6]
        /\ regs[38] = ThreshData[7]
    <2>1. /\ regs[31 + 1] = ThreshData[1] /\ regs[31 + 2] = ThreshData[2]
          /\ regs[31 + 3] = ThreshData[3] /\ regs[31 + 4] = ThreshData[4]
          /\ regs[31 + 5] = ThreshData[5] /\ regs[31 + 6] = ThreshData[6]
          /\ regs[31 + 7] = ThreshData[7]
      OBVIOUS
    <2> QED
      BY <2>1
  <1>2. CASE call.fn = "configureMeasureMode"
    <2>1. ThreshData = <<20, 0, 100, 16, 0, 100, 0>>
      BY <1>2 DEF ThreshData
    <2>2. Pair(32) = 20 /\ regs[34] = 100 /\ Pair(35) = 16 /\ Pair(37) = 100
      BY <1>1, <2>1 DEF Pair
    <2> QED
      BY <1>2, <2>2 DEF SetThresh
  <1>3. CASE call.fn # "configureMeasureMode"
    <2>1. ThreshData = <<Low(acl2.activeThresh), High(acl2.activeThresh), acl2.activeTimer,
                         Low(acl2.inactiveThresh), High(acl2.inactiveThresh),
                         Low(acl2.inactiveTimer), High(acl2.inactiveTimer)>>
      BY <1>3 DEF ThreshData
    <2>2. /\ Pair(32) = Low(acl2.activeThresh) + 256 * High(acl2.activeThresh)
          /\ Pair(35) = Low(acl2.inactiveThresh) + 256 * High(acl2.inactiveThresh)
          /\ Pair(37) = Low(acl2.inactiveTimer) + 256 * High(acl2.inactiveTimer)
          /\ regs[34] = acl2.activeTimer
      BY <1>1, <2>1 DEF Pair
    <2>3. /\ acl2.activeThresh \in Word /\ acl2.inactiveThresh \in Word /\ acl2.inactiveTimer \in Word
      BY ObjectFields
    <2>4. /\ Pair(32) = acl2.activeThresh /\ Pair(35) = acl2.inactiveThresh
          /\ Pair(37) = acl2.inactiveTimer /\ regs[34] = acl2.activeTimer
      BY <2>2, <2>3, LowHigh
    <2> QED
      BY <1>3, <2>4 DEF SetThresh
  <1> QED
    BY <1>2, <1>3

LEMMA FrameEndConfigured ==
  ASSUME IInv, pc = "transfer", sent = Len(bytearray), Configures
  PROVE  LET done == 7 - Len(frames)
         IN  Registers = ConfigurationOf(AbstractAfter[IF done > 5 THEN 5 ELSE done])
  <1>1. Busy /\ Written /\ Left = Len(frames)
    BY DEF IInv, Busy, Left
  <1>2. Left \in 1..6 /\ acl2 \in Object /\ frames[1] = ConfFrame(Left)
    BY <1>1, Configuring
  <1>3. sent = Size(frames[1])
    BY DEF IInv, InStep, Size
  <1>4. /\ Left = 6 => sent = 9
        /\ Left = 5 => sent = 3
        /\ Left = 4 => sent = 4
        /\ Left = 3 => sent = 3
        /\ Left = 2 => sent = 3
    BY <1>2, <1>3, ConfFrames
  <1>5. /\ \A i \in 1..7 : Got(6, i)
        /\ Got(5, 1) <=> Left < 6
        /\ Got(2, 1) <=> Left < 3
    BY <1>2, <1>4 DEF Got
  <1>6. /\ \A i \in 1..7 : regs[31 + i] = ThreshData[i]
        /\ regs[40] = 0 /\ regs[44] = 19
        /\ IF Left < 6 THEN regs[39] = CtlData[1] ELSE regs[39] = 0
        /\ IF Left < 3 THEN regs[45] = 34 ELSE regs[45] = 0
    <2>1. /\ \A i \in 1..7 : Got(6, i) => regs[31 + i] = ThreshData[i]
          /\ Got(5, 1) => regs[ACT_INACT_CTL] = CtlData[1]
          /\ Got(2, 1) => regs[POWER_CTL] = 34
          /\ ~Got(5, 1) => regs[ACT_INACT_CTL] = 0
          /\ ~Got(2, 1) => regs[POWER_CTL] = 0
      BY <1>1, Zenon DEF Written
    <2>2. regs[FIFO_CONTROL] = 0 /\ regs[FILTER_CTL] = 19
      BY <1>1, Zenon DEF Written
    <2>3. ACT_INACT_CTL = 39 /\ FIFO_CONTROL = 40 /\ FILTER_CTL = 44 /\ POWER_CTL = 45
      BY Literals
    <2> QED
      BY ONLY <1>5, <2>1, <2>2, <2>3
  <1>7. SetThresh = [act |-> Pair(32), actTimer |-> regs[34], inact |-> Pair(35), inactTimer |-> Pair(37)]
    BY <1>2, <1>6, ThreshWritten
  <1>8. /\ SetCtl = "absolute" => CtlData[1] = 5
        /\ SetCtl = "linked" => CtlData[1] = 31
        /\ SetCtl \in {"absolute", "linked"}
    BY DEF SetCtl, CtlData
  <1>9. Registers = ConfigurationOf(DevAs(SetThresh, IF Left < 6 THEN SetCtl ELSE "off",
                                          IF Left < 3 THEN "measure" ELSE "standby"))
    <2> DEFINE c == IF Left < 6 THEN SetCtl ELSE "off"
               p == IF Left < 3 THEN "measure" ELSE "standby"
    <2>1. /\ c = "off" => regs[39] = 0
          /\ c = "absolute" => regs[39] = 5
          /\ c = "linked" => regs[39] = 31
          /\ c \in {"off", "absolute", "linked"}
      BY ONLY <1>6, <1>8
    <2>2. /\ p = "standby" => regs[45] = 0
          /\ p = "measure" => regs[45] = 34
          /\ p \in {"standby", "measure"}
      BY ONLY <1>6
    <2> HIDE DEF c, p
    <2>3. Registers = ConfigurationOf(DevAs(SetThresh, c, p))
      BY ONLY <1>6, <1>7, <2>1, <2>2, AsRegisters
    <2> QED
      BY ONLY <2>3, Zenon DEF c, p
  <1>10. /\ AbstractAfter[1] = DevAs(SetThresh, "off", "standby")
         /\ AbstractAfter[2] = DevAs(SetThresh, SetCtl, "standby")
         /\ AbstractAfter[3] = DevAs(SetThresh, SetCtl, "standby")
         /\ AbstractAfter[4] = DevAs(SetThresh, SetCtl, "standby")
         /\ AbstractAfter[5] = DevAs(SetThresh, SetCtl, "measure")
    BY <1>2, AfterWrites
  <1> DEFINE n == IF 7 - Left > 5 THEN 5 ELSE 7 - Left
  <1>11. AbstractAfter[n] = DevAs(SetThresh, IF Left < 6 THEN SetCtl ELSE "off",
                                  IF Left < 3 THEN "measure" ELSE "standby")
    <2>1. Left = 1 \/ Left = 2 \/ Left = 3 \/ Left = 4 \/ Left = 5 \/ Left = 6
      BY <1>2
    <2> QED
      BY <1>10, <2>1
  <1> QED
    BY <1>1, <1>9, <1>11

(* After each frame of a configuration the sensor has the registers that   *)
(* as many writes of PmodACL2custom make, after a soft reset it has the    *)
(* defaults, and when it measures it has all of one configuration.         *)
THEOREM Configured == Spec => []ConfiguresAsSpecified
  <1>1. IInv => ConfiguresAsSpecified
    <2> SUFFICES ASSUME IInv PROVE ConfiguresAsSpecified
      OBVIOUS
    <2>1. MeasuresConfigured
      BY DEF IInv
    <2>2. ASSUME pc = "transfer", sent = Len(bytearray), call.fn = "reset"
          PROVE  Registers = ConfigurationOf(P!DevAfterReset) /\ booting
      <3>1. sent = 3 /\ Busy
        <4>1. Busy /\ sent = Size(frames[1])
          BY <2>2 DEF IInv, InStep, Size, Busy
        <4> QED
          BY <2>2, <4>1, FirstFrame
      <3>2. regs = RegDefaults /\ booting
        BY <2>2, <3>1 DEF IInv, Prepared
      <3>3. P!NoThresholds = [act |-> Pair(32), actTimer |-> regs[34], inact |-> Pair(35),
                              inactTimer |-> Pair(37)]
        <4>1. /\ regs[32] = 0 /\ regs[33] = 0 /\ regs[34] = 0 /\ regs[35] = 0 /\ regs[36] = 0
              /\ regs[37] = 0 /\ regs[38] = 0
          BY <3>2, Reset
        <4>2. Pair(32) = 0 /\ Pair(35) = 0 /\ Pair(37) = 0
          BY <4>1 DEF Pair
        <4> QED
          BY <4>1, <4>2 DEF P!NoThresholds
      <3>4. Registers = ConfigurationOf(DevAs(P!NoThresholds, "off", "standby"))
        <4>1. regs[39] = 0 /\ regs[40] = 0 /\ regs[44] = 19 /\ regs[45] = 0
          BY <3>2, Reset
        <4> QED
          BY <3>3, <4>1, AsRegisters
      <3>5. ConfigurationOf(P!DevAfterReset)
               = [thresh |-> P!NoThresholds, ctl |-> "off", fifo |-> "off", filter |-> 2,
                  power |-> "standby"]
        <4>1. DOMAIN Registers = {"thresh", "ctl", "fifo", "filter", "power"}
          BY DEF Registers
        <4> QED
          BY <4>1 DEF ConfigurationOf, P!DevAfterReset, P!DevDefault
      <3> QED
        BY <3>2, <3>4, <3>5, DevConfiguration
    <2>3. WritesAsSpecified
      BY <2>2, FrameEndConfigured DEF WritesAsSpecified
    <2> QED
      BY <2>1, <2>3 DEF ConfiguresAsSpecified
  <1> QED
    BY Inductive, <1>1, PTL
=============================================================================
