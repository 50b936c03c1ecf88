-------------------------- MODULE AclTesterProofs --------------------------
(***************************************************************************)
(* Proofs about AclTester, for every set of presets, every time of booting *)
(* and every pace of the sensor and of the switches, with the reset button *)
(* pressed in any clock.                                                   *)
(*                                                                         *)
(* The argument follows the bytes.  Each state of the driver says how many *)
(* bytes of the frame of its transfer are in the queue, and the bus how    *)
(* many of them are at the sensor already (TxAligned); each byte the bus   *)
(* still has to receive, or that waits in the other queue, is one the      *)
(* driver still counts (RxAligned).  So the frames the sensor takes are    *)
(* whole, and its registers hold the table as far as the driver has come   *)
(* with it (Configured); and what the collecting FSM has is the samples    *)
(* the driver has counted (Collected).  That the tester waits in the right *)
(* state for each of these is Paced.                                       *)
(***************************************************************************)
EXTENDS AclTester, SequenceTheorems, TLAPS

-----------------------------------------------------------------------------
(* The inductive invariant.                                                *)

FrameOf(op, c) == IF op \in WriteOps THEN WriteFrame(op, Contents(op, c))
                                   ELSE <<Command(op), Address(op)>>
FrameLen(op) == 2 + WriteLen(op)

Reading    == At = "DATA" /\ Op \in ReadOps
InTransfer == At = "WAIT" \/ Reading

(* Bytes of the frame that are in the queue before its transfer starts.    *)
Enqueued == CASE At = "ADDR" -> 1
              [] At = "DATA" -> FrameLen(Op) - byteIndex
              [] OTHER -> 0

Jobs == {NoJob} \cup [busy: {TRUE}, tx: 0..9, rx: 0..8]

(* The queue holds the bytes of the frame that the sensor has not got yet. *)
TxAligned ==
    /\ job \in Jobs /\ Len(frame) <= 9
    /\ InTransfer =>
          /\ job.tx <= FrameLen(Op)
          /\ txFifo = SubSeq(FrameOf(Op, cfg), FrameLen(Op) - job.tx + 1, FrameLen(Op))
          /\ job.busy => frame = SubSeq(FrameOf(Op, cfg), 1, FrameLen(Op) - job.tx)
          /\ job.tx > 0 => job.rx = ReadLen(Op)
    /\ ~InTransfer => ~job.busy /\ txFifo = SubSeq(FrameOf(Op, cfg), 1, Enqueued)

(* A byte the driver waits for is still to be received, in the queue, or   *)
(* presented to it; there are no others.                                   *)
RxAligned ==
    /\ byteIndex \in 0..8
    /\ Len(rxData) <= 1
    /\ Reading => byteIndex \in 1..ReadLen(Op) /\ byteIndex = Len(rxData) + Len(rxFifo) + job.rx
    /\ ~Reading => rxFifo = << >> /\ rxData = << >> /\ job.rx = 0
    /\ At = "DATA" /\ Op \in WriteOps => byteIndex \in 1..WriteLen(Op)

Bytes == [kind: {"status", "sample"}, pos: 1..8, status: Status]

(* The samples on their way to the driver are those it has not counted.    *)
Streamed ==
    /\ rxFifo \in Seq(Bytes) /\ rxData \in Seq(Bytes)
    /\ At = "DATA" /\ Op \in DataOps =>
          /\ rxData = SubSeq(SampleBytes, 9 - byteIndex, 8 - byteIndex + Len(rxData))
          /\ rxFifo = SubSeq(SampleBytes, 9 - byteIndex + Len(rxData), 8 - job.rx)

(* The collecting FSM has the samples that the driver has counted, and is  *)
(* done with them before the next group.                                   *)
Collected ==
    /\ data \in {<< >>, SampleBytes} /\ dataValid \in BOOLEAN
    /\ stream = "WAIT_GROUP" => captured \in {<< >>, SampleBytes}
    /\ IF Op \in DataOps
       THEN CASE At = "CMD"  -> stream = "WAIT_GROUP"
              [] At = "ADDR" -> stream = "WAIT_VALID" /\ captured = << >>
              [] At = "DATA" -> stream = "WAIT_VALID" /\ captured = SubSeq(SampleBytes, 1, 8 - byteIndex)
              [] OTHER -> stream \in {"WAIT_VALID", "DONE_CYCLE"} /\ captured = SampleBytes
       ELSE \/ stream = "WAIT_GROUP"
            \/ /\ At = "CMD" /\ Op \in ClearOps
               /\ stream = "DONE_CYCLE" /\ captured = SampleBytes

Before(op) == CASE op = "CFG0" -> {}
                [] op = "CFG1" -> {"CFG0"}
                [] op = "CFG2" -> {"CFG0", "CFG1"}
                [] op = "CFG3" -> {"CFG0", "CFG1", "CFG2"}
                [] op = "CFG4" -> {"CFG0", "CFG1", "CFG2", "CFG3"}
                [] OTHER       -> {"CFG0", "CFG1", "CFG2", "CFG3", "CFG4"}

(* The groups of registers the driver has written since the last reset of  *)
(* the sensor.                                                             *)
Done == IF At \in {"BOOT0", "IDLE0", "INIT"} \/ Op = "SOFTRESET" THEN {}
        ELSE IF Op \in CfgOps THEN Before(Op) \cup (IF At = "WAIT" /\ ~job.busy THEN {Op} ELSE {})
        ELSE CfgOps

SensorType == [conf: [CfgOps -> Values \cup {"reset", "mixed"}], busy: BOOLEAN, status: Status]

(* The groups written hold the table, and the sensor resets itself only    *)
(* where the driver waits for that.                                        *)
Configured ==
    /\ sensor \in SensorType
    /\ bootTimer \in 0..(BootTime - 1) /\ (At # "BOOT0" => bootTimer = 0)
    /\ sensor.busy => \/ At = "BOOT0" /\ bootTimer # BootTime - 1
                      \/ drv = <<"WAIT", "SOFTRESET">> /\ ~job.busy
    /\ cfg \in Tables \cup {"none"} /\ (At \notin {"BOOT0", "IDLE0", "INIT"} => cfg \in Tables)
    /\ \A op \in Done : sensor.conf[op] = Contents(op, cfg)

MeasureLoop == {"DR", "READ_MEASU", "CLEAR_MEASU"}
LinkedLoop  == {"AT1", "AT2", "READ_INACT0", "READ_ACT0", "CLEAR_AWAKE0", "CLEAR_AWAKE1"}

InMeasure == mode = "measur" /\ cfg = "MM"
InLinked  == mode = "linked" /\ cfg \in Presets

(* Where the driver may be in each state of the tester.                    *)
Paced ==
    CASE tester = "ST_0" -> At \in {"BOOT0", "IDLE0"}
      [] tester = "ST_1" -> At = "IDLE0" \/ (drv = <<"INIT", "MM">> /\ mode = "measur")
      [] tester = "ST_2" -> InMeasure /\ (Op \in CfgOps \/ At = "IDLE1")
      [] tester = "ST_3" -> InMeasure /\ (At = "IDLE1" \/ drv = <<"INT", "DR">>)
      [] tester = "ST_5" -> At = "IDLE0" \/ (drv = <<"INIT", "LM">> /\ mode = "linked")
      [] tester = "ST_6" -> InLinked /\ (Op \in CfgOps \/ At = "IDLE1")
      [] tester = "ST_7" -> InLinked /\ (At = "IDLE1" \/ drv = <<"INT", "AT1">>)
      [] tester = "ST_A" -> Op \in MeasureLoop \cup LinkedLoop \cup {"SOFTRESET"}
                            \/ At \in {"BOOT0", "IDLE0"}
      [] OTHER -> (InMeasure /\ Op \in MeasureLoop) \/ (InLinked /\ Op \in LinkedLoop)

TesterStates == {"ST_0", "ST_1", "ST_2", "ST_3", "ST_4", "ST_5", "ST_6", "ST_7", "ST_8",
                 "ST_9", "ST_A"}

IInv ==
    /\ tester \in TesterStates /\ mode \in {"none", "measur", "linked"}
    /\ drv \in States /\ regStatus \in Status
    /\ stream \in {"WAIT_GROUP", "WAIT_VALID", "DONE_CYCLE"}
    /\ switches \in SUBSET (0..3) /\ int1 \in BOOLEAN /\ int2 \in BOOLEAN
    /\ TxAligned /\ RxAligned /\ Streamed /\ Collected /\ Configured /\ Paced

-----------------------------------------------------------------------------
(* Frames and their bytes.                                                 *)

FrameBytes(op, c) == {Command(op), Address(op)}
                     \cup {Byte(Contents(op, c), i) : i \in 1..WriteLen(op)}

(* The lengths of the transfers.                                           *)
LEMMA Lengths ==
  ASSUME NEW op \in Ops
  PROVE  /\ WriteLen(op) \in 0..7 /\ ReadLen(op) \in 0..8
         /\ op \in ReadOps  => WriteLen(op) = 0 /\ ReadLen(op) \in 1..8
         /\ op \in WriteOps => WriteLen(op) \in 1..7 /\ ReadLen(op) = 0
         /\ op \in DataOps  => ReadLen(op) = 8
         /\ op \in ClearOps => ReadLen(op) = 1
         /\ op \in WriteOps <=> op \notin ReadOps
  BY DEF Ops, ReadOps, WriteOps, DataOps, ClearOps, CfgOps, WriteLen, ReadLen

(* A register write byte by byte.                                          *)
LEMMA WriteFrameIs ==
  ASSUME NEW op \in WriteOps, NEW v
  PROVE  /\ WriteFrame(op, v) \in Seq({Byte("write", 0), Byte(op, 0)}
                                      \cup {Byte(v, i) : i \in 1..WriteLen(op)})
         /\ Len(WriteFrame(op, v)) = FrameLen(op)
         /\ WriteFrame(op, v)[1] = Byte("write", 0)
         /\ WriteFrame(op, v)[2] = Byte(op, 0)
         /\ \A i \in 1..WriteLen(op) : WriteFrame(op, v)[2 + i] = Byte(v, WriteLen(op) + 1 - i)
  <1> DEFINE n == WriteLen(op)
             S == {Byte("write", 0), Byte(op, 0)} \cup {Byte(v, i) : i \in 1..n}
             a == <<Byte("write", 0), Byte(op, 0)>>
             d == [i \in 1..n |-> Byte(v, n + 1 - i)]
  <1>1. n \in 1..7
    BY Lengths DEF Ops
  <1>2. a \in Seq(S) /\ Len(a) = 2 /\ a[1] = Byte("write", 0) /\ a[2] = Byte(op, 0)
    OBVIOUS
  <1>3. d \in Seq(S) /\ Len(d) = n
    <2>1. \A i \in 1..n : n + 1 - i \in 1..n
      BY <1>1
    <2>2. d \in [1..n -> S]
      BY <2>1
    <2> HIDE DEF S, d, n
    <2> QED
      BY <1>1, <2>2
  <1>4. \A i \in 1..n : d[i] = Byte(v, n + 1 - i)
    OBVIOUS
  <1>5. WriteFrame(op, v) = a \o d
    BY DEF WriteFrame
  <1> HIDE DEF S, a, d, n
  <1>6. /\ a \o d \in Seq(S) /\ Len(a \o d) = 2 + n
        /\ \A i \in 1..2 + n : (a \o d)[i] = IF i <= 2 THEN a[i] ELSE d[i - 2]
    <2>1. /\ a \o d \in Seq(S) /\ Len(a \o d) = Len(a) + Len(d)
          /\ \A i \in 1..Len(a) + Len(d) :
                (a \o d)[i] = IF i <= Len(a) THEN a[i] ELSE d[i - Len(a)]
      BY <1>2, <1>3, ConcatProperties, Zenon
    <2> QED
      BY <1>2, <1>3, <2>1, Zenon
  <1>7. /\ WriteFrame(op, v)[1] = Byte("write", 0)
        /\ WriteFrame(op, v)[2] = Byte(op, 0)
    BY <1>1, <1>2, <1>5, <1>6
  <1>8. \A i \in 1..n : WriteFrame(op, v)[2 + i] = Byte(v, n + 1 - i)
    <2> TAKE i \in 1..n
    <2>1. 2 + i \in 1..2 + n /\ ~(2 + i <= 2) /\ (2 + i) - 2 = i
      BY <1>1
    <2>2. (a \o d)[2 + i] = d[i]
      BY <1>6, <2>1
    <2> QED
      BY <1>4, <1>5, <2>2, Zenon
  <1> QED
    BY <1>5, <1>6, <1>7, <1>8 DEF S, n, FrameLen

(* A frame byte by byte.                                                   *)
LEMMA FrameIs ==
  ASSUME NEW op \in Ops, NEW c
  PROVE  /\ FrameOf(op, c) \in Seq(FrameBytes(op, c))
         /\ Len(FrameOf(op, c)) = FrameLen(op)
         /\ FrameLen(op) \in 2..9
         /\ FrameOf(op, c)[1] = Command(op)
         /\ FrameOf(op, c)[2] = Address(op)
         /\ \A i \in 1..WriteLen(op) :
               FrameOf(op, c)[2 + i] = Byte(Contents(op, c), WriteLen(op) + 1 - i)
  <1>1. CASE op \in WriteOps
    <2>1. Command(op) = Byte("write", 0) /\ Address(op) = Byte(op, 0)
      BY <1>1 DEF WriteOps, ReadOps, DataOps, ClearOps, CfgOps, Command, Address
    <2>2. FrameOf(op, c) = WriteFrame(op, Contents(op, c))
      BY <1>1 DEF FrameOf
    <2>3. FrameLen(op) \in 2..9
      BY Lengths DEF FrameLen
    <2> QED
      BY <1>1, <2>1, <2>2, <2>3, WriteFrameIs DEF FrameBytes
  <1>2. CASE op \notin WriteOps
    <2>1. WriteLen(op) = 0
      BY <1>2, Lengths
    <2>2. FrameOf(op, c) = <<Command(op), Address(op)>>
      BY <1>2 DEF FrameOf
    <2> QED
      BY <2>1, <2>2 DEF FrameLen, FrameBytes
  <1> QED
    BY <1>1, <1>2

(* What SMT needs to know of sequences that are parts of another one.      *)
LEMMA PartLen ==
  ASSUME NEW S, NEW F \in Seq(S), NEW m \in Nat, m >= 1, NEW n \in Nat, n <= Len(F)
  PROVE  /\ SubSeq(F, m, n) \in Seq(S)
         /\ Len(SubSeq(F, m, n)) = IF m <= n THEN n - m + 1 ELSE 0
  <1>1. \A i \in m..n : F[i] \in S
    BY ElementOfSeq
  <1> QED
    BY <1>1, SubSeqProperties

LEMMA PrefixLen ==
  ASSUME NEW S, NEW F \in Seq(S), NEW n \in 0..Len(F)
  PROVE  SubSeq(F, 1, n) \in Seq(S) /\ Len(SubSeq(F, 1, n)) = n
  <1>1. n \in Nat /\ n <= Len(F) /\ 1 \in Nat /\ 1 >= 1
    BY LenProperties
  <1> QED
    BY <1>1, PartLen

LEMMA PartEmpty ==
  ASSUME NEW F, NEW m \in Int, NEW n \in Int, n < m
  PROVE  SubSeq(F, m, n) = << >>
  BY SubSeqEmpty

(* The next byte is put behind, taken in front.                            *)
LEMMA PartExtend ==
  ASSUME NEW S, NEW F \in Seq(S), NEW n \in 0..(Len(F) - 1), NEW m \in 1..(n + 1)
  PROVE  /\ SubSeq(F, m, n) \o <<F[n + 1]>> = SubSeq(F, m, n + 1)
         /\ Append(SubSeq(F, m, n), F[n + 1]) = SubSeq(F, m, n + 1)
  <1>1. m \in 1..Len(F) /\ n + 1 \in m..Len(F) /\ (n + 1) - 1 = n /\ n \in Nat /\ m \in Nat
    BY LenProperties
  <1>2. SubSeq(F, m, n) \o <<F[n + 1]>> = SubSeq(F, m, n + 1)
    BY <1>1, SubSeqRecursiveSecond
  <1>3. SubSeq(F, m, n) \in Seq(S) /\ F[n + 1] \in S
    BY <1>1, PartLen, ElementOfSeq
  <1> QED
    BY <1>2, <1>3, AppendIsConcat

LEMMA PartTake ==
  ASSUME NEW S, NEW F \in Seq(S), NEW n \in 1..Len(F), NEW m \in 1..n
  PROVE  /\ SubSeq(F, m, n) # << >>
         /\ Head(SubSeq(F, m, n)) = F[m]
         /\ Tail(SubSeq(F, m, n)) = SubSeq(F, m + 1, n)
  <1>1. m \in 1..Len(F) /\ n \in m..Len(F) /\ n \in Nat /\ m \in Nat
    BY LenProperties
  <1>2. Len(SubSeq(F, m, n)) = n - m + 1
    BY <1>1, PartLen
  <1>3. SubSeq(F, m, n) # << >>
    BY <1>1, <1>2
  <1> QED
    BY <1>1, <1>3, HeadTailOfSubSeq

-----------------------------------------------------------------------------
(* Where the driver is, what it puts out there, and where it goes.         *)

Quiet == {"BOOT0", "IDLE0", "INIT", "CHECK", "IDLE1", "INT"}

LEMMA Where ==
  ASSUME drv \in States
  PROVE  /\ drv = <<At, Op>>
         /\ At \in Quiet \cup {"CMD", "ADDR", "DATA", "WAIT"}
         /\ At \in {"CMD", "ADDR", "DATA", "WAIT"} => Op \in Ops
         /\ At = "CHECK" => Op \in ClearOps
         /\ At = "INT" => Op \in {"DR", "AT1", "AT2"}
         /\ At = "INIT" => Op \in {"MM", "LM"}
         /\ At \in {"BOOT0", "IDLE0", "IDLE1"} => Op = ""
  <1>1. /\ drv = <<At, Op>>
        /\ \/ At \in {"BOOT0", "IDLE0", "IDLE1"} /\ Op = ""
           \/ At = "INIT" /\ Op \in {"MM", "LM"}
           \/ At \in {"CMD", "ADDR", "DATA", "WAIT"} /\ Op \in Ops
           \/ At = "CHECK" /\ Op \in ClearOps
           \/ At = "INT" /\ Op \in {"DR", "AT1", "AT2"}
    <2>1. ASSUME NEW at, NEW op, drv = <<at, op>>
          PROVE  At = at /\ Op = op
      BY <2>1 DEF At, Op
    <2>2. \/ \E at \in {"BOOT0", "IDLE0", "IDLE1"} : drv = <<at, "">>
          \/ \E m \in {"MM", "LM"} : drv = <<"INIT", m>>
          \/ \E at \in {"CMD", "ADDR", "DATA", "WAIT"}, op \in Ops : drv = <<at, op>>
          \/ \E op \in ClearOps : drv = <<"CHECK", op>>
          \/ \E w \in {"DR", "AT1", "AT2"} : drv = <<"INT", w>>
      <3>1. \/ drv \in {<<at, "">> : at \in {"BOOT0", "IDLE0", "IDLE1"}}
            \/ drv \in {<<"INIT", m>> : m \in {"MM", "LM"}}
            \/ drv \in {"CMD", "ADDR", "DATA", "WAIT"} \X Ops
            \/ drv \in {<<"CHECK", op>> : op \in ClearOps}
            \/ drv \in {<<"INT", w>> : w \in {"DR", "AT1", "AT2"}}
        BY Zenon DEF States
      <3>2. ASSUME drv \in {"CMD", "ADDR", "DATA", "WAIT"} \X Ops
            PROVE  \E at \in {"CMD", "ADDR", "DATA", "WAIT"}, op \in Ops : drv = <<at, op>>
        BY <3>2
      <3> QED
        BY <3>1, <3>2, Zenon
    <2>3. CASE \E at \in {"BOOT0", "IDLE0", "IDLE1"} : drv = <<at, "">>
      BY <2>1, <2>3, Zenon
    <2>4. CASE \E m \in {"MM", "LM"} : drv = <<"INIT", m>>
      BY <2>1, <2>4, Zenon
    <2>5. CASE \E at \in {"CMD", "ADDR", "DATA", "WAIT"}, op \in Ops : drv = <<at, op>>
      BY <2>1, <2>5, Zenon
    <2>6. CASE \E op \in ClearOps : drv = <<"CHECK", op>>
      BY <2>1, <2>6, Zenon
    <2>7. CASE \E w \in {"DR", "AT1", "AT2"} : drv = <<"INT", w>>
      BY <2>1, <2>7, Zenon
    <2> QED
      BY <2>2, <2>3, <2>4, <2>5, <2>6, <2>7, Zenon
  <1> QED
    BY <1>1, Zenon DEF Quiet

LEMMA WhereNext ==
  ASSUME NEW at, NEW op, drv' = <<at, op>>
  PROVE  At' = at /\ Op' = op
  BY DEF At, Op

LEMMA Outputs ==
  ASSUME drv \in States
  PROVE  /\ At \in Quiet \cup {"WAIT"} \/ Reading =>
               o_tx_enqueue = << >> /\ o_go_stand = NoJob
         /\ At = "CMD" => o_tx_enqueue = <<Command(Op)>> /\ o_go_stand = NoJob
         /\ At = "ADDR" => o_tx_enqueue = <<Address(Op)>>
         /\ At = "ADDR" => o_go_stand = IF Op \in ReadOps THEN Transfer(2, ReadLen(Op)) ELSE NoJob
         /\ At = "DATA" /\ Op \in WriteOps => o_tx_enqueue = <<WriteData(Op, byteIndex)>>
         /\ At = "DATA" /\ Op \in WriteOps =>
               o_go_stand = IF byteIndex <= 1 THEN Transfer(FrameLen(Op), 0) ELSE NoJob
         /\ ~Reading => ~o_rx_dequeue
         /\ Reading => (o_rx_dequeue <=> rxFifo # << >>)
         /\ At \in Quiet => ~o_rd_data_group_valid
         /\ o_rd_data_byte_valid <=> At = "DATA" /\ Op \in DataOps /\ rxData # << >>
  <1>1. Op \in WriteOps => Op \notin ReadOps /\ ReadLen(Op) = 0
    BY Lengths DEF Ops
  <1>2. At \in Quiet \cup {"WAIT"} \/ Reading => o_tx_enqueue = << >> /\ o_go_stand = NoJob
    BY <1>1 DEF Quiet, Reading, o_tx_enqueue, o_go_stand
  <1>3. At = "CMD" => o_tx_enqueue = <<Command(Op)>> /\ o_go_stand = NoJob
    BY DEF o_tx_enqueue, o_go_stand
  <1>4. At = "ADDR" => o_tx_enqueue = <<Address(Op)>>
    BY DEF o_tx_enqueue
  <1>5. ASSUME At = "ADDR"
        PROVE  o_go_stand = IF Op \in ReadOps THEN Transfer(2, ReadLen(Op)) ELSE NoJob
    <2>1. Op \in Ops
      BY <1>5, Where
    <2>2. Op \in ReadOps => WriteLen(Op) = 0
      BY <2>1, Lengths
    <2> QED
      BY <1>5, <2>2 DEF o_go_stand
  <1>6. At = "DATA" /\ Op \in WriteOps => o_tx_enqueue = <<WriteData(Op, byteIndex)>>
    BY DEF o_tx_enqueue
  <1>7. At = "DATA" /\ Op \in WriteOps =>
               o_go_stand = IF byteIndex <= 1 THEN Transfer(FrameLen(Op), 0) ELSE NoJob
    BY <1>1 DEF o_go_stand, FrameLen
  <1>8. /\ ~Reading => ~o_rx_dequeue
        /\ Reading => (o_rx_dequeue <=> rxFifo # << >>)
    BY DEF Reading, o_rx_dequeue, o_rx_avail
  <1>9. At \in Quiet => ~o_rd_data_group_valid
    BY DEF Quiet, o_rd_data_group_valid
  <1>10. o_rd_data_byte_valid <=> At = "DATA" /\ Op \in DataOps /\ rxData # << >>
    BY DEF o_rd_data_byte_valid
  <1> QED
    BY <1>2, <1>3, <1>4, <1>5, <1>6, <1>7, <1>8, <1>9, <1>10

(* From a quiet state the driver goes to a quiet one or starts a transfer. *)
LEMMA QuietStep ==
  ASSUME At \in Quiet, Driver
  PROVE  At' \in Quiet \cup {"CMD"} /\ byteIndex' = byteIndex
  <1>1. drv' = drv => At' = At
    BY DEF At
  <1>2. /\ drvBoot \/ drvIdle0 \/ drvInit \/ drvCheck \/ drvIdle1 \/ drvInterrupt
        /\ ~(drvCommand \/ drvAddress \/ drvWriteData \/ drvReadData \/ drvWait)
    <2>1. ~(drvCommand \/ drvAddress \/ drvWriteData \/ drvReadData \/ drvWait)
      BY DEF Quiet, drvCommand, drvAddress, drvWriteData, drvReadData, drvWait
    <2> QED
      BY <2>1, Zenon DEF Driver
  <1>3. CASE drvBoot
    <2>1. /\ drv' = <<"IDLE0", "">> \/ drv' = drv
          /\ byteIndex' = byteIndex
      BY <1>3, Zenon DEF drvBoot
    <2> QED
      BY <1>1, <2>1, WhereNext, Zenon DEF Quiet
  <1>4. CASE drvIdle0
    BY <1>1, <1>4 DEF drvIdle0, At, Quiet
  <1>5. CASE drvInit
    BY <1>5 DEF drvInit, At, Quiet
  <1>6. CASE drvCheck
    BY <1>6 DEF drvCheck, At, Quiet
  <1>7. CASE drvIdle1
    BY <1>1, <1>7 DEF drvIdle1, At, Quiet
  <1>8. CASE drvInterrupt
    BY <1>1, <1>8 DEF drvInterrupt, At, Quiet
  <1> QED
    BY <1>2, <1>3, <1>4, <1>5, <1>6, <1>7, <1>8

(* The end of a transfer leads to the next one or to a quiet state.        *)
LEMMA AfterIs ==
  ASSUME NEW op \in Ops
  PROVE  /\ After(op) \in States
         /\ After(op)[1] \in Quiet \cup {"CMD"}
  BY DEF After, States, Ops, ReadOps, WriteOps, CfgOps, DataOps, ClearOps, Quiet

(* The steps of a transfer.                                                *)
LEMMA TransferStep ==
  ASSUME drv \in States, At \notin Quiet, Driver
  PROVE  /\ At = "CMD" => drvCommand
         /\ At = "ADDR" => drvAddress
         /\ At = "DATA" /\ Op \in WriteOps => drvWriteData
         /\ Reading => drvReadData
         /\ At = "WAIT" => drvWait
         /\ At = "DATA" => Reading \/ Op \in WriteOps
  <1>1. ~(drvBoot \/ drvIdle0 \/ drvInit \/ drvCheck \/ drvIdle1 \/ drvInterrupt)
    BY Zenon DEF Quiet, drvBoot, drvIdle0, drvInit, drvCheck, drvIdle1, drvInterrupt
  <1>2. At \in {"CMD", "ADDR", "DATA", "WAIT"} /\ Op \in Ops
    BY Where, Zenon
  <1>3. Op \in WriteOps <=> Op \notin ReadOps
    BY <1>2, Lengths
  <1> QED
    BY <1>1, <1>2, <1>3 DEF Driver, Reading,
       drvCommand, drvAddress, drvWriteData, drvReadData, drvWait

-----------------------------------------------------------------------------
(* The bus.                                                                *)

LEMMA BusHolds ==
  ASSUME ~job.busy, Bus
  PROVE  /\ BusHold
         /\ txFifo' = txFifo \o o_tx_enqueue
         /\ job' = IF o_go_stand.busy THEN o_go_stand ELSE job
         /\ frame' = IF o_go_stand.busy THEN << >> ELSE frame
         /\ Dequeue(<< >>, o_rx_dequeue)
  <1>1. BusHold
    BY DEF Bus, BusMoves, BusSend, BusReceive, BusStop, SpiSend, SpiReceive, SpiStop
  <1> QED
    BY <1>1 DEF BusHold, SpiHold

(* Nothing happens at the queues while the driver has nothing to do there. *)
LEMMA QuietBus ==
  ASSUME drv \in States, TxAligned, RxAligned, Bus, At \in Quiet
  PROVE  /\ BusHold /\ ~job.busy
         /\ txFifo = << >> /\ rxFifo = << >> /\ rxData = << >>
         /\ txFifo' = << >> /\ rxFifo' = << >> /\ rxData' = << >>
         /\ job' = job /\ frame' = frame
  <1>1. ~InTransfer /\ ~Reading /\ Enqueued = 0
    BY DEF Quiet, InTransfer, Reading, Enqueued
  <1>2. /\ ~job.busy /\ txFifo = << >>
        /\ rxFifo = << >> /\ rxData = << >>
    BY <1>1, PartEmpty DEF TxAligned, RxAligned
  <1>3. o_tx_enqueue = << >> /\ ~o_go_stand.busy /\ ~o_rx_dequeue
    BY <1>1, Outputs DEF NoJob
  <1> QED
    BY <1>2, <1>3, BusHolds DEF Dequeue

LEMMA TxQuiet ==
  ASSUME drv \in States, TxAligned, RxAligned, Driver, Bus, At \in Quiet
  PROVE  TxAligned'
  <1>1. txFifo' = << >> /\ job' = job /\ frame' = frame /\ ~job.busy
    BY QuietBus
  <1>2. At' \in Quiet \cup {"CMD"}
    BY QuietStep
  <1>3. ~InTransfer' /\ Enqueued' = 0
    BY <1>2 DEF Quiet, InTransfer, Reading, Enqueued
  <1>4. txFifo' = SubSeq(FrameOf(Op, cfg)', 1, Enqueued')
    BY <1>1, <1>3, PartEmpty
  <1> QED
    BY <1>1, <1>3, <1>4 DEF TxAligned

(* While the frame is being put in the queue, each clock adds its next     *)
(* byte.                                                                   *)
LEMMA TxNextByte ==
  ASSUME NEW op \in Ops, NEW c, NEW n \in 0..(FrameLen(op) - 1), NEW b,
         b = FrameOf(op, c)[n + 1], txFifo = SubSeq(FrameOf(op, c), 1, n),
         txFifo' = txFifo \o <<b>>
  PROVE  txFifo' = SubSeq(FrameOf(op, c), 1, n + 1)
  <1>1. /\ FrameOf(op, c) \in Seq(FrameBytes(op, c)) /\ Len(FrameOf(op, c)) = FrameLen(op)
        /\ FrameLen(op) \in 2..9
    BY FrameIs
  <1>2. n \in 0..(Len(FrameOf(op, c)) - 1) /\ 1 \in 1..(n + 1)
    BY <1>1
  <1> QED
    BY <1>1, <1>2, PartExtend

LEMMA TxCommand ==
  ASSUME drv \in States, TxAligned, RxAligned, Driver, Bus, At = "CMD"
  PROVE  TxAligned'
  <1>1. Op \in Ops /\ drvCommand
    BY Where, TransferStep DEF Quiet
  <1>2. At' = "ADDR" /\ Op' = Op /\ cfg' = cfg
    BY <1>1, WhereNext DEF drvCommand
  <1>3. ~InTransfer /\ Enqueued = 0 /\ ~Reading
    BY DEF InTransfer, Reading, Enqueued
  <1>4. ~job.busy /\ txFifo = SubSeq(FrameOf(Op, cfg), 1, 0)
    BY <1>3 DEF TxAligned
  <1>5. o_tx_enqueue = <<Command(Op)>> /\ ~o_go_stand.busy
    BY Outputs DEF NoJob
  <1>6. txFifo' = txFifo \o <<Command(Op)>> /\ job' = job /\ frame' = frame
    BY <1>4, <1>5, BusHolds
  <1>7. txFifo' = SubSeq(FrameOf(Op, cfg), 1, 1)
    <2>1. Command(Op) = FrameOf(Op, cfg)[0 + 1] /\ 0 \in 0..(FrameLen(Op) - 1)
      BY <1>1, FrameIs
    <2>2. txFifo' = SubSeq(FrameOf(Op, cfg), 1, 0 + 1)
      BY <1>1, <1>4, <1>6, <2>1, TxNextByte
    <2> QED
      BY <2>2
  <1>8. ~InTransfer' /\ Enqueued' = 1
    BY <1>2 DEF InTransfer, Reading, Enqueued
  <1> QED
    BY <1>2, <1>4, <1>6, <1>7, <1>8 DEF TxAligned

LEMMA TxAddress ==
  ASSUME drv \in States, TxAligned, RxAligned, Driver, Bus, At = "ADDR"
  PROVE  TxAligned'
  <1>1. Op \in Ops /\ drvAddress
    BY Where, TransferStep DEF Quiet
  <1>2. /\ At' = "DATA" /\ Op' = Op /\ cfg' = cfg
        /\ byteIndex' = IF Op \in ReadOps THEN ReadLen(Op) ELSE WriteLen(Op)
    BY <1>1, WhereNext DEF drvAddress
  <1>3. ~InTransfer /\ Enqueued = 1 /\ ~Reading
    BY DEF InTransfer, Reading, Enqueued
  <1>4. ~job.busy /\ txFifo = SubSeq(FrameOf(Op, cfg), 1, 1) /\ job \in Jobs
    BY <1>3 DEF TxAligned
  <1>5. /\ o_tx_enqueue = <<Address(Op)>>
        /\ o_go_stand = IF Op \in ReadOps THEN Transfer(2, ReadLen(Op)) ELSE NoJob
    BY Outputs
  <1>6. txFifo' = txFifo \o <<Address(Op)>>
    BY <1>4, <1>5, BusHolds
  <1>7. txFifo' = SubSeq(FrameOf(Op, cfg), 1, 2)
    <2>1. Address(Op) = FrameOf(Op, cfg)[1 + 1] /\ 1 \in 0..(FrameLen(Op) - 1)
      BY <1>1, FrameIs
    <2>2. txFifo' = SubSeq(FrameOf(Op, cfg), 1, 1 + 1)
      BY <1>1, <1>4, <1>6, <2>1, TxNextByte
    <2> QED
      BY <2>2
  <1>8. CASE Op \in ReadOps
    <2>1. o_go_stand = Transfer(2, ReadLen(Op)) /\ o_go_stand.busy
      BY <1>5, <1>8 DEF Transfer
    <2>2. job' = Transfer(2, ReadLen(Op)) /\ frame' = << >>
      BY <1>4, <2>1, BusHolds
    <2>3. FrameLen(Op) = 2 /\ ReadLen(Op) \in 0..8
      BY <1>8, Lengths DEF FrameLen, Ops
    <2>4. job'.tx = 2 /\ job'.rx = ReadLen(Op) /\ job'.busy /\ job' \in Jobs
      BY <2>2, <2>3 DEF Transfer, Jobs
    <2>5. frame' = SubSeq(FrameOf(Op, cfg), 1, 0)
      BY <2>2, PartEmpty
    <2>6. InTransfer'
      BY <1>2, <1>8 DEF InTransfer, Reading
    <2>7. FrameLen(Op) - 2 + 1 = 1 /\ FrameLen(Op) - 2 = 0 /\ Len(frame') <= 9
      BY <2>2, <2>3
    <2> QED
      BY <1>2, <1>7, <2>3, <2>4, <2>5, <2>6, <2>7 DEF TxAligned
  <1>9. CASE Op \notin ReadOps
    <2>1. ~o_go_stand.busy
      BY <1>5, <1>9 DEF NoJob
    <2>2. job' = job /\ frame' = frame
      BY <1>4, <2>1, BusHolds
    <2>3. ~InTransfer'
      BY <1>2, <1>9 DEF InTransfer, Reading
    <2>4. Enqueued' = 2
      BY <1>1, <1>2, <1>9, Lengths DEF Enqueued, FrameLen
    <2> QED
      BY <1>2, <1>4, <1>7, <2>2, <2>3, <2>4 DEF TxAligned
  <1> QED
    BY <1>8, <1>9

LEMMA TxData ==
  ASSUME drv \in States, TxAligned, RxAligned, Driver, Bus, At = "DATA", Op \in WriteOps
  PROVE  TxAligned'
  <1>1. Op \in Ops /\ drvWriteData
    BY Where, TransferStep DEF Quiet
  <1>2. /\ byteIndex' = byteIndex - 1 /\ cfg' = cfg
        /\ drv' = IF byteIndex <= 1 THEN <<"WAIT", Op>> ELSE drv
    BY <1>1 DEF drvWriteData
  <1>3. Op \notin ReadOps /\ WriteLen(Op) \in 1..7 /\ ReadLen(Op) = 0
    BY <1>1, Lengths
  <1>4. ~InTransfer /\ Enqueued = FrameLen(Op) - byteIndex /\ ~Reading
    BY <1>3 DEF InTransfer, Reading, Enqueued
  <1>5. byteIndex \in 1..WriteLen(Op)
    BY DEF RxAligned
  <1>6. ~job.busy /\ txFifo = SubSeq(FrameOf(Op, cfg), 1, FrameLen(Op) - byteIndex) /\ job \in Jobs
    BY <1>4 DEF TxAligned
  <1>7. /\ o_tx_enqueue = <<WriteData(Op, byteIndex)>>
        /\ o_go_stand = IF byteIndex <= 1 THEN Transfer(FrameLen(Op), 0) ELSE NoJob
    BY Outputs
  <1>8. txFifo' = txFifo \o <<WriteData(Op, byteIndex)>>
    BY <1>6, <1>7, BusHolds
  <1>9. txFifo' = SubSeq(FrameOf(Op, cfg), 1, FrameLen(Op) - byteIndex + 1)
    <2> DEFINE n == FrameLen(Op) - byteIndex
    <2>1. n \in 0..(FrameLen(Op) - 1) /\ n + 1 = 2 + (WriteLen(Op) + 1 - byteIndex)
      BY <1>3, <1>5 DEF FrameLen
    <2>2. WriteLen(Op) + 1 - byteIndex \in 1..WriteLen(Op)
          /\ WriteLen(Op) + 1 - (WriteLen(Op) + 1 - byteIndex) = byteIndex
      BY <1>3, <1>5
    <2>3. WriteData(Op, byteIndex) = FrameOf(Op, cfg)[n + 1]
      BY <1>1, <2>1, <2>2, FrameIs DEF WriteData
    <2>4. txFifo = SubSeq(FrameOf(Op, cfg), 1, n)
      BY <1>6
    <2> HIDE DEF n
    <2>5. txFifo' = SubSeq(FrameOf(Op, cfg), 1, n + 1)
      BY <1>1, <1>8, <2>1, <2>3, <2>4, TxNextByte
    <2> QED
      BY <2>5 DEF n
  <1>10. CASE byteIndex <= 1
    <2>1. byteIndex = 1
      BY <1>3, <1>5, <1>10
    <2>2. o_go_stand = Transfer(FrameLen(Op), 0) /\ o_go_stand.busy
      BY <1>7, <1>10 DEF Transfer
    <2>3. job' = Transfer(FrameLen(Op), 0) /\ frame' = << >>
      BY <1>6, <2>2, BusHolds
    <2>4. FrameLen(Op) \in 2..9
      BY <1>1, FrameIs
    <2>5. job'.tx = FrameLen(Op) /\ job'.rx = 0 /\ job'.busy /\ job' \in Jobs
      BY <2>3, <2>4 DEF Transfer, Jobs
    <2>6. At' = "WAIT" /\ Op' = Op
      BY <1>2, <1>10, WhereNext
    <2>7. InTransfer'
      BY <2>6 DEF InTransfer
    <2>8. frame' = SubSeq(FrameOf(Op, cfg), 1, 0)
      BY <2>3, PartEmpty
    <2>9. /\ FrameLen(Op) - FrameLen(Op) + 1 = 1 /\ FrameLen(Op) - FrameLen(Op) = 0
          /\ FrameLen(Op) - byteIndex + 1 = FrameLen(Op) /\ Len(frame') <= 9
      BY <2>1, <2>3, <2>4
    <2> QED
      BY <1>2, <1>3, <1>9, <2>4, <2>5, <2>6, <2>7, <2>8, <2>9 DEF TxAligned
  <1>11. CASE ~(byteIndex <= 1)
    <2>1. ~o_go_stand.busy
      BY <1>7, <1>11 DEF NoJob
    <2>2. job' = job /\ frame' = frame
      BY <1>6, <2>1, BusHolds
    <2>3. At' = At /\ Op' = Op
      BY <1>2, <1>11 DEF At, Op
    <2>4. ~InTransfer'
      BY <1>3, <2>3 DEF InTransfer, Reading
    <2>5. Enqueued' = FrameLen(Op) - byteIndex + 1
      <3>1. Enqueued' = FrameLen(Op) - byteIndex'
        BY <2>3 DEF Enqueued
      <3> QED
        BY <1>2, <1>3, <1>5, <3>1 DEF FrameLen
    <2> QED
      BY <1>2, <1>6, <1>9, <2>2, <2>3, <2>4, <2>5 DEF TxAligned
  <1> QED
    BY <1>10, <1>11

LEMMA JobIs ==
  ASSUME NEW j \in Jobs
  PROVE  /\ j.tx \in 0..9 /\ j.rx \in 0..8 /\ j.busy \in BOOLEAN
         /\ ~j.busy => j = NoJob
         /\ j.busy => j = [busy |-> TRUE, tx |-> j.tx, rx |-> j.rx]
  <1>1. CASE j = NoJob
    BY <1>1 DEF NoJob
  <1>2. CASE j \in [busy: {TRUE}, tx: 0..9, rx: 0..8]
    BY <1>2
  <1> QED
    BY <1>1, <1>2 DEF Jobs

(* The four things the bus may do while a transfer goes on.                *)
LEMMA TransferBus ==
  ASSUME drv \in States, TxAligned, InTransfer, Bus
  PROVE  \/ /\ BusHold
            /\ txFifo' = txFifo /\ job' = job /\ frame' = frame
            /\ Dequeue(<< >>, o_rx_dequeue)
         \/ /\ BusSend
            /\ job.busy /\ job.tx \in 1..9 /\ txFifo # << >>
            /\ txFifo' = Tail(txFifo) /\ frame' = Append(frame, Head(txFifo))
            /\ job' = [busy |-> TRUE, tx |-> job.tx - 1, rx |-> job.rx]
            /\ Dequeue(<< >>, o_rx_dequeue)
         \/ /\ BusReceive
            /\ job.busy /\ job.tx = 0 /\ job.rx \in 1..8
            /\ txFifo' = txFifo /\ frame' = frame
            /\ job' = [busy |-> TRUE, tx |-> 0, rx |-> job.rx - 1]
            /\ Dequeue(<<Answer>>, o_rx_dequeue)
         \/ /\ BusStop
            /\ job.busy /\ job.tx = 0 /\ job.rx = 0
            /\ txFifo' = txFifo /\ frame' = frame /\ job' = NoJob
            /\ Dequeue(<< >>, o_rx_dequeue)
  <1>1. o_tx_enqueue = << >> /\ ~o_go_stand.busy
    BY Outputs DEF InTransfer, NoJob
  <1>2. Op \in Ops
    BY Where, Zenon DEF InTransfer, Reading
  <1> DEFINE F == FrameOf(Op, cfg)
  <1>3. /\ F \in Seq(FrameBytes(Op, cfg)) /\ Len(F) = FrameLen(Op)
        /\ FrameLen(Op) \in 2..9
    BY <1>2, FrameIs
  <1>4. /\ job.tx <= FrameLen(Op) /\ job \in Jobs
        /\ txFifo = SubSeq(F, FrameLen(Op) - job.tx + 1, FrameLen(Op))
    BY DEF TxAligned
  <1>5. job.tx \in 0..9 /\ job.rx \in 0..8
    BY <1>4, JobIs
  <1> HIDE DEF F
  <1>6. /\ FrameLen(Op) - job.tx + 1 \in Nat /\ FrameLen(Op) - job.tx + 1 >= 1
        /\ FrameLen(Op) \in Nat /\ FrameLen(Op) <= Len(F)
    <2> DEFINE n == FrameLen(Op)
               k == job.tx
               m == Len(F)
    <2>1. n \in 2..9 /\ m = n /\ k \in 0..9 /\ k <= n
      BY ONLY <1>3, <1>4, <1>5, Zenon
    <2> HIDE DEF n, k, m
    <2>2. n - k + 1 \in Nat /\ n - k + 1 >= 1 /\ n \in Nat /\ n <= m
      BY ONLY <2>1
    <2> QED
      BY ONLY <2>2, Zenon DEF n, k, m
  <1>7. txFifo \in Seq(FrameBytes(Op, cfg))
    BY <1>3, <1>4, <1>6, PartLen
  <1>8. txFifo \o << >> = txFifo
    BY <1>7, ConcatEmptySeq
  <1>9. CASE BusHold
    BY <1>1, <1>8, <1>9 DEF BusHold, SpiHold
  <1>10. CASE BusSend
    <2>1. /\ job.busy /\ job.tx > 0
          /\ frame' = Append(frame, IF txFifo = << >> THEN NoByte ELSE Head(txFifo))
          /\ txFifo' = (IF txFifo = << >> THEN << >> ELSE Tail(txFifo)) \o << >>
          /\ job' = [job EXCEPT !.tx = @ - 1]
          /\ Dequeue(<< >>, o_rx_dequeue)
      BY <1>1, <1>10 DEF BusSend, SpiSend
    <2>2. txFifo # << >>
      <3>1. FrameLen(Op) \in 1..Len(F) /\ FrameLen(Op) - job.tx + 1 \in 1..FrameLen(Op)
        <4> DEFINE n == FrameLen(Op)
                   k == job.tx
                   m == Len(F)
        <4>1. n \in 2..9 /\ m = n /\ k \in 0..9 /\ k <= n /\ k > 0
          BY ONLY <1>3, <1>4, <1>5, <2>1, Zenon
        <4> HIDE DEF n, k, m
        <4>2. n \in 1..m /\ n - k + 1 \in 1..n
          BY ONLY <4>1
        <4> QED
          BY ONLY <4>2, Zenon DEF n, k, m
      <3> QED
        BY <1>3, <1>4, <3>1, PartTake
    <2>3. Tail(txFifo) \in Seq(FrameBytes(Op, cfg))
      BY <1>7, <2>2, HeadTailProperties
    <2>4. txFifo' = Tail(txFifo)
      BY <2>1, <2>2, <2>3, ConcatEmptySeq
    <2>5. job = [busy |-> TRUE, tx |-> job.tx, rx |-> job.rx]
      BY <1>4, <2>1, JobIs
    <2>6. job' = [busy |-> TRUE, tx |-> job.tx - 1, rx |-> job.rx]
      BY <2>1, <2>5
    <2>7. job.tx \in 1..9
      BY <1>5, <2>1
    <2>8. frame' = Append(frame, Head(txFifo))
      BY <2>1, <2>2
    <2> QED
      BY <1>10, <2>1, <2>2, <2>4, <2>6, <2>7, <2>8, Zenon
  <1>11. CASE BusReceive
    <2>1. /\ job.busy /\ job.tx = 0 /\ job.rx > 0
          /\ job' = [job EXCEPT !.rx = @ - 1]
          /\ txFifo' = txFifo \o << >> /\ frame' = frame
          /\ Dequeue(<<Answer>>, o_rx_dequeue)
      BY <1>1, <1>11 DEF BusReceive, SpiReceive
    <2>2. job = [busy |-> TRUE, tx |-> 0, rx |-> job.rx]
      BY <1>4, <2>1, JobIs
    <2>3. job' = [busy |-> TRUE, tx |-> 0, rx |-> job.rx - 1]
      BY <2>1, <2>2
    <2>4. job.rx \in 1..8
      BY <1>5, <2>1
    <2> QED
      BY <1>8, <1>11, <2>1, <2>3, <2>4, Zenon
  <1>12. CASE BusStop
    BY <1>1, <1>8, <1>12 DEF BusStop, SpiStop
  <1> QED
    BY <1>9, <1>10, <1>11, <1>12 DEF Bus, BusMoves

(* The frame and the queue stay two parts of one frame.                    *)
LEMMA TxMoves ==
  ASSUME drv \in States, TxAligned, InTransfer, Bus
  PROVE  /\ job' \in Jobs /\ Len(frame') <= 9
         /\ job'.tx <= FrameLen(Op)
         /\ txFifo' = SubSeq(FrameOf(Op, cfg), FrameLen(Op) - job'.tx + 1, FrameLen(Op))
         /\ job'.busy => frame' = SubSeq(FrameOf(Op, cfg), 1, FrameLen(Op) - job'.tx)
         /\ job'.tx > 0 => job'.rx = ReadLen(Op)
         /\ ~job.busy => job' = NoJob
  <1> DEFINE F == FrameOf(Op, cfg)
             sent == FrameLen(Op) - job.tx
  <1>1. Op \in Ops
    BY Where, Zenon DEF InTransfer, Reading
  <1>2. /\ F \in Seq(FrameBytes(Op, cfg)) /\ Len(F) = FrameLen(Op)
        /\ FrameLen(Op) \in 2..9
    BY <1>1, FrameIs
  <1>3. /\ job \in Jobs /\ Len(frame) <= 9
        /\ job.tx <= FrameLen(Op)
        /\ txFifo = SubSeq(F, sent + 1, FrameLen(Op))
        /\ job.busy => frame = SubSeq(F, 1, sent)
        /\ job.tx > 0 => job.rx = ReadLen(Op)
    BY DEF TxAligned
  <1>4. job.tx \in 0..9 /\ job.rx \in 0..8 /\ (~job.busy => job = NoJob)
    BY <1>3, JobIs
  <1>5. CASE job' = job /\ txFifo' = txFifo /\ frame' = frame
    BY <1>3, <1>4, <1>5
  <1>6. CASE /\ job.busy /\ job.tx \in 1..9 /\ txFifo # << >>
             /\ txFifo' = Tail(txFifo) /\ frame' = Append(frame, Head(txFifo))
             /\ job' = [busy |-> TRUE, tx |-> job.tx - 1, rx |-> job.rx]
    <2>1. /\ job'.tx = job.tx - 1 /\ job'.rx = job.rx /\ job'.busy /\ job' \in Jobs
      BY <1>4, <1>6 DEF Jobs
    <2>2. /\ sent \in 0..8 /\ sent < FrameLen(Op)
          /\ job'.tx <= FrameLen(Op)
          /\ FrameLen(Op) - job'.tx = sent + 1
      <3>1. job.tx \in 1..9 /\ job.tx <= FrameLen(Op) /\ FrameLen(Op) \in 2..9
            /\ job'.tx = job.tx - 1
        BY <1>2, <1>3, <1>6, <2>1
      <3> QED
        BY ONLY <3>1
    <2> HIDE DEF F, sent
    <2>3. /\ sent \in 0..(Len(F) - 1) /\ 1 \in 1..(sent + 1)
          /\ FrameLen(Op) \in 1..Len(F) /\ sent + 1 \in 1..FrameLen(Op)
      BY <1>2, <2>2
    <2>4. frame = SubSeq(F, 1, sent) /\ txFifo = SubSeq(F, sent + 1, FrameLen(Op))
      BY <1>3, <1>6
    <2>5. /\ Head(txFifo) = F[sent + 1]
          /\ Tail(txFifo) = SubSeq(F, (sent + 1) + 1, FrameLen(Op))
      BY <1>2, <2>3, <2>4, PartTake
    <2>6. frame' = SubSeq(F, 1, sent + 1)
      BY <1>2, <1>6, <2>3, <2>4, <2>5, PartExtend
    <2>7. Len(frame') <= 9
      <3>1. sent + 1 \in 0..Len(F)
        BY <1>2, <2>2
      <3>2. Len(SubSeq(F, 1, sent + 1)) = sent + 1
        BY <1>2, <3>1, PrefixLen
      <3> QED
        BY <2>2, <2>6, <3>2
    <2>8. job'.tx > 0 => job'.rx = ReadLen(Op)
      BY <1>3, <1>4, <1>6, <2>1
    <2>9. txFifo' = SubSeq(F, FrameLen(Op) - job'.tx + 1, FrameLen(Op))
      BY <1>6, <2>2, <2>5, Zenon
    <2>10. frame' = SubSeq(F, 1, FrameLen(Op) - job'.tx)
      BY <2>2, <2>6, Zenon
    <2> QED
      BY <1>6, <2>1, <2>2, <2>7, <2>8, <2>9, <2>10, Zenon DEF F
  <1>7. CASE /\ job.busy /\ job.tx = 0 /\ job.rx \in 1..8
             /\ txFifo' = txFifo /\ frame' = frame
             /\ job' = [busy |-> TRUE, tx |-> 0, rx |-> job.rx - 1]
    <2>1. job'.tx = job.tx /\ ~(job'.tx > 0) /\ job' \in Jobs
      BY <1>7 DEF Jobs
    <2> QED
      BY <1>3, <1>7, <2>1, Zenon
  <1>8. CASE /\ job.busy /\ job.tx = 0 /\ job.rx = 0
             /\ txFifo' = txFifo /\ frame' = frame /\ job' = NoJob
    <2>1. job'.tx = job.tx /\ ~(job'.tx > 0) /\ ~job'.busy /\ job' \in Jobs
      BY <1>8 DEF Jobs, NoJob
    <2> QED
      BY <1>3, <1>8, <2>1, Zenon
  <1>9. \/ job' = job /\ txFifo' = txFifo /\ frame' = frame
        \/ /\ job.busy /\ job.tx \in 1..9 /\ txFifo # << >>
           /\ txFifo' = Tail(txFifo) /\ frame' = Append(frame, Head(txFifo))
           /\ job' = [busy |-> TRUE, tx |-> job.tx - 1, rx |-> job.rx]
        \/ /\ job.busy /\ job.tx = 0 /\ job.rx \in 1..8
           /\ txFifo' = txFifo /\ frame' = frame
           /\ job' = [busy |-> TRUE, tx |-> 0, rx |-> job.rx - 1]
        \/ /\ job.busy /\ job.tx = 0 /\ job.rx = 0
           /\ txFifo' = txFifo /\ frame' = frame /\ job' = NoJob
    BY TransferBus, Zenon
  <1> QED
    BY <1>5, <1>6, <1>7, <1>8, <1>9, Zenon

(* Where the driver is after a clock of a transfer.                        *)
LEMMA TransferNext ==
  ASSUME drv \in States, InTransfer, Driver
  PROVE  /\ cfg' = cfg /\ bootTimer' = bootTimer
         /\ \/ InTransfer' /\ At' = At /\ Op' = Op /\ (At = "WAIT" => job.busy)
            \/ InTransfer' /\ Reading /\ At' = "WAIT" /\ Op' = Op
            \/ At = "WAIT" /\ ~job.busy /\ drv' = After(Op) /\ At' \in Quiet \cup {"CMD"}
  <1>1. Op \in Ops /\ At \notin Quiet
    BY Where, Zenon DEF InTransfer, Reading, Quiet
  <1>2. CASE Reading
    <2>1. drvReadData
      BY <1>1, <1>2, TransferStep
    <2>2. /\ drv' = <<"WAIT", Op>> \/ drv' = drv
          /\ cfg' = cfg /\ bootTimer' = bootTimer
      BY <2>1 DEF drvReadData
    <2>3. At # "WAIT"
      BY <1>2 DEF Reading
    <2>4. CASE drv' = drv
      BY <1>2, <2>2, <2>3, <2>4 DEF InTransfer, Reading, At, Op
    <2>5. CASE drv' = <<"WAIT", Op>>
      BY <1>2, <2>2, <2>5, WhereNext DEF InTransfer
    <2> QED
      BY <2>2, <2>4, <2>5
  <1>3. CASE At = "WAIT"
    <2>1. /\ drv' = IF o_spi_idle THEN After(Op) ELSE drv
          /\ cfg' = cfg /\ bootTimer' = bootTimer
      BY <1>1, <1>3, TransferStep DEF drvWait
    <2>2. CASE job.busy
      BY <1>3, <2>1, <2>2 DEF o_spi_idle, InTransfer, At, Op
    <2>3. CASE ~job.busy
      <3>1. drv' = After(Op)
        BY <2>1, <2>3 DEF o_spi_idle
      <3>2. At' \in Quiet \cup {"CMD"}
        BY <1>1, <3>1, AfterIs DEF At
      <3> QED
        BY <1>3, <2>1, <2>3, <3>1, <3>2
    <2> QED
      BY <2>2, <2>3
  <1> QED
    BY <1>2, <1>3 DEF InTransfer

LEMMA TxTransfer ==
  ASSUME drv \in States, TxAligned, RxAligned, Driver, Bus, InTransfer
  PROVE  TxAligned'
  <1>1. CASE InTransfer' /\ Op' = Op /\ cfg' = cfg
    BY <1>1, TxMoves DEF TxAligned
  <1>2. CASE At = "WAIT" /\ ~job.busy /\ drv' = After(Op) /\ At' \in Quiet \cup {"CMD"}
    <2>1. job' = NoJob /\ Len(frame') <= 9
          /\ txFifo' = SubSeq(FrameOf(Op, cfg), FrameLen(Op) - job'.tx + 1, FrameLen(Op))
      BY <1>2, TxMoves
    <2>2. Op \in Ops
      BY <1>2, Where
    <2>3. FrameLen(Op) \in 2..9
      BY <2>2, FrameIs
    <2>4. txFifo' = << >>
      <3>1. FrameLen(Op) - job'.tx + 1 \in Int /\ FrameLen(Op) \in Int
            /\ FrameLen(Op) < FrameLen(Op) - job'.tx + 1
        BY <2>1, <2>3 DEF NoJob
      <3> QED
        BY <2>1, <3>1, PartEmpty
    <2>5. ~InTransfer' /\ Enqueued' = 0
      BY <1>2 DEF Quiet, InTransfer, Reading, Enqueued
    <2>6. txFifo' = SubSeq(FrameOf(Op, cfg)', 1, Enqueued')
      BY <2>4, <2>5, PartEmpty
    <2>7. job' \in Jobs /\ ~job'.busy
      BY <2>1 DEF Jobs, NoJob
    <2> QED
      BY <2>1, <2>5, <2>6, <2>7 DEF TxAligned
  <1> QED
    BY <1>1, <1>2, TransferNext

LEMMA TxKept ==
  ASSUME drv \in States, TxAligned, RxAligned, Driver, Bus
  PROVE  TxAligned'
  <1>1. \/ At \in Quiet \/ At = "CMD" \/ At = "ADDR" \/ InTransfer
        \/ At = "DATA" /\ Op \in WriteOps
    BY Where, Lengths, Zenon DEF InTransfer, Reading
  <1> QED
    BY <1>1, TxQuiet, TxCommand, TxAddress, TxData, TxTransfer

-----------------------------------------------------------------------------
(* The bytes received.                                                     *)

(* Nothing is taken and nothing is received outside a read.                *)
LEMMA RxEmpty ==
  ASSUME rxFifo = << >>, Dequeue(<< >>, FALSE)
  PROVE  rxFifo' = << >> /\ rxData' = << >>
  BY DEF Dequeue

LEMMA RxNext ==
  ASSUME drv \in States, RxAligned, ~Reading, ~job.busy, Bus
  PROVE  rxFifo' = << >> /\ rxData' = << >>
  BY Outputs, BusHolds DEF RxAligned, Dequeue

(* In a clock of a read every byte stays, is taken, or is received.        *)
LEMMA RxCount ==
  ASSUME NEW S, rxFifo \in Seq(S), NEW rec \in Seq(S), Dequeue(rec, rxFifo # << >>)
  PROVE  /\ rxFifo' \in Seq(S) /\ rxData' \in Seq(S)
         /\ Len(rxData') \in 0..1
         /\ Len(rxData') + Len(rxFifo') = Len(rxFifo) + Len(rec)
  <1>1. /\ rxFifo' = (IF rxFifo # << >> THEN Tail(rxFifo) ELSE rxFifo) \o rec
        /\ rxData' = IF rxFifo # << >> THEN <<Head(rxFifo)>> ELSE << >>
    BY DEF Dequeue, o_rx_avail
  <1>2. CASE rxFifo # << >>
    <2>1. /\ Head(rxFifo) \in S /\ Tail(rxFifo) \in Seq(S)
          /\ Len(Tail(rxFifo)) = Len(rxFifo) - 1
      BY <1>2, HeadTailProperties
    <2>2. rxFifo' = Tail(rxFifo) \o rec /\ rxData' = <<Head(rxFifo)>>
      BY <1>1, <1>2
    <2>3. rxFifo' \in Seq(S) /\ Len(rxFifo') = Len(Tail(rxFifo)) + Len(rec)
      BY <2>1, <2>2, ConcatProperties
    <2>4. rxData' \in Seq(S) /\ Len(rxData') = 1
      BY <2>1, <2>2
    <2>5. Len(rxFifo) \in Nat /\ Len(rec) \in Nat
      BY LenProperties
    <2> QED
      BY <2>1, <2>3, <2>4, <2>5
  <1>3. CASE rxFifo = << >>
    <2>1. rxFifo' = << >> \o rec /\ rxData' = << >>
      BY <1>1, <1>3
    <2>2. rxFifo' = rec
      BY <2>1, ConcatEmptySeq
    <2>3. Len(rec) \in Nat
      BY LenProperties
    <2> QED
      BY <1>3, <2>1, <2>2, <2>3
  <1> QED
    BY <1>2, <1>3

(* The bytes received, when they are those of a sequence in its order.     *)
LEMMA RxPart ==
  ASSUME NEW S, NEW F \in Seq(S), NEW n \in 0..Len(F), NEW a \in 1..(n + 1),
         rxFifo = SubSeq(F, a, n), NEW rec, NEW m \in 0..Len(F),
         \/ rec = << >> /\ m = n
         \/ n < Len(F) /\ rec = <<F[n + 1]>> /\ m = n + 1,
         Dequeue(rec, rxFifo # << >>)
  PROVE  /\ rxData' = SubSeq(F, a, a + Len(rxData') - 1)
         /\ rxFifo' = SubSeq(F, a + Len(rxData'), m)
         /\ Len(rxData') \in 0..1
  <1>1. /\ rxFifo' = (IF rxFifo # << >> THEN Tail(rxFifo) ELSE rxFifo) \o rec
        /\ rxData' = IF rxFifo # << >> THEN <<Head(rxFifo)>> ELSE << >>
    BY DEF Dequeue, o_rx_avail
  <1>2. n \in Nat /\ a \in Nat /\ Len(F) \in Nat
    BY LenProperties
  <1>3. ASSUME NEW b \in 1..(n + 1) PROVE SubSeq(F, b, n) \o rec = SubSeq(F, b, m)
    <2>1. CASE rec = << >> /\ m = n
      <3>1. n \in Nat /\ n <= Len(F) /\ b \in Nat /\ b >= 1
        BY <1>2
      <3>2. SubSeq(F, b, n) \in Seq(S)
        BY <3>1, PartLen
      <3> QED
        BY <2>1, <3>2, ConcatEmptySeq
    <2>2. CASE n < Len(F) /\ rec = <<F[n + 1]>> /\ m = n + 1
      <3>1. n \in 0..(Len(F) - 1)
        BY <1>2, <2>2
      <3> QED
        BY <2>2, <3>1, PartExtend
    <2> QED
      BY <2>1, <2>2
  <1>4. CASE a = n + 1
    <2>1. rxFifo = << >>
      BY <1>2, <1>4, PartEmpty
    <2>2. rxData' = << >> /\ Len(rxData') = 0 /\ rxFifo' = rxFifo \o rec
      BY <1>1, <2>1
    <2>3. SubSeq(F, a, a + 0 - 1) = << >>
      BY <1>2, PartEmpty
    <2>4. a + Len(rxData') = a /\ a + Len(rxData') - 1 = a + 0 - 1 /\ Len(rxData') \in 0..1
      BY <1>2, <2>2
    <2>5. rxFifo' = SubSeq(F, a, m)
      BY <1>3, <2>2
    <2> QED
      BY <2>2, <2>3, <2>4, <2>5
  <1>5. CASE a # n + 1
    <2>1. n \in 1..Len(F) /\ a \in 1..n /\ a + 1 \in 1..(n + 1)
      BY <1>2, <1>5
    <2>2. /\ rxFifo # << >> /\ Head(rxFifo) = F[a]
          /\ Tail(rxFifo) = SubSeq(F, a + 1, n)
      BY <2>1, PartTake
    <2>3. rxData' = <<F[a]>> /\ rxFifo' = SubSeq(F, a + 1, n) \o rec
      BY <1>1, <2>2
    <2>4. rxFifo' = SubSeq(F, a + 1, m)
      BY <1>3, <2>1, <2>3
    <2>5. SubSeq(F, a, a) = <<F[a]>>
      <3>1. PICK k \in 0..(Len(F) - 1) : k + 1 = a /\ k < a
        <4>1. a - 1 \in 0..(Len(F) - 1) /\ (a - 1) + 1 = a /\ a - 1 < a
          BY <1>2, <2>1
        <4> QED
          BY <4>1
      <3>2. a \in 1..(k + 1) /\ k \in Int /\ a \in Int
        BY <1>2, <2>1, <3>1
      <3>3. SubSeq(F, a, k) \o <<F[k + 1]>> = SubSeq(F, a, k + 1)
        BY <3>1, <3>2, PartExtend
      <3>4. SubSeq(F, a, k) = << >>
        BY <3>1, <3>2, PartEmpty
      <3>5. F[a] \in S
        BY <2>1, ElementOfSeq
      <3>6. << >> \o <<F[a]>> = <<F[a]>>
        BY <3>5
      <3> QED
        BY <3>1, <3>3, <3>4, <3>6, Zenon
    <2>6. Len(rxData') = 1
      BY <2>3
    <2>7. a + Len(rxData') = a + 1 /\ a + Len(rxData') - 1 = a /\ Len(rxData') \in 0..1
      BY <1>2, <2>6
    <2> QED
      BY <2>3, <2>4, <2>5, <2>7
  <1> QED
    BY <1>4, <1>5

(* The bytes of a measurement.                                             *)
LEMMA SamplesAre ==
  /\ SampleBytes \in Seq(Bytes) /\ Len(SampleBytes) = 8
  /\ \A i \in 1..8 : SampleBytes[i] = Byte("sample", i)
  <1>1. \A i \in 1..8 : Byte("sample", i) \in Bytes
    BY DEF Bytes, Byte, Status
  <1>2. SampleBytes \in [1..8 -> Bytes]
    BY <1>1 DEF SampleBytes
  <1>3. \A i \in 1..8 : SampleBytes[i] = Byte("sample", i)
    BY DEF SampleBytes
  <1>4. ASSUME NEW n \in Nat, NEW f \in [1..n -> Bytes] PROVE f \in Seq(Bytes) /\ Len(f) = n
    OBVIOUS
  <1>5. 8 \in Nat
    OBVIOUS
  <1> QED
    BY <1>2, <1>3, <1>4, <1>5, Zenon

(* What the sensor answers: its status, or the next sample.                *)
LEMMA AnswerIs ==
  ASSUME drv \in States, TxAligned, InTransfer, sensor.status \in Status,
         job.busy, job.tx = 0, job.rx \in 1..8
  PROVE  /\ Answer \in Bytes
         /\ frame[2] = Address(Op)
         /\ Op \in DataOps => Answer = SampleBytes[9 - job.rx]
  <1>1. Op \in Ops
    BY Where, Zenon DEF InTransfer, Reading
  <1>2. /\ FrameOf(Op, cfg) \in Seq(FrameBytes(Op, cfg))
        /\ Len(FrameOf(Op, cfg)) = FrameLen(Op) /\ FrameLen(Op) \in 2..9
        /\ FrameOf(Op, cfg)[2] = Address(Op)
    BY <1>1, FrameIs
  <1>3. frame = SubSeq(FrameOf(Op, cfg), 1, FrameLen(Op) - 0)
    BY DEF TxAligned
  <1>4. FrameLen(Op) - 0 = Len(FrameOf(Op, cfg))
    BY <1>2
  <1>5. frame = FrameOf(Op, cfg)
    BY <1>2, <1>3, <1>4, SubSeqFull
  <1>6. frame[2] = Address(Op)
    BY <1>2, <1>5
  <1>7. 9 - job.rx \in 1..8
    OBVIOUS
  <1>8. CASE frame[2] = Address("CLEAR_MEASU")
    <2>1. Answer = [kind |-> "status", pos |-> 1, status |-> sensor.status]
      BY <1>8 DEF Answer
    <2>2. Answer \in Bytes
      <3>1. \A x \in Status : [kind |-> "status", pos |-> 1, status |-> x] \in Bytes
        BY DEF Bytes
      <3> QED
        BY <2>1, <3>1
    <2>3. Op \notin DataOps
      <3>1. Op \in DataOps => Address(Op) = Byte("8reg", 0)
        BY DEF Address, DataOps, ClearOps
      <3>2. Address("CLEAR_MEASU") = Byte("stat", 0)
        BY DEF Address, DataOps, ClearOps
      <3> QED
        BY <1>6, <1>8, <3>1, <3>2 DEF Byte
    <2> QED
      BY <1>6, <2>2, <2>3
  <1>9. CASE frame[2] # Address("CLEAR_MEASU")
    <2>1. Answer = Byte("sample", 9 - job.rx)
      BY <1>9 DEF Answer
    <2>2. Answer = SampleBytes[9 - job.rx]
      BY <1>7, <2>1, SamplesAre
    <2>3. Answer \in Bytes
      BY <1>7, <2>2, SamplesAre, ElementOfSeq
    <2> QED
      BY <1>6, <2>2, <2>3
  <1> QED
    BY <1>8, <1>9

(* A clock of a read: the byte presented is counted, and the last one ends *)
(* the read.                                                               *)
LEMMA ReadStep ==
  ASSUME drv \in States, Reading, TxAligned, RxAligned, Streamed, Driver
  PROVE  /\ byteIndex' = byteIndex - Len(rxData)
         /\ \/ /\ Reading' /\ At' = "DATA" /\ Op' = Op
               /\ Len(rxData) = 1 => byteIndex > 1
            \/ /\ ~Reading' /\ At' = "WAIT" /\ Op' = Op /\ byteIndex' = 0
               /\ Len(rxData) = 1 /\ byteIndex = 1
               /\ rxFifo = << >> /\ job.rx = 0
  <1>1. Op \in Ops /\ At \notin Quiet /\ At = "DATA" /\ Op \in ReadOps
    BY Where DEF Reading, Quiet
  <1>2. /\ IF rxData # << >>
           THEN /\ byteIndex' = byteIndex - 1
                /\ drv' = IF byteIndex <= 1 \/ Op \in ClearOps THEN <<"WAIT", Op>> ELSE drv
           ELSE byteIndex' = byteIndex /\ drv' = drv
    BY <1>1, TransferStep, Zenon DEF drvReadData
  <1>3. /\ byteIndex \in 1..ReadLen(Op) /\ byteIndex = Len(rxData) + Len(rxFifo) + job.rx
        /\ rxFifo \in Seq(Bytes) /\ rxData \in Seq(Bytes) /\ Len(rxData) <= 1
        /\ job.rx \in 0..8 /\ ReadLen(Op) \in 1..8 /\ (Op \in ClearOps => ReadLen(Op) = 1)
    BY <1>1, Lengths, JobIs DEF RxAligned, Streamed, TxAligned
  <1>4. /\ Len(rxData) \in 0..1 /\ (Len(rxData) = 0 <=> rxData = << >>)
        /\ Len(rxFifo) \in Nat /\ (Len(rxFifo) = 0 => rxFifo = << >>)
    <2>1. ASSUME NEW q \in Seq(Bytes) PROVE Len(q) \in Nat /\ (Len(q) = 0 <=> q = << >>)
      <3>1. Len(q) \in Nat
        BY LenProperties
      <3>2. q # << >> => Len(q) \in Nat \ {0}
        BY EmptySeq
      <3>3. Len(<< >>) = 0
        BY EmptySeq
      <3> QED
        BY <3>1, <3>2, <3>3
    <2>2. rxFifo \in Seq(Bytes) /\ rxData \in Seq(Bytes) /\ Len(rxData) <= 1
      BY <1>3
    <2>3. Len(rxData) \in Nat /\ Len(rxFifo) \in Nat
      BY <2>1, <2>2, Zenon
    <2>4. /\ Len(rxData) = 0 <=> rxData = << >>
          /\ Len(rxFifo) = 0 <=> rxFifo = << >>
      BY <2>1, <2>2, Zenon
    <2>5. Len(rxData) \in 0..1
      <3>1. Len(rxData) <= 1
        BY <2>2
      <3>2. ASSUME NEW k \in Nat, k <= 1 PROVE k \in 0..1
        BY <3>2
      <3> QED
        BY <2>3, <3>1, <3>2, Zenon
    <2> QED
      BY <2>3, <2>4, <2>5, Zenon
  <1>5. byteIndex' = byteIndex - Len(rxData)
    BY <1>2, <1>3, <1>4
  <1>6. CASE drv' = drv
    <2>1. At' = At /\ Op' = Op
      BY <1>6 DEF At, Op
    <2>2. Len(rxData) = 1 => byteIndex > 1
      <3>1. CASE Len(rxData) = 1 /\ ~(byteIndex > 1)
        <4>1. drv' = <<"WAIT", Op>>
          BY <1>2, <1>3, <1>4, <3>1
        <4>2. At' = "WAIT"
          BY <4>1, WhereNext
        <4> QED
          BY <1>1, <2>1, <4>2
      <3> QED
        BY <3>1
    <2> QED
      BY <1>1, <1>5, <2>1, <2>2 DEF Reading
  <1>7. CASE rxData # << >> /\ (byteIndex <= 1 \/ Op \in ClearOps)
    <2>1. drv' = <<"WAIT", Op>>
      BY <1>2, <1>7
    <2>2. At' = "WAIT" /\ Op' = Op
      BY <2>1, WhereNext
    <2>3. byteIndex = 1 /\ Len(rxData) = 1 /\ Len(rxFifo) = 0 /\ job.rx = 0
      BY <1>3, <1>4, <1>7
    <2> QED
      BY <1>4, <1>5, <2>2, <2>3 DEF Reading
  <1> QED
    BY <1>2, <1>6, <1>7

(* What the bus receives in a clock of a read.                             *)
LEMMA ReadBus ==
  ASSUME drv \in States, Reading, TxAligned, RxAligned, Streamed, Configured, Bus
  PROVE  \E rec \in Seq(Bytes) :
            /\ Dequeue(rec, rxFifo # << >>)
            /\ \/ rec = << >> /\ job'.rx = job.rx
               \/ /\ job.rx \in 1..8 /\ job'.rx = job.rx - 1 /\ Len(rec) = 1
                  /\ Op \in DataOps => rec = <<SampleBytes[9 - job.rx]>>
  <1>1. InTransfer /\ (o_rx_dequeue <=> rxFifo # << >>)
    BY Outputs DEF InTransfer
  <1>2. ASSUME NEW rec, Dequeue(rec, o_rx_dequeue)
        PROVE  Dequeue(rec, rxFifo # << >>)
    BY <1>1, <1>2 DEF Dequeue
  <1>3. << >> \in Seq(Bytes)
    OBVIOUS
  <1>4. CASE Dequeue(<< >>, o_rx_dequeue) /\ job' = job
    BY <1>2, <1>3, <1>4
  <1>5. CASE /\ Dequeue(<< >>, o_rx_dequeue) /\ job.busy
             /\ job' = [busy |-> TRUE, tx |-> job.tx - 1, rx |-> job.rx]
    BY <1>2, <1>3, <1>5
  <1>6. CASE /\ Dequeue(<<Answer>>, o_rx_dequeue) /\ job.busy /\ job.tx = 0 /\ job.rx \in 1..8
             /\ job' = [busy |-> TRUE, tx |-> 0, rx |-> job.rx - 1]
    <2>1. sensor.status \in Status
      BY DEF Configured, SensorType
    <2>2. Answer \in Bytes /\ (Op \in DataOps => Answer = SampleBytes[9 - job.rx])
      BY <1>1, <1>6, <2>1, AnswerIs
    <2>3. <<Answer>> \in Seq(Bytes) /\ Len(<<Answer>>) = 1
      BY <2>2
    <2>4. job'.rx = job.rx - 1
      BY <1>6
    <2> QED
      BY <1>2, <1>6, <2>2, <2>3, <2>4
  <1>7. CASE Dequeue(<< >>, o_rx_dequeue) /\ job.rx = 0 /\ job' = NoJob
    BY <1>2, <1>3, <1>7 DEF NoJob
  <1>8. \/ Dequeue(<< >>, o_rx_dequeue) /\ job' = job
        \/ /\ Dequeue(<< >>, o_rx_dequeue) /\ job.busy
           /\ job' = [busy |-> TRUE, tx |-> job.tx - 1, rx |-> job.rx]
        \/ /\ Dequeue(<<Answer>>, o_rx_dequeue) /\ job.busy /\ job.tx = 0 /\ job.rx \in 1..8
           /\ job' = [busy |-> TRUE, tx |-> 0, rx |-> job.rx - 1]
        \/ Dequeue(<< >>, o_rx_dequeue) /\ job.rx = 0 /\ job' = NoJob
    BY <1>1, TransferBus, Zenon
  <1> QED
    BY <1>4, <1>5, <1>6, <1>7, <1>8, Zenon

(* While the driver waits for the end of a transfer nothing is received.   *)
LEMMA WaitBus ==
  ASSUME drv \in States, At = "WAIT", TxAligned, RxAligned, Bus
  PROVE  rxFifo' = << >> /\ rxData' = << >> /\ job'.rx = 0
  <1>1. ~Reading /\ InTransfer
    BY DEF Reading, InTransfer
  <1>2. rxFifo = << >> /\ rxData = << >> /\ job.rx = 0 /\ ~o_rx_dequeue
    BY <1>1, Outputs DEF RxAligned
  <1>3. ASSUME Dequeue(<< >>, o_rx_dequeue) PROVE rxFifo' = << >> /\ rxData' = << >>
    BY <1>2, <1>3 DEF Dequeue
  <1>4. \/ Dequeue(<< >>, o_rx_dequeue) /\ job' = job
        \/ /\ Dequeue(<< >>, o_rx_dequeue)
           /\ job' = [busy |-> TRUE, tx |-> job.tx - 1, rx |-> job.rx]
        \/ job.rx \in 1..8
        \/ Dequeue(<< >>, o_rx_dequeue) /\ job' = NoJob
    BY <1>1, TransferBus, Zenon
  <1> QED
    BY <1>2, <1>3, <1>4 DEF NoJob

LEMMA RxReading ==
  ASSUME drv \in States, Reading, TxAligned, RxAligned, Streamed, Configured, Driver, Bus
  PROVE  /\ RxAligned'
         /\ rxFifo' \in Seq(Bytes) /\ rxData' \in Seq(Bytes)
  <1>1. PICK rec \in Seq(Bytes) :
            /\ Dequeue(rec, rxFifo # << >>)
            /\ \/ rec = << >> /\ job'.rx = job.rx
               \/ job.rx \in 1..8 /\ job'.rx = job.rx - 1 /\ Len(rec) = 1
    BY ReadBus
  <1>2. rxFifo \in Seq(Bytes) /\ rxData \in Seq(Bytes)
    BY DEF Streamed
  <1>3. /\ rxFifo' \in Seq(Bytes) /\ rxData' \in Seq(Bytes)
        /\ Len(rxData') \in 0..1
        /\ Len(rxData') + Len(rxFifo') = Len(rxFifo) + Len(rec)
    BY <1>1, <1>2, RxCount
  <1>4. /\ byteIndex \in 1..ReadLen(Op) /\ byteIndex = Len(rxData) + Len(rxFifo) + job.rx
        /\ job.rx \in 0..8 /\ ReadLen(Op) \in 0..8 /\ Op \in ReadOps
    BY Where, Lengths, JobIs DEF RxAligned, TxAligned, Reading
  <1>5. /\ Len(rxData) \in 0..1 /\ Len(rxFifo) \in Nat /\ Len(rec) \in Nat
        /\ Len(rxFifo') \in Nat
    <2>1. /\ Len(rxData) \in Nat /\ Len(rxFifo) \in Nat /\ Len(rec) \in Nat
          /\ Len(rxFifo') \in Nat
      BY <1>2, <1>3, LenProperties
    <2>2. Len(rxData) <= 1
      BY DEF RxAligned
    <2>3. ASSUME NEW k \in Nat, k <= 1 PROVE k \in 0..1
      BY <2>3
    <2> QED
      BY <2>1, <2>2, <2>3, Zenon
  <1> DEFINE d == Len(rxData)
             f == Len(rxFifo)
             e == Len(rec)
             d2 == Len(rxData')
             f2 == Len(rxFifo')
             r == job.rx
             r2 == job'.rx
             top == ReadLen(Op)
  <1>6. /\ byteIndex \in 1..top /\ byteIndex = d + f + r /\ top \in 0..8
        /\ d \in 0..1 /\ f \in Nat /\ r \in 0..8
        /\ d2 \in 0..1 /\ f2 \in Nat /\ d2 + f2 = f + e
        /\ e = r - r2 /\ r2 \in 0..8
    <2>1. \/ r2 = r /\ e = 0
          \/ r \in 1..8 /\ r2 = r - 1 /\ e = 1
      BY <1>1
    <2> HIDE DEF e, r, r2
    <2>2. r \in 0..8
      BY <1>4 DEF r
    <2>3. e = r - r2 /\ r2 \in 0..8
      BY <2>1, <2>2
    <2> QED
      BY <1>3, <1>4, <1>5, <2>2, <2>3, Zenon DEF e, r, r2
  <1>7. e = Len(rec) /\ r2 = job'.rx /\ d = Len(rxData) /\ d2 = Len(rxData') /\ f2 = Len(rxFifo')
        /\ top = ReadLen(Op)
    OBVIOUS
  <1>8. CASE /\ byteIndex' = byteIndex - Len(rxData)
             /\ Reading' /\ At' = "DATA" /\ Op' = Op
             /\ Len(rxData) = 1 => byteIndex > 1
    <2> HIDE DEF d, f, e, d2, f2, r, r2, top
    <2>1. byteIndex' = byteIndex - d /\ (d = 1 => byteIndex > 1)
      BY <1>7, <1>8
    <2>2. byteIndex' \in 1..top /\ byteIndex' \in 0..8 /\ byteIndex' = d2 + f2 + r2
      BY ONLY <1>6, <2>1
    <2>3. Op \notin WriteOps
      BY <1>4, Lengths DEF Ops
    <2>4. d2 <= 1
      BY ONLY <1>6
    <2> QED
      BY <1>3, <1>7, <1>8, <2>2, <2>3, <2>4 DEF RxAligned
  <1>9. CASE /\ ~Reading' /\ At' = "WAIT" /\ Op' = Op /\ byteIndex' = 0
             /\ rxFifo = << >> /\ job.rx = 0
    <2>1. rec = << >> /\ job'.rx = 0
      BY <1>1, <1>9
    <2>2. Dequeue(<< >>, FALSE)
      BY <1>1, <1>9, <2>1 DEF Dequeue
    <2>3. rxFifo' = << >> /\ rxData' = << >>
      BY <1>9, <2>2, RxEmpty
    <2>4. Len(rxData') <= 1 /\ byteIndex' \in 0..8
      BY <1>9, <2>3
    <2> QED
      BY <1>3, <1>9, <2>1, <2>3, <2>4 DEF RxAligned
  <1> QED
    BY <1>3, <1>8, <1>9, ReadStep, Zenon

LEMMA RxKept ==
  ASSUME drv \in States, TxAligned, RxAligned, Streamed, Configured, Driver, Bus
  PROVE  /\ RxAligned'
         /\ rxFifo' \in Seq(Bytes) /\ rxData' \in Seq(Bytes)
  <1> USE DEF Quiet
  <1>1. CASE Reading
    BY <1>1, RxReading
  <1>2. ASSUME rxFifo' = << >> /\ rxData' = << >> /\ job'.rx = 0 /\ ~Reading'
               /\ byteIndex' \in 0..8 /\ (At' = "DATA" /\ Op' \in WriteOps => byteIndex' \in 1..WriteLen(Op'))
        PROVE  RxAligned' /\ rxFifo' \in Seq(Bytes) /\ rxData' \in Seq(Bytes)
    <2>1. Len(rxData') <= 1
      BY <1>2
    <2> QED
      BY <1>2, <2>1 DEF RxAligned
  <1>3. /\ byteIndex \in 0..8 /\ job \in Jobs
        /\ ~Reading => rxFifo = << >> /\ rxData = << >> /\ job.rx = 0
    BY DEF RxAligned, TxAligned
  <1>4. CASE At \in Quiet
    <2>1. rxFifo' = << >> /\ rxData' = << >> /\ job' = job
      BY <1>4, QuietBus
    <2>2. At' \in Quiet \cup {"CMD"} /\ byteIndex' = byteIndex
      BY <1>4, QuietStep
    <2>3. ~Reading /\ ~Reading'
      BY <1>4, <2>2 DEF Reading
    <2> QED
      BY <1>2, <1>3, <2>1, <2>2, <2>3
  <1>5. CASE At = "WAIT"
    <2>1. rxFifo' = << >> /\ rxData' = << >> /\ job'.rx = 0
      BY <1>5, WaitBus
    <2>2. drvWait
      BY <1>5, TransferStep
    <2>3. byteIndex' = byteIndex
      BY <2>2 DEF drvWait
    <2>4. At' \in Quiet \cup {"CMD", "WAIT"}
      BY <1>5, TransferNext DEF InTransfer
    <2>5. ~Reading'
      BY <2>4 DEF Reading
    <2> QED
      BY <1>2, <1>3, <2>1, <2>3, <2>4, <2>5
  <1>6. CASE At \in {"CMD", "ADDR"} \/ (At = "DATA" /\ Op \in WriteOps)
    <2>1. Op \in Ops /\ ~Reading /\ ~InTransfer
      BY <1>6, Where, Lengths, Zenon DEF Reading, InTransfer
    <2>2. ~job.busy /\ job.rx = 0
      BY <1>3, <2>1 DEF TxAligned
    <2>3. rxFifo' = << >> /\ rxData' = << >>
      BY <2>1, <2>2, RxNext
    <2>4. job' = IF o_go_stand.busy THEN o_go_stand ELSE job
      BY <2>2, BusHolds
    <2>5. CASE At = "CMD"
      <3>1. At' = "ADDR" /\ byteIndex' = byteIndex
        BY <2>5, TransferStep, WhereNext DEF drvCommand
      <3>2. job'.rx = 0
        BY <2>2, <2>4, <2>5, Outputs DEF NoJob
      <3> QED
        BY <1>2, <1>3, <2>3, <3>1, <3>2 DEF Reading
    <2>6. CASE At = "ADDR"
      <3>1. /\ At' = "DATA" /\ Op' = Op
            /\ byteIndex' = IF Op \in ReadOps THEN ReadLen(Op) ELSE WriteLen(Op)
        BY <2>6, TransferStep, WhereNext DEF drvAddress
      <3>2. CASE Op \in ReadOps
        <4>1. o_go_stand = Transfer(2, ReadLen(Op))
          BY <2>6, <3>2, Outputs
        <4>2. job'.rx = ReadLen(Op)
          BY <2>4, <4>1 DEF Transfer
        <4>3. ReadLen(Op) \in 1..8 /\ Op \notin WriteOps
          BY <2>1, <3>2, Lengths
        <4>4. Len(rxData') <= 1 /\ byteIndex' \in 0..8 /\ byteIndex' \in 1..ReadLen(Op')
              /\ byteIndex' = Len(rxData') + Len(rxFifo') + job'.rx
          BY <2>3, <3>1, <3>2, <4>2, <4>3
        <4>5. Reading'
          BY <3>1, <3>2 DEF Reading
        <4> QED
          BY <2>3, <3>1, <4>3, <4>4, <4>5 DEF RxAligned
      <3>3. CASE Op \notin ReadOps
        <4>1. job'.rx = 0
          BY <2>2, <2>4, <2>6, <3>3, Outputs DEF NoJob
        <4>2. WriteLen(Op) \in 1..7
          BY <2>1, <3>3, Lengths
        <4> QED
          BY <1>2, <2>3, <3>1, <3>3, <4>1, <4>2 DEF Reading
      <3> QED
        BY <3>2, <3>3
    <2>7. CASE At = "DATA" /\ Op \in WriteOps
      <3>1. /\ byteIndex' = byteIndex - 1
            /\ drv' = IF byteIndex <= 1 THEN <<"WAIT", Op>> ELSE drv
        BY <2>7, TransferStep DEF drvWriteData
      <3>2. byteIndex \in 1..WriteLen(Op) /\ WriteLen(Op) \in 1..7
        BY <2>1, <2>7, Lengths DEF RxAligned
      <3>3. job'.rx = 0
        BY <2>2, <2>4, <2>7, Outputs DEF NoJob, Transfer
      <3>4. /\ At' \in {"WAIT", "DATA"} /\ Op' = Op
            /\ At' = "DATA" => ~(byteIndex <= 1)
        BY <2>7, <3>1, WhereNext DEF At, Op
      <3>5. ~Reading'
        BY <2>1, <2>7, <3>4, Lengths DEF Reading
      <3>6. byteIndex' \in 0..8 /\ (At' = "DATA" => byteIndex' \in 1..WriteLen(Op))
        BY <3>1, <3>2, <3>4
      <3> QED
        BY <1>2, <2>3, <3>3, <3>4, <3>5, <3>6
    <2> QED
      BY <1>6, <2>5, <2>6, <2>7
  <1>7. \/ Reading \/ At \in Quiet \/ At = "WAIT"
        \/ At \in {"CMD", "ADDR"} \/ (At = "DATA" /\ Op \in WriteOps)
    BY Where, Lengths, Zenon DEF Reading
  <1> QED
    BY <1>1, <1>4, <1>5, <1>6, <1>7

-----------------------------------------------------------------------------
(* The states of the driver and what it streams.                           *)

LEMMA StatesAre ==
  /\ <<"BOOT0", "">> \in States /\ <<"IDLE0", "">> \in States /\ <<"IDLE1", "">> \in States
  /\ \A m \in {"MM", "LM"} : <<"INIT", m>> \in States
  /\ \A at \in {"CMD", "ADDR", "DATA", "WAIT"}, op \in Ops : <<at, op>> \in States
  /\ \A op \in ClearOps : <<"CHECK", op>> \in States
  /\ \A w \in {"DR", "AT1", "AT2"} : <<"INT", w>> \in States
  BY DEF States

LEMMA DrvType ==
  ASSUME drv \in States, Driver
  PROVE  drv' \in States
  <1>1. /\ At \in {"CMD", "ADDR", "DATA", "WAIT"} => Op \in Ops
        /\ At = "CHECK" => Op \in ClearOps
    BY Where, Zenon
  <1>2. ClearOps \subseteq Ops /\ DataOps \subseteq Ops /\ WriteOps \subseteq Ops
    BY DEF Ops, ReadOps, WriteOps
  <1>3. CASE drvBoot
    BY <1>3, StatesAre, Zenon DEF drvBoot
  <1>4. CASE drvIdle0
    <2>1. o_cmd_init \in {"MM", "LM", "none"}
      BY DEF o_cmd_init
    <2> QED
      BY <1>4, <2>1, StatesAre, Zenon DEF drvIdle0
  <1>5. CASE drvInit
    <2>1. "CFG0" \in Ops
      BY DEF Ops, WriteOps, CfgOps
    <2> QED
      BY <1>5, <2>1, StatesAre, Zenon DEF drvInit
  <1>6. CASE drvCommand
    BY <1>1, <1>6, StatesAre, Zenon DEF drvCommand
  <1>7. CASE drvAddress
    BY <1>1, <1>7, StatesAre, Zenon DEF drvAddress
  <1>8. CASE drvWriteData
    <2>1. drv' = <<"WAIT", Op>> \/ drv' = drv
      BY <1>8, Zenon DEF drvWriteData
    <2> QED
      BY <1>1, <1>8, <2>1, StatesAre, Zenon DEF drvWriteData
  <1>9. CASE drvReadData
    <2>1. drv' = <<"WAIT", Op>> \/ drv' = drv
      BY <1>9, Zenon DEF drvReadData
    <2> QED
      BY <1>1, <1>9, <2>1, StatesAre, Zenon DEF drvReadData
  <1>10. CASE drvWait
    BY <1>1, <1>10, AfterIs DEF drvWait
  <1>11. CASE drvCheck
    <2>1. \/ drv' = <<"CMD", Op>> \/ drv' = <<"INT", "DR">>
          \/ drv' = <<"INT", "AT1">> \/ drv' = <<"INT", "AT2">>
      BY <1>11 DEF drvCheck
    <2> QED
      BY <1>1, <1>2, <1>11, <2>1, StatesAre, Zenon DEF drvCheck
  <1>12. CASE drvIdle1
    <2>1. drv' = drv \/ drv' = <<"INT", "DR">> \/ drv' = <<"INT", "AT1">>
      BY <1>12 DEF drvIdle1
    <2> QED
      BY <2>1, StatesAre, Zenon
  <1>13. CASE drvInterrupt
    <2>1. \/ drv' = drv
          \/ \E op \in {"SOFTRESET", "READ_MEASU", "READ_INACT0", "READ_ACT0"} : drv' = <<"CMD", op>>
      BY <1>13 DEF drvInterrupt
    <2>2. {"SOFTRESET", "READ_MEASU", "READ_INACT0", "READ_ACT0"} \subseteq Ops
      BY DEF Ops, WriteOps, ReadOps, DataOps
    <2> QED
      BY <2>1, <2>2, StatesAre, Zenon
  <1> QED
    BY <1>3, <1>4, <1>5, <1>6, <1>7, <1>8, <1>9, <1>10, <1>11, <1>12, <1>13 DEF Driver

LEMMA QuietOps ==
  ASSUME NEW d \in States, d[1] \in Quiet
  PROVE  d[2] \notin DataOps
  <1>1. CASE \E at \in {"BOOT0", "IDLE0", "IDLE1"} : d = <<at, "">>
    <2>1. ASSUME NEW at, d = <<at, "">> PROVE d[2] = ""
      BY <2>1, Zenon
    <2>2. d[2] = ""
      BY <1>1, <2>1, Zenon
    <2> QED
      BY <2>2, Zenon DEF DataOps
  <1>2. CASE \E m \in {"MM", "LM"} : d = <<"INIT", m>>
    BY <1>2 DEF DataOps
  <1>3. CASE d \in {"CMD", "ADDR", "DATA", "WAIT"} \X Ops
    BY <1>3 DEF Quiet
  <1>4. CASE \E op \in ClearOps : d = <<"CHECK", op>>
    BY <1>4 DEF DataOps, ClearOps
  <1>5. CASE \E w \in {"DR", "AT1", "AT2"} : d = <<"INT", w>>
    BY <1>5 DEF DataOps
  <1> QED
    BY <1>1, <1>2, <1>3, <1>4, <1>5, Zenon DEF States

(* A group of samples starts with the command that reads them.             *)
LEMMA NewGroup ==
  ASSUME drv \in States, Driver, Op' \in DataOps, ~(Op' = Op /\ At \notin Quiet)
  PROVE  At' = "CMD"
  <1>1. drv' \in States
    BY DrvType
  <1>2. At' \notin Quiet
    BY <1>1, QuietOps DEF At, Op
  <1>3. CASE At \in Quiet
    BY <1>2, <1>3, QuietStep
  <1>4. CASE InTransfer
    BY <1>2, <1>4, TransferNext DEF InTransfer, Reading, Quiet
  <1>5. CASE At \notin Quiet /\ ~InTransfer
    <2>1. drvCommand \/ drvAddress \/ drvWriteData
      BY <1>5, Where, TransferStep, Zenon DEF InTransfer
    <2>2. Op' = Op
      <3>1. drvWriteData => drv' = <<"WAIT", Op>> \/ drv' = drv
        BY Zenon DEF drvWriteData
      <3>2. drv' = drv => Op' = Op
        BY DEF Op
      <3> QED
        BY <2>1, <3>1, <3>2, WhereNext DEF drvCommand, drvAddress
    <2> QED
      BY <1>5, <2>2
  <1> QED
    BY <1>3, <1>4, <1>5

(* The driver reads samples in DATA, having sent the two bytes of the      *)
(* command.                                                                *)
LEMMA IntoData ==
  ASSUME drv \in States, Driver, At' = "DATA", Op' \in DataOps
  PROVE  /\ Op' = Op /\ At \in {"ADDR", "DATA"} /\ Op \in ReadOps
         /\ At = "ADDR" => byteIndex' = 8
  <1>1. Op' = Op /\ At \notin Quiet
    BY NewGroup
  <1>2. Op \in ReadOps /\ Op \in Ops
    BY <1>1 DEF ReadOps, Ops
  <1>3. At \in {"CMD", "ADDR", "DATA", "WAIT"}
    BY <1>1, Where, Zenon
  <1>4. At # "CMD"
    BY <1>1, TransferStep, WhereNext DEF drvCommand
  <1>5. At # "WAIT"
    <2>1. CASE At = "WAIT"
      BY <2>1, TransferNext DEF InTransfer, Quiet
    <2> QED
      BY <2>1
  <1>6. At = "ADDR" => byteIndex' = ReadLen(Op)
    BY <1>1, <1>2, TransferStep DEF drvAddress
  <1> QED
    BY <1>1, <1>2, <1>3, <1>4, <1>5, <1>6, Lengths

LEMMA StreamedKept ==
  ASSUME drv \in States, TxAligned, RxAligned, Streamed, Configured, Driver, Bus
  PROVE  Streamed'
  <1>1. rxFifo' \in Seq(Bytes) /\ rxData' \in Seq(Bytes)
    BY RxKept
  <1> SUFFICES ASSUME At' = "DATA", Op' \in DataOps
               PROVE  /\ rxData' = SubSeq(SampleBytes, 9 - byteIndex', 8 - byteIndex' + Len(rxData'))
                      /\ rxFifo' = SubSeq(SampleBytes, 9 - byteIndex' + Len(rxData'), 8 - job'.rx)
    BY <1>1 DEF Streamed, SampleBytes, Byte
  <1>2. /\ Op' = Op /\ At \in {"ADDR", "DATA"} /\ Op \in ReadOps /\ Op \in DataOps /\ Op \in Ops
        /\ At = "ADDR" => byteIndex' = 8
    BY IntoData DEF Ops
  <1>3. CASE At = "ADDR"
    <2>1. ~Reading /\ ~InTransfer
      BY <1>3 DEF Reading, InTransfer
    <2>2. ~job.busy
      BY <2>1 DEF TxAligned
    <2>3. rxFifo' = << >> /\ rxData' = << >>
      BY <2>1, <2>2, RxNext
    <2>4. job' = Transfer(2, ReadLen(Op))
      <3>1. o_go_stand = Transfer(2, ReadLen(Op))
        BY <1>2, <1>3, Outputs
      <3> QED
        BY <2>2, <3>1, BusHolds DEF Transfer
    <2>5. job'.rx = 8
      BY <1>2, <2>4, Lengths DEF Transfer
    <2>6. /\ SubSeq(SampleBytes, 1, 0) = << >>
          /\ 9 - byteIndex' = 1 /\ 8 - byteIndex' + Len(rxData') = 0
          /\ 9 - byteIndex' + Len(rxData') = 1 /\ 8 - job'.rx = 0
      BY <1>2, <1>3, <2>3, <2>5, PartEmpty
    <2> QED
      BY <2>3, <2>6
  <1>4. CASE At = "DATA"
    <2>1. Reading
      BY <1>2, <1>4 DEF Reading
    <2>2. byteIndex' = byteIndex - Len(rxData)
      BY <2>1, ReadStep
    <2>3. /\ byteIndex \in 1..8 /\ byteIndex = Len(rxData) + Len(rxFifo) + job.rx
          /\ job.rx \in 0..8 /\ Len(rxData) \in Nat /\ Len(rxFifo) \in Nat
      <3>1. Len(rxData) \in Nat /\ Len(rxFifo) \in Nat
        BY LenProperties DEF Streamed
      <3>2. job.rx \in 0..8
        BY JobIs DEF TxAligned
      <3>3. byteIndex \in 1..8
        BY <1>2, <2>1, Lengths DEF RxAligned
      <3> QED
        BY <2>1, <3>1, <3>2, <3>3 DEF RxAligned
    <2> DEFINE a == 9 - byteIndex + Len(rxData)
               n == 8 - job.rx
               m == 8 - job'.rx
    <2>4. rxFifo = SubSeq(SampleBytes, a, n)
      BY <1>2, <1>4 DEF Streamed
    <2>5. n \in 0..8 /\ a \in 1..(n + 1)
      <3>1. ASSUME NEW b \in 1..8, NEW d \in Nat, NEW f \in Nat, NEW r \in 0..8, b = d + f + r
            PROVE  8 - r \in 0..8 /\ 9 - b + d \in 1..((8 - r) + 1)
        BY ONLY <3>1
      <3> QED
        BY <2>3, <3>1, Zenon
    <2>6. PICK rec \in Seq(Bytes) :
            /\ Dequeue(rec, rxFifo # << >>)
            /\ \/ rec = << >> /\ job'.rx = job.rx
               \/ /\ job.rx \in 1..8 /\ job'.rx = job.rx - 1
                  /\ rec = <<SampleBytes[9 - job.rx]>>
      BY <1>2, <2>1, ReadBus
    <2>7. /\ m \in 0..8
          /\ \/ rec = << >> /\ m = n
             \/ n < 8 /\ rec = <<SampleBytes[n + 1]>> /\ m = n + 1
      <3>1. CASE rec = << >> /\ job'.rx = job.rx
        BY <2>5, <3>1
      <3>2. CASE job.rx \in 1..8 /\ job'.rx = job.rx - 1 /\ rec = <<SampleBytes[9 - job.rx]>>
        <4>1. n + 1 = 9 - job.rx /\ n < 8 /\ m = n + 1 /\ m \in 0..8
          BY <3>2
        <4> QED
          BY <3>2, <4>1
      <3> QED
        BY <2>6, <3>1, <3>2
    <2>8. 9 - byteIndex' = a /\ 8 - byteIndex' + Len(rxData') = a + Len(rxData') - 1
          /\ 9 - byteIndex' + Len(rxData') = a + Len(rxData')
      <3> DEFINE b == byteIndex
                 c == byteIndex'
                 d == Len(rxData)
                 e == Len(rxData')
      <3>1. e \in Int /\ b \in Int /\ d \in Int
        BY <1>1, <2>3, LenProperties
      <3>2. c = b - d
        BY ONLY <2>2, Zenon
      <3> HIDE DEF b, c, d, e
      <3>3. /\ 9 - c = 9 - b + d /\ 8 - c + e = 9 - b + d + e - 1
            /\ 9 - c + e = 9 - b + d + e
        BY ONLY <3>1, <3>2
      <3> QED
        BY ONLY <3>3, Zenon DEF a, b, c, d, e
    <2> HIDE DEF a, n, m
    <2>9. /\ rxData' = SubSeq(SampleBytes, a, a + Len(rxData') - 1)
          /\ rxFifo' = SubSeq(SampleBytes, a + Len(rxData'), m)
      <3>1. SampleBytes \in Seq(Bytes) /\ Len(SampleBytes) = 8
        BY SamplesAre
      <3>2. /\ n \in 0..Len(SampleBytes) /\ m \in 0..Len(SampleBytes)
            /\ \/ rec = << >> /\ m = n
               \/ n < Len(SampleBytes) /\ rec = <<SampleBytes[n + 1]>> /\ m = n + 1
        BY <2>5, <2>7, <3>1, Zenon
      <3>3. Dequeue(rec, rxFifo # << >>)
        BY <2>6
      <3> QED
        BY <2>4, <2>5, <3>1, <3>2, <3>3, RxPart
    <2> QED
      BY <2>8, <2>9, Zenon DEF m
  <1> QED
    BY <1>2, <1>3, <1>4

-----------------------------------------------------------------------------
(* The FSM that collects the samples.                                      *)

(* It takes the byte presented, and is done only with all eight.           *)
LEMMA Captures ==
  ASSUME drv \in States, At = "DATA", Op \in DataOps, TxAligned, RxAligned, Streamed, Collected,
         Driver, Stream
  PROVE  /\ stream' = "WAIT_VALID" /\ dataValid' = FALSE /\ data' = data
         /\ captured' = SubSeq(SampleBytes, 1, 8 - byteIndex')
  <1>1. /\ Op \in ReadOps /\ Op \in Ops /\ Reading /\ ReadLen(Op) = 8
    BY Lengths DEF ReadOps, Ops, Reading
  <1>2. stream = "WAIT_VALID" /\ captured = SubSeq(SampleBytes, 1, 8 - byteIndex)
    BY DEF Collected
  <1>3. /\ byteIndex \in 1..8 /\ byteIndex' = byteIndex - Len(rxData)
        /\ rxData \in Seq(Bytes) /\ Len(rxData) \in 0..1
    <2>1. Len(rxData) \in Nat
      BY LenProperties DEF Streamed
    <2> QED
      BY <1>1, <2>1, ReadStep DEF RxAligned, Streamed
  <1> DEFINE n == 8 - byteIndex
  <1>4. /\ n \in 0..7 /\ n \in 0..Len(SampleBytes) /\ n \in 0..(Len(SampleBytes) - 1)
        /\ 1 \in 1..(n + 1) /\ SampleBytes \in Seq(Bytes)
    BY <1>3, SamplesAre
  <1>5. Len(captured) # 8
    BY <1>2, <1>4, PrefixLen
  <1>6. /\ stream' = stream /\ dataValid' = FALSE /\ data' = data
        /\ captured' = IF o_rd_data_byte_valid THEN captured \o rxData ELSE captured
    BY <1>2, <1>5 DEF Stream, streamWaitGroup, streamWaitValid, streamDone
  <1>7. o_rd_data_byte_valid <=> rxData # << >>
    BY Outputs
  <1>8. CASE rxData = << >>
    <2>1. byteIndex' = byteIndex
      BY <1>3, <1>8
    <2> QED
      BY <1>2, <1>6, <1>7, <1>8, <2>1
  <1>9. CASE rxData # << >>
    <2>1. Len(rxData) = 1
      <3>1. Len(rxData) # 0
        BY <1>3, <1>9, EmptySeq
      <3> QED
        BY <1>3, <3>1
    <2>2. rxData = SubSeq(SampleBytes, n + 1, n + 1)
      <3>1. rxData = SubSeq(SampleBytes, 9 - byteIndex, 8 - byteIndex + Len(rxData))
        BY DEF Streamed
      <3>2. 9 - byteIndex = n + 1 /\ 8 - byteIndex + Len(rxData) = n + 1
        BY <1>3, <2>1
      <3> QED
        BY <3>1, <3>2, Zenon
    <2>3. rxData = <<SampleBytes[n + 1]>>
      <3>1. n + 1 \in 1..Len(SampleBytes) /\ n + 1 \in 1..(n + 1) /\ n + 1 \in (n + 1)..(n + 1)
        BY <1>4
      <3>2. Head(rxData) = SampleBytes[n + 1]
        BY <1>4, <2>2, <3>1, PartTake
      <3>3. \A q \in Seq(Bytes) : Len(q) = 1 => q = <<Head(q)>>
        <4> SUFFICES ASSUME NEW q \in Seq(Bytes), Len(q) = 1
                     PROVE  q = <<Head(q)>>
          OBVIOUS
        <4>1. q[1] \in Bytes
          BY ElementOfSeq
        <4>2. <<Head(q)>> \in Seq(Bytes) /\ Len(<<Head(q)>>) = 1 /\ <<Head(q)>>[1] = q[1]
          BY <4>1
        <4> QED
          BY <4>2, SeqEqual
      <3> QED
        BY <1>3, <2>1, <3>2, <3>3, Zenon
    <2>4. captured' = SubSeq(SampleBytes, 1, n) \o <<SampleBytes[n + 1]>>
      BY <1>2, <1>6, <1>7, <1>9, <2>3
    <2>5. captured' = SubSeq(SampleBytes, 1, n + 1)
      BY <1>4, <2>4, PartExtend
    <2>6. 8 - byteIndex' = n + 1
      BY <1>3, <2>1
    <2> QED
      BY <1>2, <1>6, <2>5, <2>6
  <1> QED
    BY <1>8, <1>9

LEMMA CollectedKept ==
  ASSUME drv \in States, TxAligned, RxAligned, Streamed, Collected, Driver, Stream,
         stream \in {"WAIT_GROUP", "WAIT_VALID", "DONE_CYCLE"}
  PROVE  Collected' /\ stream' \in {"WAIT_GROUP", "WAIT_VALID", "DONE_CYCLE"}
  <1> USE DEF Quiet
  <1>1. /\ data \in {<< >>, SampleBytes} /\ dataValid \in BOOLEAN
        /\ stream = "WAIT_GROUP" => captured \in {<< >>, SampleBytes}
        /\ SampleBytes' = SampleBytes
    BY DEF Collected, SampleBytes, Byte
  <1>2. SubSeq(SampleBytes, 1, 8) = SampleBytes /\ SubSeq(SampleBytes, 1, 0) = << >>
        /\ Len(SampleBytes) = 8 /\ Len(<< >>) = 0
    BY SamplesAre, SubSeqFull, PartEmpty
  <1>3. CASE Op \in DataOps
    <2>1. Op \in ReadOps /\ Op \in Ops /\ ReadLen(Op) = 8
      BY <1>3, Lengths DEF ReadOps, Ops
    <2>2. At \in {"CMD", "ADDR", "DATA", "WAIT"}
      BY <1>3, QuietOps, Where, Zenon DEF At, Op
    <2>3. CASE At = "CMD"
      <3>1. stream = "WAIT_GROUP" /\ o_rd_data_group_valid
        BY <1>3, <2>3 DEF Collected, o_rd_data_group_valid
      <3>2. stream' = "WAIT_VALID" /\ captured' = << >> /\ dataValid' = FALSE /\ data' = data
        BY <3>1 DEF Stream, streamWaitGroup, streamWaitValid, streamDone
      <3>3. At' = "ADDR" /\ Op' = Op
        BY <2>3, TransferStep, WhereNext DEF drvCommand
      <3> QED
        BY <1>1, <1>3, <3>2, <3>3 DEF Collected
    <2>4. CASE At = "ADDR"
      <3>1. stream = "WAIT_VALID" /\ captured = << >> /\ ~o_rd_data_byte_valid
        BY <1>3, <2>4, Outputs DEF Collected
      <3>2. stream' = "WAIT_VALID" /\ captured' = << >> /\ dataValid' = FALSE /\ data' = data
        BY <1>2, <3>1 DEF Stream, streamWaitGroup, streamWaitValid, streamDone
      <3>3. At' = "DATA" /\ Op' = Op /\ byteIndex' = 8
        BY <2>1, <2>4, TransferStep, WhereNext DEF drvAddress
      <3>4. captured' = SubSeq(SampleBytes, 1, 8 - byteIndex')
        BY <1>2, <3>2, <3>3
      <3> QED
        BY <1>1, <1>3, <3>2, <3>3, <3>4 DEF Collected
    <2>5. CASE At = "DATA"
      <3>1. /\ stream' = "WAIT_VALID" /\ dataValid' = FALSE /\ data' = data
            /\ captured' = SubSeq(SampleBytes, 1, 8 - byteIndex')
        BY <1>3, <2>5, Captures
      <3>2. \/ At' = "DATA" /\ Op' = Op
            \/ At' = "WAIT" /\ Op' = Op /\ byteIndex' = 0
        BY <2>1, <2>5, ReadStep DEF Reading
      <3>3. At' = "WAIT" => captured' = SampleBytes
        BY <1>2, <3>1, <3>2
      <3> QED
        BY <1>1, <1>3, <3>1, <3>2, <3>3 DEF Collected
    <2>6. CASE At = "WAIT"
      <3>1. /\ stream \in {"WAIT_VALID", "DONE_CYCLE"} /\ captured = SampleBytes
            /\ o_rd_data_group_valid
        BY <1>3, <2>6 DEF Collected, o_rd_data_group_valid
      <3>2. stream' = "DONE_CYCLE" /\ captured' = SampleBytes /\ dataValid' = FALSE /\ data' = data
        BY <1>2, <3>1 DEF Stream, streamWaitGroup, streamWaitValid, streamDone
      <3>3. \/ At' = "WAIT" /\ Op' = Op
            \/ drv' = After(Op)
        BY <2>6, TransferNext DEF InTransfer, Reading
      <3>4. CASE At' = "WAIT" /\ Op' = Op
        BY <1>1, <1>3, <3>2, <3>4 DEF Collected
      <3>5. CASE drv' = After(Op)
        <4>1. After(Op) \in {<<"CMD", "CLEAR_MEASU">>, <<"CMD", "CLEAR_AWAKE0">>, <<"CMD", "CLEAR_AWAKE1">>}
          BY <1>3 DEF After, DataOps
        <4>2. At' = "CMD" /\ Op' \in ClearOps
          BY <3>5, <4>1, WhereNext DEF ClearOps
        <4>3. Op' \notin DataOps
          BY <4>2 DEF ClearOps, DataOps
        <4> QED
          BY <1>1, <3>2, <4>2, <4>3 DEF Collected
      <3> QED
        BY <3>3, <3>4, <3>5
    <2> QED
      BY <2>2, <2>3, <2>4, <2>5, <2>6
  <1>4. CASE Op \notin DataOps
    <2>1. ~o_rd_data_group_valid
      BY <1>4 DEF o_rd_data_group_valid
    <2>2. /\ stream' = "WAIT_GROUP" /\ captured' \in {<< >>, SampleBytes}
          /\ dataValid' \in BOOLEAN /\ data' \in {<< >>, SampleBytes}
      <3>1. CASE stream = "WAIT_GROUP"
        BY <1>1, <2>1, <3>1 DEF Stream, streamWaitGroup, streamWaitValid, streamDone
      <3>2. CASE stream = "DONE_CYCLE" /\ captured = SampleBytes
        BY <1>1, <2>1, <3>2 DEF Stream, streamWaitGroup, streamWaitValid, streamDone
      <3> QED
        BY <1>4, <3>1, <3>2 DEF Collected
    <2>3. Op' \in DataOps => At' = "CMD"
      BY <1>4, NewGroup
    <2> QED
      BY <1>1, <2>2, <2>3 DEF Collected
  <1> QED
    BY <1>3, <1>4

-----------------------------------------------------------------------------
(* What a frame does to the sensor.                                        *)

LEMMA FramesDiffer ==
  ASSUME NEW op \in WriteOps, NEW o \in WriteOps, NEW v, NEW w,
         WriteFrame(op, v) = WriteFrame(o, w)
  PROVE  op = o /\ v = w
  <1>1. Byte(op, 0) = Byte(o, 0)
    BY WriteFrameIs
  <1>2. op = o
    BY <1>1 DEF Byte
  <1>3. 1 \in 1..WriteLen(op)
    BY Lengths DEF Ops
  <1>4. Byte(v, WriteLen(op) + 1 - 1) = Byte(w, WriteLen(op) + 1 - 1)
    <2>1. WriteFrame(op, v)[2 + 1] = Byte(v, WriteLen(op) + 1 - 1)
      BY <1>3, WriteFrameIs, Zenon
    <2>2. WriteFrame(o, w)[2 + 1] = Byte(w, WriteLen(op) + 1 - 1)
      BY <1>2, <1>3, WriteFrameIs, Zenon
    <2> QED
      BY <2>1, <2>2, Zenon
  <1>5. v = w
    BY <1>4 DEF Byte
  <1> QED
    BY <1>2, <1>5

(* The sensor after a reset.                                               *)
LEMMA DefaultType ==
  /\ SensorDefault \in SensorType
  /\ [SensorDefault EXCEPT !.busy = TRUE] \in SensorType
  <1> DEFINE conf == [op \in CfgOps |-> "reset"]
  <1>1. conf \in [CfgOps -> Values \cup {"reset", "mixed"}]
    OBVIOUS
  <1>2. {} \in Status
    BY DEF Status
  <1>3. SensorDefault = [conf |-> conf, busy |-> FALSE, status |-> {}]
    BY DEF SensorDefault
  <1> HIDE DEF conf
  <1>4. [SensorDefault EXCEPT !.busy = TRUE] = [conf |-> conf, busy |-> TRUE, status |-> {}]
    <2>1. ASSUME NEW c, NEW s, NEW b, NEW d
          PROVE  [[conf |-> c, busy |-> b, status |-> s] EXCEPT !.busy = d]
                    = [conf |-> c, busy |-> d, status |-> s]
      OBVIOUS
    <2>2. [[conf |-> conf, busy |-> FALSE, status |-> {}] EXCEPT !.busy = TRUE]
                    = [conf |-> conf, busy |-> TRUE, status |-> {}]
      BY <2>1
    <2> QED
      BY <1>3, <2>2
  <1>5. ASSUME NEW b \in BOOLEAN
        PROVE  [conf |-> conf, busy |-> b, status |-> {}] \in SensorType
    BY <1>1, <1>2 DEF SensorType
  <1> QED
    BY <1>3, <1>4, <1>5, Zenon

(* Whatever arrives, cut off or not.                                       *)
LEMMA AfterFrameType ==
  ASSUME NEW s \in SensorType, NEW f
  PROVE  AfterFrame(s, f) \in SensorType
  <1> DEFINE Cut(op) == \E v \in Values : IsPrefix(f, WriteFrame(op, v))
             Spared(op) == Len(f) <= 2 \/ IsPrefix(f, SoftReset) \/ \E o \in CfgOps \ {op} : Cut(o)
             Written(op) == {v \in Values : f = WriteFrame(op, v)}
             conf == [op \in CfgOps |-> IF Written(op) # {} THEN CHOOSE v \in Values : v \in Written(op)
                                        ELSE IF Spared(op) THEN s.conf[op] ELSE "mixed"]
  <1>1. s = [conf |-> s.conf, busy |-> s.busy, status |-> s.status]
        /\ s.conf \in [CfgOps -> Values \cup {"reset", "mixed"}]
        /\ s.busy \in BOOLEAN /\ s.status \in Status
    BY DEF SensorType
  <1>2. \A op \in CfgOps : conf[op] \in Values \cup {"reset", "mixed"}
    <2> TAKE op \in CfgOps
    <2>1. CASE Written(op) # {}
      <3>1. PICK v \in Values : v \in Written(op)
        BY <2>1
      <3>2. (CHOOSE u \in Values : u \in Written(op)) \in Values
        <4> DEFINE W == Written(op)
        <4>1. \E u \in Values : u \in W
          BY <3>1
        <4> HIDE DEF W
        <4>2. (CHOOSE u \in Values : u \in W) \in Values
          BY <4>1, Zenon
        <4> QED
          BY <4>2, Zenon DEF W
      <3>3. conf[op] = CHOOSE u \in Values : u \in Written(op)
        BY <2>1
      <3> QED
        BY <3>2, <3>3
    <2>2. CASE Written(op) = {}
      <3>1. conf[op] = s.conf[op] \/ conf[op] = "mixed"
        <4> DEFINE sp == Spared(op)
                   wr == Written(op)
        <4>1. conf[op] = IF wr # {} THEN CHOOSE v \in Values : v \in wr
                         ELSE IF sp THEN s.conf[op] ELSE "mixed"
          OBVIOUS
        <4>2. wr = {}
          BY <2>2
        <4> HIDE DEF sp, wr, conf
        <4> QED
          BY <4>1, <4>2
      <3> QED
        BY <1>1, <3>1, Zenon
    <2> QED
      BY <2>1, <2>2
  <1>3. conf \in [CfgOps -> Values \cup {"reset", "mixed"}]
    <2>1. conf = [op \in CfgOps |-> conf[op]]
      OBVIOUS
    <2> HIDE DEF conf
    <2> QED
      BY <1>2, <2>1
  <1>4. CASE s.busy \/ f[1] = Byte("read", 0)
    BY <1>4 DEF AfterFrame
  <1>5. CASE ~(s.busy \/ f[1] = Byte("read", 0)) /\ f = SoftReset
    <2>1. AfterFrame(s, f) = [SensorDefault EXCEPT !.busy = TRUE]
      BY <1>5 DEF AfterFrame
    <2>2. [SensorDefault EXCEPT !.busy = TRUE] \in SensorType
      BY DefaultType
    <2> QED
      BY <2>1, <2>2
  <1>6. CASE ~(s.busy \/ f[1] = Byte("read", 0)) /\ f # SoftReset
    <2>1. AfterFrame(s, f) = [s EXCEPT !.conf = conf]
      BY <1>6, Zenon DEF AfterFrame
    <2> HIDE DEF conf
    <2>2. [s EXCEPT !.conf = conf] = [conf |-> conf, busy |-> s.busy, status |-> s.status]
      BY <1>1
    <2> QED
      BY <1>1, <1>3, <2>1, <2>2 DEF SensorType
  <1> QED
    BY <1>4, <1>5, <1>6

(* A complete write to a group sets this group and no other.               *)
LEMMA WholeWrite ==
  ASSUME NEW s \in SensorType, ~s.busy, NEW op \in CfgOps, NEW v \in Values,
         NEW t, t = AfterFrame(s, WriteFrame(op, v))
  PROVE  /\ ~t.busy
         /\ t.conf[op] = v
         /\ \A o \in CfgOps \ {op} : t.conf[o] = s.conf[o]
  <1> DEFINE f == WriteFrame(op, v)
             Cut(o) == \E u \in Values : IsPrefix(f, WriteFrame(o, u))
             Spared(o) == Len(f) <= 2 \/ IsPrefix(f, SoftReset) \/ \E p \in CfgOps \ {o} : Cut(p)
             Written(o) == {u \in Values : f = WriteFrame(o, u)}
             conf == [o \in CfgOps |-> IF Written(o) # {} THEN CHOOSE u \in Values : u \in Written(o)
                                       ELSE IF Spared(o) THEN s.conf[o] ELSE "mixed"]
  <1>1. op \in WriteOps /\ "SOFTRESET" \in WriteOps /\ "SOFTRESET" # op
        /\ \A o \in CfgOps : o \in WriteOps
    BY DEF WriteOps, CfgOps
  <1>2. f[1] # Byte("read", 0)
    <2>1. f[1] = Byte("write", 0)
      BY <1>1, WriteFrameIs, Zenon
    <2>2. Byte("write", 0) # Byte("read", 0)
      BY DEF Byte
    <2> QED
      BY <2>1, <2>2, Zenon
  <1>3. f # SoftReset
    BY <1>1, FramesDiffer DEF SoftReset
  <1>4. AfterFrame(s, f) = [s EXCEPT !.conf = conf]
    BY <1>2, <1>3, Zenon DEF AfterFrame
  <1>5. Written(op) = {v}
    BY <1>1, FramesDiffer
  <1>6. conf[op] = v
    BY <1>5
  <1>7. ASSUME NEW o \in CfgOps \ {op}
        PROVE  conf[o] = s.conf[o]
    <2>1. Written(o) = {}
      BY <1>1, <1>7, FramesDiffer
    <2>2. Cut(op)
      <3>1. Len(f) \in Nat /\ f = SubSeq(f, 1, Len(f))
        BY <1>1, WriteFrameIs, LenProperties, SubSeqFull
      <3>2. IsPrefix(f, f)
        BY <3>1 DEF IsPrefix
      <3> QED
        BY <3>2
    <2>3. Spared(o)
      BY <1>7, <2>2
    <2> QED
      BY <1>7, <2>1, <2>3
  <1>8. s = [conf |-> s.conf, busy |-> s.busy, status |-> s.status]
    BY DEF SensorType
  <1>9. t.busy = s.busy /\ t.conf = conf
    <2>1. t = [s EXCEPT !.conf = conf]
      BY <1>4, Zenon
    <2> HIDE DEF conf, f
    <2> QED
      BY <1>8, <2>1
  <1> QED
    BY <1>6, <1>7, <1>9, Zenon

-----------------------------------------------------------------------------
(* The registers of the sensor follow the driver.                          *)

LEMMA ContentsType ==
  ASSUME NEW op \in CfgOps, NEW c \in Tables
  PROVE  Contents(op, c) \in Values
  BY DEF CfgOps, Contents, Values

(* A step of the sensor of its own.                                        *)
LEMMA SensorAlone ==
  ASSUME sensor \in SensorType, SensorStep
  PROVE  /\ sensor' \in SensorType /\ sensor'.conf = sensor.conf
         /\ sensor'.busy => sensor.busy
  <1>1. /\ sensor = [conf |-> sensor.conf, busy |-> sensor.busy, status |-> sensor.status]
        /\ sensor.conf \in [CfgOps -> Values \cup {"reset", "mixed"}]
        /\ sensor.busy \in BOOLEAN /\ sensor.status \in Status
    BY DEF SensorType
  <1>2. CASE sensor' = sensor
    BY <1>2
  <1>3. CASE sensor.busy /\ sensor' = [sensor EXCEPT !.busy = FALSE]
    <2>1. sensor' = [conf |-> sensor.conf, busy |-> FALSE, status |-> sensor.status]
      BY <1>1, <1>3
    <2> QED
      BY <1>1, <2>1 DEF SensorType
  <1>4. ASSUME NEW event \in {"DATA_READY", "ACT", "INACT"},
               sensor' = [sensor EXCEPT !.status = @ \cup {event}]
        PROVE  /\ sensor' \in SensorType /\ sensor'.conf = sensor.conf
               /\ sensor'.busy => sensor.busy
    <2>1. sensor' = [conf |-> sensor.conf, busy |-> sensor.busy, status |-> sensor.status \cup {event}]
      BY <1>1, <1>4
    <2>2. sensor.status \cup {event} \in Status
      BY <1>1 DEF Status
    <2> HIDE DEF Status
    <2> QED
      BY <1>1, <2>1, <2>2 DEF SensorType
  <1> QED
    BY <1>2, <1>3, <1>4 DEF SensorStep

(* Where the bus stops, a whole frame has been sent.                       *)
LEMMA WholeFrame ==
  ASSUME drv \in States, TxAligned, BusStop
  PROVE  InTransfer /\ Op \in Ops /\ frame = FrameOf(Op, cfg)
  <1>1. job.busy /\ job.tx = 0
    BY DEF BusStop, SpiStop
  <1>2. InTransfer
    BY <1>1 DEF TxAligned
  <1>3. Op \in Ops
    BY <1>2, Where, Zenon DEF InTransfer, Reading
  <1>4. frame = SubSeq(FrameOf(Op, cfg), 1, FrameLen(Op) - 0)
    BY <1>1, <1>2 DEF TxAligned
  <1>5. /\ FrameOf(Op, cfg) \in Seq(FrameBytes(Op, cfg))
        /\ Len(FrameOf(Op, cfg)) = FrameLen(Op) /\ FrameLen(Op) - 0 = FrameLen(Op)
    BY <1>3, FrameIs
  <1> QED
    BY <1>2, <1>3, <1>4, <1>5, SubSeqFull

(* The registers change only with the last byte of a write.                *)
LEMMA SensorNext ==
  ASSUME drv \in States, TxAligned, Configured, Bus
  PROVE  /\ sensor' \in SensorType
         /\ \/ /\ sensor'.conf = sensor.conf
               /\ sensor'.busy => sensor.busy
               /\ job.busy /\ ~job'.busy => Op \in ReadOps
            \/ /\ At = "WAIT" /\ job.busy /\ ~job'.busy /\ Op = "SOFTRESET"
            \/ /\ At = "WAIT" /\ job.busy /\ ~job'.busy /\ Op \in CfgOps
               /\ ~sensor'.busy
               /\ sensor'.conf[Op] = Contents(Op, cfg)
               /\ \A o \in CfgOps \ {Op} : sensor'.conf[o] = sensor.conf[o]
  <1>1. sensor \in SensorType /\ job \in Jobs
    BY DEF Configured, TxAligned
  <1>2. CASE BusHold
    <2>1. /\ sensor' \in SensorType /\ sensor'.conf = sensor.conf
          /\ sensor'.busy => sensor.busy
      BY <1>1, <1>2, SensorAlone DEF BusHold
    <2>2. job' = job \/ job'.busy
      BY <1>2 DEF BusHold, SpiHold
    <2> QED
      BY <2>1, <2>2
  <1>3. CASE BusSend
    <2>1. sensor' = sensor /\ job' = [job EXCEPT !.tx = @ - 1] /\ job.busy
      BY <1>3 DEF BusSend, SpiSend
    <2>2. job'.busy
      BY <1>1, <2>1, JobIs
    <2> QED
      BY <1>1, <2>1, <2>2
  <1>4. CASE BusReceive
    <2>1. sensor' = [sensor EXCEPT !.status = @ \ Cleared] /\ job' = [job EXCEPT !.rx = @ - 1] /\ job.busy
      BY <1>4 DEF BusReceive, SpiReceive
    <2>2. job'.busy
      BY <1>1, <2>1, JobIs
    <2>3. /\ sensor = [conf |-> sensor.conf, busy |-> sensor.busy, status |-> sensor.status]
          /\ sensor.conf \in [CfgOps -> Values \cup {"reset", "mixed"}]
          /\ sensor.busy \in BOOLEAN /\ sensor.status \in Status
      BY <1>1 DEF SensorType
    <2>4. sensor' = [conf |-> sensor.conf, busy |-> sensor.busy, status |-> sensor.status \ Cleared]
      BY <2>1, <2>3
    <2>5. sensor.status \ Cleared \in Status
      BY <2>3 DEF Status
    <2>6. sensor' \in SensorType
      BY <2>3, <2>4, <2>5 DEF SensorType
    <2> QED
      BY <2>2, <2>4, <2>6
  <1>5. CASE BusStop
    <2>1. InTransfer /\ Op \in Ops /\ frame = FrameOf(Op, cfg)
      BY <1>5, WholeFrame
    <2>2. job.busy /\ ~job'.busy /\ sensor' = AfterFrame(sensor, frame)
      BY <1>5 DEF BusStop, SpiStop, NoJob
    <2>3. sensor' \in SensorType
      BY <1>1, <2>2, AfterFrameType
    <2>4. CASE Op \in ReadOps
      <3>1. frame[1] = Byte("read", 0)
        <4>1. frame[1] = Command(Op)
          BY <2>1, FrameIs
        <4> QED
          BY <2>4, <4>1 DEF Command
      <3>2. sensor' = sensor
        BY <2>2, <3>1, Zenon DEF AfterFrame
      <3> QED
        BY <2>3, <2>4, <3>2
    <2>5. CASE Op \notin ReadOps
      <3>1. At = "WAIT" /\ Op \in WriteOps
        BY <2>1, <2>5, Lengths DEF InTransfer, Reading
      <3>2. CASE Op = "SOFTRESET"
        BY <2>2, <2>3, <3>1, <3>2
      <3>3. CASE Op \in CfgOps
        <4>1. ~sensor.busy
          BY <2>2, <3>1 DEF Configured
        <4>2. Contents(Op, cfg) \in Values
          BY <3>1, <3>3, ContentsType DEF Configured
        <4>3. sensor' = AfterFrame(sensor, WriteFrame(Op, Contents(Op, cfg)))
          BY <2>1, <2>2, <3>1 DEF FrameOf
        <4> DEFINE v == Contents(Op, cfg)
                   t == sensor'
        <4> HIDE DEF v, t
        <4>4. ~t.busy /\ t.conf[Op] = v /\ \A o \in CfgOps \ {Op} : t.conf[o] = sensor.conf[o]
          BY <1>1, <3>3, <4>1, <4>2, <4>3, WholeWrite DEF v, t
        <4> QED
          BY <2>2, <2>3, <3>1, <3>3, <4>4 DEF v, t
      <3> QED
        BY <3>1, <3>2, <3>3 DEF WriteOps
    <2> QED
      BY <2>4, <2>5
  <1> QED
    BY <1>2, <1>3, <1>4, <1>5 DEF Bus, BusMoves

LEMMA BeforeIs ==
  ASSUME NEW op \in CfgOps
  PROVE  Before(op) \subseteq CfgOps
  BY DEF Before, CfgOps

LEMMA OpsOf ==
  /\ \A op \in ReadOps : op \notin CfgOps /\ op # "SOFTRESET"
  /\ "SOFTRESET" \notin CfgOps
  BY DEF ReadOps, DataOps, ClearOps, CfgOps

(* Outside a configuration all groups are written.                         *)
LEMMA DoneIs ==
  /\ Done \subseteq CfgOps
  /\ At \notin {"BOOT0", "IDLE0", "INIT"} /\ Op \notin CfgOps /\ Op # "SOFTRESET" => Done = CfgOps
  BY BeforeIs DEF Done

LEMMA DoneNextIs ==
  /\ Done' \subseteq CfgOps
  /\ At' \in {"BOOT0", "IDLE0", "INIT"} \/ Op' = "SOFTRESET" => Done' = {}
  /\ Op' \in CfgOps /\ ~(At' = "WAIT" /\ ~job'.busy) => Done' \subseteq Before(Op')
  /\ Op' \in CfgOps => Done' \subseteq Before(Op') \cup {Op'}
  <1>1. Done' = IF At' \in {"BOOT0", "IDLE0", "INIT"} \/ Op' = "SOFTRESET" THEN {}
                ELSE IF Op' \in CfgOps
                THEN Before(Op') \cup (IF At' = "WAIT" /\ ~job'.busy THEN {Op'} ELSE {})
                ELSE CfgOps
    BY DEF Done
  <1>2. "SOFTRESET" \notin CfgOps
    BY OpsOf
  <1> DEFINE d == Done'
             a == At'
             o == Op'
  <1>3. Op' \in CfgOps => Before(Op') \subseteq CfgOps
    <2>1. \A op \in CfgOps : Before(op) \subseteq CfgOps
      BY BeforeIs
    <2> QED
      BY <2>1, Zenon
  <1>4. At' \in {"BOOT0", "IDLE0", "INIT"} \/ Op' = "SOFTRESET" => Done' = {}
    BY <1>1, <1>2
  <1>5. ~(At' \in {"BOOT0", "IDLE0", "INIT"} \/ Op' = "SOFTRESET") /\ Op' \in CfgOps =>
           Done' = Before(Op') \cup (IF At' = "WAIT" /\ ~job'.busy THEN {Op'} ELSE {})
    BY <1>1, <1>2, Zenon
  <1>6. ~(At' \in {"BOOT0", "IDLE0", "INIT"} \/ Op' = "SOFTRESET") /\ Op' \notin CfgOps =>
           Done' = CfgOps
    BY <1>1, <1>2
  <1> HIDE DEF d, a, o
  <1> QED
    BY <1>3, <1>4, <1>5, <1>6

(* The end of a write leads to the next group; all groups precede IDLE1.   *)
LEMMA AfterWrite ==
  ASSUME NEW op \in Ops, NEW d, d = After(op)
  PROVE  /\ op \in CfgOps \ {"CFG5"} =>
               d[1] = "CMD" /\ d[2] \in CfgOps /\ Before(d[2]) = Before(op) \cup {op}
         /\ op = "CFG5" => d = <<"IDLE1", "">> /\ CfgOps = Before(op) \cup {op}
         /\ op = "SOFTRESET" => d = <<"BOOT0", "">>
         /\ d[1] = "BOOT0" => op = "SOFTRESET"
         /\ d[1] \notin {"IDLE0", "INIT"}
  BY Zenon DEF After, Before, CfgOps, Ops, ReadOps, DataOps, ClearOps, WriteOps

(* What the driver takes for written, from one clock to the next.          *)
LEMMA DoneNext ==
  ASSUME drv \in States, TxAligned, RxAligned, Driver, Bus
  PROVE  \/ Done' = {}
         \/ /\ cfg' = cfg /\ Done' \subseteq Done
            /\ ~(At = "WAIT" /\ job.busy /\ ~job'.busy)
         \/ /\ cfg' = cfg /\ Done' \subseteq Done \cup {Op}
            /\ At = "WAIT" /\ job.busy /\ ~job'.busy /\ Op \in CfgOps
         \/ cfg' = cfg /\ Done' \subseteq Done /\ Op \in ReadOps
  <1> USE DEF Quiet
  <1>1. CASE At \in {"BOOT0", "IDLE0", "INIT"}
    <2>1. \/ drv' = drv \/ drv' = <<"IDLE0", "">> \/ drv' = <<"CMD", "CFG0">>
          \/ \E m : drv' = <<"INIT", m>>
      BY <1>1, Zenon DEF Driver, drvBoot, drvIdle0, drvInit, drvCommand, drvAddress, drvWriteData,
         drvReadData, drvWait, drvCheck, drvIdle1, drvInterrupt
    <2>2. CASE drv' = drv
      BY <1>1, <2>2, DoneNextIs DEF At
    <2>3. CASE drv' = <<"CMD", "CFG0">>
      <3>1. At' = "CMD" /\ Op' = "CFG0"
        BY <2>3, WhereNext
      <3>2. Before("CFG0") = {} /\ "CFG0" \in CfgOps
        BY DEF Before, CfgOps
      <3> QED
        BY <3>1, <3>2, DoneNextIs
    <2>4. CASE drv' = <<"IDLE0", "">> \/ \E m : drv' = <<"INIT", m>>
      <3>1. At' \in {"IDLE0", "INIT"}
        BY <2>4, WhereNext, Zenon
      <3> QED
        BY <3>1, DoneNextIs
    <2> QED
      BY <2>1, <2>2, <2>3, <2>4, Zenon
  <1>2. CASE At \in {"IDLE1", "CHECK", "INT"}
    <2>1. Op \notin CfgOps /\ Op # "SOFTRESET"
      BY <1>2, Where, Zenon DEF ClearOps, CfgOps
    <2>2. cfg' = cfg
      BY <1>2, Zenon DEF Driver, drvBoot, drvIdle0, drvInit, drvCommand, drvAddress, drvWriteData,
         drvReadData, drvWait, drvCheck, drvIdle1, drvInterrupt
    <2> QED
      BY <1>2, <2>1, <2>2, DoneIs, DoneNextIs
  <1>3. CASE At \in {"CMD", "ADDR"} \/ (At = "DATA" /\ Op \in WriteOps)
    <2>1. /\ cfg' = cfg /\ Op \in Ops
          /\ \/ drv' = <<"ADDR", Op>> \/ drv' = <<"DATA", Op>>
             \/ drv' = drv \/ (drv' = <<"WAIT", Op>> /\ At = "DATA" /\ byteIndex <= 1)
      <3>1. drvCommand \/ drvAddress \/ drvWriteData
        BY <1>3, TransferStep
      <3> QED
        BY <1>3, <3>1, Where, Zenon DEF drvCommand, drvAddress, drvWriteData
    <2>2. Op' = Op /\ (At' = "WAIT" => At = "DATA" /\ Op \in WriteOps /\ byteIndex <= 1)
      BY <1>3, <2>1, WhereNext DEF At, Op
    <2>3. At' = "WAIT" => job'.busy
      <3> SUFFICES ASSUME At' = "WAIT" PROVE job'.busy
        OBVIOUS
      <3>1. ~Reading /\ ~InTransfer
        BY <2>1, <2>2, Lengths DEF Reading, InTransfer
      <3>2. ~job.busy
        BY <3>1 DEF TxAligned
      <3>3. o_go_stand = Transfer(FrameLen(Op), 0)
        BY <2>2, Outputs
      <3> QED
        BY <3>2, <3>3, BusHolds DEF Transfer
    <2>4. CASE Op = "SOFTRESET"
      BY <2>2, <2>4, DoneNextIs
    <2>5. CASE Op \in CfgOps
      <3>1. Done' \subseteq Before(Op)
        BY <2>2, <2>3, <2>5, DoneNextIs
      <3>2. Before(Op) \subseteq Done
        BY <1>3, <2>5, OpsOf DEF Done
      <3> QED
        BY <1>3, <2>1, <3>1, <3>2
    <2>6. CASE Op \notin CfgOps /\ Op # "SOFTRESET"
      BY <1>3, <2>1, <2>6, DoneIs, DoneNextIs
    <2> QED
      BY <2>4, <2>5, <2>6
  <1>4. CASE Reading
    <2>1. cfg' = cfg
      BY <1>4, TransferNext DEF InTransfer
    <2>2. Op \in ReadOps /\ At = "DATA" /\ Op \notin CfgOps /\ Op # "SOFTRESET"
      BY <1>4, OpsOf DEF Reading
    <2> QED
      BY <2>1, <2>2, DoneIs, DoneNextIs
  <1>5. CASE At = "WAIT"
    <2>1. cfg' = cfg /\ Op \in Ops /\ drvWait
      BY <1>5, Where, TransferStep DEF drvWait
    <2>2. CASE Op = "SOFTRESET"
      <3>1. drv' = drv \/ drv' = <<"BOOT0", "">>
        BY <2>1, <2>2, AfterWrite, Zenon DEF drvWait
      <3>2. Op' = "SOFTRESET" \/ At' = "BOOT0"
        BY <2>2, <3>1, WhereNext, Zenon DEF Op
      <3> QED
        BY <3>2, DoneNextIs
    <2>3. CASE Op \in CfgOps /\ job.busy
      <3>1. At' = At /\ Op' = Op
        BY <2>1, <2>3 DEF drvWait, o_spi_idle, At, Op
      <3>2. Done = Before(Op)
        BY <1>5, <2>3, OpsOf DEF Done
      <3>3. Done' \subseteq Done \cup {Op}
        BY <2>3, <3>1, <3>2, DoneNextIs
      <3>4. job'.busy => Done' \subseteq Done
        BY <2>3, <3>1, <3>2, DoneNextIs
      <3> QED
        BY <1>5, <2>1, <2>3, <3>3, <3>4
    <2>4. CASE Op \in CfgOps /\ ~job.busy
      <3>1. drv' = After(Op)
        BY <2>1, <2>4 DEF drvWait, o_spi_idle
      <3>2. Done = Before(Op) \cup {Op}
        BY <1>5, <2>4, OpsOf DEF Done
      <3>3. CASE Op = "CFG5"
        BY <2>1, <2>4, <3>2, <3>3, AfterWrite, DoneNextIs, Zenon
      <3>4. CASE Op # "CFG5"
        <4>1. At' = "CMD" /\ Op' \in CfgOps /\ Before(Op') = Done
          BY <2>1, <2>4, <3>1, <3>2, <3>4, AfterWrite, Zenon DEF At, Op
        <4> QED
          BY <2>1, <2>4, <4>1, DoneNextIs
      <3> QED
        BY <3>3, <3>4
    <2>5. CASE Op \in ReadOps
      BY <1>5, <2>1, <2>5, OpsOf, DoneIs, DoneNextIs
    <2> QED
      BY <2>1, <2>2, <2>3, <2>4, <2>5 DEF Ops, WriteOps
  <1> QED
    BY <1>1, <1>2, <1>3, <1>4, <1>5, Where, Lengths, Zenon DEF Reading

LEMMA TableNext ==
  ASSUME drv \in States, Configured, Driver
  PROVE  /\ cfg' \in Tables \cup {"none"}
         /\ At' \notin {"BOOT0", "IDLE0", "INIT"} => cfg' \in Tables
  <1>1. cfg \in Tables \cup {"none"} /\ (At \notin {"BOOT0", "IDLE0", "INIT"} => cfg \in Tables)
    BY DEF Configured
  <1>2. CASE drvInit
    <2>1. cfg' \in Tables
      BY <1>2 DEF drvInit, Tables
    <2> QED
      BY <2>1
  <1>3. CASE ~drvInit
    <2>1. cfg' = cfg
      BY <1>3, Zenon DEF Driver, drvBoot, drvIdle0, drvCommand, drvAddress, drvWriteData,
         drvReadData, drvWait, drvCheck, drvIdle1, drvInterrupt
    <2>2. CASE At \in {"BOOT0", "IDLE0", "INIT"}
      <3>1. drvBoot \/ drvIdle0
        BY <1>3, <2>2 DEF Driver, drvCommand, drvAddress, drvWriteData,
           drvReadData, drvWait, drvCheck, drvIdle1, drvInterrupt
      <3>2. drv' = drv \/ drv' = <<"IDLE0", "">> \/ \E m : drv' = <<"INIT", m>>
        BY <3>1, Zenon DEF drvBoot, drvIdle0
      <3>3. At' \in {"BOOT0", "IDLE0", "INIT"}
        BY <2>2, <3>2, WhereNext, Zenon DEF At
      <3> QED
        BY <1>1, <2>1, <3>3
    <2>3. CASE At \notin {"BOOT0", "IDLE0", "INIT"}
      BY <1>1, <2>1, <2>3
    <2> QED
      BY <2>2, <2>3
  <1> QED
    BY <1>2, <1>3

(* The sensor has booted before the driver talks to it.                    *)
LEMMA BootNext ==
  ASSUME drv \in States, TxAligned, RxAligned, Configured, Driver, Bus
  PROVE  /\ bootTimer' \in 0..(BootTime - 1) /\ (At' # "BOOT0" => bootTimer' = 0)
         /\ sensor'.busy => \/ At' = "BOOT0" /\ bootTimer' # BootTime - 1
                            \/ drv' = <<"WAIT", "SOFTRESET">> /\ ~job'.busy
  <1>1. /\ bootTimer \in 0..(BootTime - 1) /\ (At # "BOOT0" => bootTimer = 0)
        /\ sensor \in SensorType
        /\ sensor.busy => \/ At = "BOOT0" /\ bootTimer # BootTime - 1
                          \/ drv = <<"WAIT", "SOFTRESET">> /\ ~job.busy
    BY DEF Configured
  <1>2. BootTime \in Nat /\ BootTime >= 2
    BY BootAssumption
  <1>3. CASE At = "BOOT0"
    <2>1. /\ IF bootTimer = BootTime - 1
             THEN drv' = <<"IDLE0", "">> /\ bootTimer' = 0
             ELSE drv' = drv /\ bootTimer' = bootTimer + 1
      BY <1>3, Zenon DEF Driver, drvBoot, drvIdle0, drvInit, drvCommand, drvAddress, drvWriteData,
         drvReadData, drvWait, drvCheck, drvIdle1, drvInterrupt
    <2>2. BusHold
      BY <1>3, QuietBus DEF Quiet
    <2>3. /\ sensor'.busy => sensor.busy
          /\ bootTimer = BootTime - 2 => ~sensor'.busy
      BY <1>1, <1>3, <2>2, SensorAlone DEF BusHold, BootsInTime
    <2>4. CASE bootTimer = BootTime - 1
      <3>1. At' = "IDLE0"
        BY <2>1, <2>4, WhereNext, Zenon
      <3>2. ~sensor.busy
        BY <1>1, <1>3, <2>4 DEF At
      <3>3. bootTimer' = 0
        BY <2>1, <2>4, Zenon
      <3>4. ~sensor'.busy
        BY <2>3, <3>2
      <3>5. 0 \in 0..(BootTime - 1)
        BY <1>2
      <3> QED
        BY <3>1, <3>3, <3>4, <3>5
    <2>5. CASE bootTimer # BootTime - 1
      <3>1. At' = "BOOT0" /\ bootTimer' = bootTimer + 1
        BY <1>3, <2>1, <2>5 DEF At
      <3>2. bootTimer' \in 0..(BootTime - 1) /\ (bootTimer' = BootTime - 1 => bootTimer = BootTime - 2)
        BY <1>1, <1>2, <2>5, <3>1
      <3> QED
        BY <2>3, <3>1, <3>2
    <2> QED
      BY <2>4, <2>5
  <1>4. CASE At # "BOOT0"
    <2>1. bootTimer' = 0
      BY <1>1, <1>4, Zenon DEF Driver, drvBoot, drvIdle0, drvInit, drvCommand, drvAddress, drvWriteData,
         drvReadData, drvWait, drvCheck, drvIdle1, drvInterrupt
    <2>2. 0 \in 0..(BootTime - 1) /\ 0 # BootTime - 1
      BY <1>2
    <2>3. ASSUME sensor'.busy
          PROVE  \/ At' = "BOOT0"
                 \/ drv' = <<"WAIT", "SOFTRESET">> /\ ~job'.busy
      <3>1. CASE sensor.busy
        <4>1. At = "WAIT" /\ Op = "SOFTRESET" /\ ~job.busy
          BY <1>1, <1>4, <3>1 DEF At, Op
        <4>2. drvWait
          BY <4>1, TransferStep DEF Quiet
        <4>3. drv' = After(Op)
          BY <4>1, <4>2, Zenon DEF drvWait, o_spi_idle
        <4>4. After("SOFTRESET") = <<"BOOT0", "">>
          BY Zenon DEF After, ReadOps, DataOps, ClearOps, CfgOps
        <4>5. drv' = <<"BOOT0", "">>
          BY <4>1, <4>3, <4>4, Zenon
        <4> QED
          BY <4>5, WhereNext, Zenon
      <3>2. CASE ~sensor.busy
        <4>1. At = "WAIT" /\ job.busy /\ ~job'.busy /\ Op = "SOFTRESET"
          BY <2>3, <3>2, SensorNext
        <4>2. drv' = drv
          BY <4>1, TransferStep DEF drvWait, o_spi_idle, Quiet
        <4>3. drv = <<"WAIT", "SOFTRESET">>
          BY <4>1, Where
        <4> QED
          BY <4>1, <4>2, <4>3
      <3> QED
        BY <3>1, <3>2
    <2> QED
      BY <2>1, <2>2, <2>3
  <1> QED
    BY <1>3, <1>4

LEMMA ConfiguredKept ==
  ASSUME drv \in States, TxAligned, RxAligned, Configured, Driver, Bus
  PROVE  Configured'
  <1>1. /\ sensor' \in SensorType
        /\ \/ /\ sensor'.conf = sensor.conf
              /\ sensor'.busy => sensor.busy
              /\ job.busy /\ ~job'.busy => Op \in ReadOps
           \/ /\ At = "WAIT" /\ job.busy /\ ~job'.busy /\ Op = "SOFTRESET"
           \/ /\ At = "WAIT" /\ job.busy /\ ~job'.busy /\ Op \in CfgOps
              /\ ~sensor'.busy
              /\ sensor'.conf[Op] = Contents(Op, cfg)
              /\ \A o \in CfgOps \ {Op} : sensor'.conf[o] = sensor.conf[o]
    BY SensorNext
  <1>2. \A op \in Done : sensor.conf[op] = Contents(op, cfg)
    BY DEF Configured
  <1>3. Done \subseteq CfgOps
    BY DoneIs
  <1>4. ASSUME NEW op \in Done'
        PROVE  sensor'.conf[op] = Contents(op, cfg')
    <2>1. cfg' = cfg
      BY <1>4, DoneNext
    <2>2. CASE sensor'.conf = sensor.conf /\ (job.busy /\ ~job'.busy => Op \in ReadOps)
      <3>1. op \in Done
        BY <1>4, <2>2, DoneNext, OpsOf
      <3> QED
        BY <1>2, <2>1, <2>2, <3>1
    <2>3. CASE At = "WAIT" /\ job.busy /\ ~job'.busy /\ Op = "SOFTRESET"
      BY <1>4, <2>3, DoneNext, OpsOf
    <2>4. CASE /\ At = "WAIT" /\ job.busy /\ ~job'.busy /\ Op \in CfgOps
               /\ sensor'.conf[Op] = Contents(Op, cfg)
               /\ \A o \in CfgOps \ {Op} : sensor'.conf[o] = sensor.conf[o]
      <3>1. op \in Done \cup {Op}
        BY <1>4, <2>4, DoneNext, OpsOf
      <3> QED
        BY <1>2, <1>3, <2>1, <2>4, <3>1
    <2> QED
      BY <1>1, <2>2, <2>3, <2>4
  <1>5. (\A op \in Done : sensor.conf[op] = Contents(op, cfg))'
    BY <1>4 DEF Contents
  <1>6. SensorType' = SensorType /\ Tables' = Tables
    BY DEF SensorType, Tables, Values, Status
  <1> QED
    BY <1>1, <1>5, <1>6, TableNext, BootNext DEF Configured

-----------------------------------------------------------------------------
(* The two FSMs keep pace.                                                 *)

LEMMA Ready ==
  ASSUME TxAligned
  PROVE  o_command_ready <=> At \in {"IDLE0", "IDLE1"}
  <1>1. At \in {"IDLE0", "IDLE1"} => ~InTransfer
    BY DEF InTransfer, Reading
  <1> QED
    BY <1>1 DEF TxAligned, o_command_ready, o_spi_idle

(* A transfer goes on, or its end leads to what comes after it.            *)
LEMMA OpNext ==
  ASSUME drv \in States, Driver, At \notin Quiet
  PROVE  cfg' = cfg /\ (Op' = Op \/ drv' = After(Op))
  <1>1. drvCommand \/ drvAddress \/ drvWriteData \/ drvReadData \/ drvWait
    BY Where, TransferStep, Zenon DEF Quiet
  <1>2. \/ drv' = drv \/ drv' = After(Op)
        \/ \E at : drv' = <<at, Op>>
    BY <1>1, Zenon DEF drvCommand, drvAddress, drvWriteData, drvReadData, drvWait
  <1>3. Op' = Op \/ drv' = After(Op)
    BY <1>2, WhereNext DEF Op
  <1>4. cfg' = cfg
    BY <1>1 DEF drvCommand, drvAddress, drvWriteData, drvReadData, drvWait
  <1> QED
    BY <1>3, <1>4

LEMMA AfterOps ==
  ASSUME NEW op, NEW d, d = After(op)
  PROVE  /\ op \in CfgOps => d[2] \in CfgOps \/ d[1] = "IDLE1"
         /\ op = "SOFTRESET" => d[1] = "BOOT0"
         /\ op \in MeasureLoop \ {"DR"} => d[2] \in MeasureLoop
         /\ op \in LinkedLoop \ {"AT1", "AT2"} => d[2] \in LinkedLoop
  <1> USE DEF After
  <1>1. op \in CfgOps => d[2] \in CfgOps \/ d[1] = "IDLE1"
    BY Zenon DEF CfgOps
  <1>2. op = "SOFTRESET" => d[1] = "BOOT0"
    BY Zenon
  <1>3. op \in MeasureLoop \ {"DR"} => d[2] \in MeasureLoop
    BY Zenon DEF MeasureLoop
  <1>4. op \in LinkedLoop \ {"AT1", "AT2"} => d[2] \in LinkedLoop
    BY Zenon DEF LinkedLoop
  <1> QED
    BY <1>1, <1>2, <1>3, <1>4, Zenon

LEMMA ConfigureStep ==
  ASSUME drv \in States, Driver, Op \in CfgOps
  PROVE  cfg' = cfg /\ (Op' \in CfgOps \/ At' = "IDLE1") /\ At \notin Quiet
  <1>1. At \notin Quiet
    BY Where, Zenon DEF Quiet, ClearOps, CfgOps
  <1> QED
    BY <1>1, OpNext, AfterOps DEF At, Op

LEMMA ResetStep ==
  ASSUME drv \in States, Driver, Op = "SOFTRESET"
  PROVE  (Op' = "SOFTRESET" \/ At' = "BOOT0") /\ At \notin Quiet
  <1>1. At \notin Quiet
    BY Where DEF Quiet, ClearOps
  <1> QED
    BY <1>1, OpNext, AfterOps DEF At, Op

LEMMA LoopStep ==
  ASSUME drv \in States, Driver, Op \in MeasureLoop \cup LinkedLoop
  PROVE  /\ cfg' = cfg /\ At \notin {"BOOT0", "IDLE0", "INIT", "IDLE1"}
         /\ \/ Op \in MeasureLoop /\ Op' \in MeasureLoop
            \/ Op \in LinkedLoop /\ Op' \in LinkedLoop
            \/ o_cmd_soft_reset /\ Op' = "SOFTRESET"
  <1>1. At \notin {"BOOT0", "IDLE0", "INIT", "IDLE1"}
    BY Where, Zenon DEF MeasureLoop, LinkedLoop
  <1>2. CASE At \notin Quiet
    <2>1. Op \notin {"DR", "AT1", "AT2"}
      BY <1>2, Where, Zenon DEF Quiet, Ops, ReadOps, WriteOps, DataOps, ClearOps, CfgOps
    <2> QED
      BY <1>1, <1>2, <2>1, OpNext, AfterOps DEF At, Op
  <1>3. CASE At = "CHECK"
    <2>1. drvCheck
      BY <1>3 DEF Driver, drvBoot, drvIdle0, drvInit, drvCommand, drvAddress, drvWriteData,
         drvReadData, drvWait, drvIdle1, drvInterrupt
    <2>2. Op \in ClearOps
      BY <1>3, Where
    <2>3. \/ drv' = <<"CMD", Op>> \/ (Op = "CLEAR_MEASU" /\ drv' = <<"INT", "DR">>)
          \/ Op # "CLEAR_MEASU" /\ (drv' = <<"INT", "AT1">> \/ drv' = <<"INT", "AT2">>)
      BY <2>1, <2>2 DEF drvCheck, ClearOps
    <2>4. cfg' = cfg
      BY <2>1 DEF drvCheck
    <2> QED
      BY <1>1, <2>2, <2>3, <2>4, WhereNext DEF MeasureLoop, LinkedLoop, ClearOps
  <1>4. CASE At = "INT"
    <2>1. drvInterrupt
      BY <1>4 DEF Driver, drvBoot, drvIdle0, drvInit, drvCommand, drvAddress, drvWriteData,
         drvReadData, drvWait, drvCheck, drvIdle1
    <2>2. Op \in {"DR", "AT1", "AT2"}
      BY <1>4, Where
    <2>3. \/ o_cmd_soft_reset /\ drv' = <<"CMD", "SOFTRESET">>
          \/ Op = "DR" /\ (drv' = <<"CMD", "READ_MEASU">> \/ drv' = drv)
          \/ Op # "DR" /\ \/ drv' = <<"CMD", "READ_INACT0">>
                          \/ drv' = <<"CMD", "READ_ACT0">> \/ drv' = drv
      BY <2>1 DEF drvInterrupt
    <2>4. cfg' = cfg
      BY <2>1 DEF drvInterrupt
    <2>5. drv' = drv => Op' = Op
      BY DEF Op
    <2> QED
      BY <1>1, <2>2, <2>3, <2>4, <2>5, WhereNext DEF MeasureLoop, LinkedLoop
  <1> QED
    BY <1>1, <1>2, <1>3, <1>4 DEF Quiet

LEMMA BootStep ==
  ASSUME Driver, At \in {"BOOT0", "IDLE0"}, o_cmd_init = "none"
  PROVE  At' \in {"BOOT0", "IDLE0"} /\ (At = "IDLE0" => At' = "IDLE0")
  <1>1. drvBoot \/ drvIdle0
    BY Zenon DEF Driver, drvBoot, drvIdle0, drvInit, drvCommand, drvAddress, drvWriteData,
       drvReadData, drvWait, drvCheck, drvIdle1, drvInterrupt
  <1>2. drv' = drv \/ (drv' = <<"IDLE0", "">>)
    BY <1>1, Zenon DEF drvBoot, drvIdle0
  <1> QED
    BY <1>2, WhereNext, Zenon DEF At

LEMMA PacedKept ==
  ASSUME drv \in States, TxAligned, Paced, tester \in TesterStates,
         mode \in {"none", "measur", "linked"}, Tester, Driver
  PROVE  Paced' /\ tester' \in TesterStates /\ mode' \in {"none", "measur", "linked"}
  <1>1. o_command_ready <=> At \in {"IDLE0", "IDLE1"}
    BY Ready
  <1>2. /\ tester = "ST_0" => ST_0
        /\ tester \in {"ST_1", "ST_5"} => ST_init
        /\ tester \in {"ST_2", "ST_6"} => ST_configuring
        /\ tester \in {"ST_3", "ST_7"} => ST_start
        /\ tester \in {"ST_4", "ST_8"} => ST_started
        /\ tester = "ST_9" => ST_9
        /\ tester = "ST_A" => ST_A
    BY DEF Tester, ST_0, ST_init, ST_configuring, ST_start, ST_started, ST_9, ST_A
  <1>3. "CFG0" \in CfgOps
    BY DEF CfgOps
  <1>4. CASE tester = "ST_0"
    <2>1. At \in {"BOOT0", "IDLE0"} /\ o_cmd_init = "none"
      BY <1>4 DEF Paced, o_cmd_init
    <2>2. At' \in {"BOOT0", "IDLE0"} /\ (At = "IDLE0" => At' = "IDLE0")
      BY <2>1, BootStep
    <2>3. /\ mode' = mode
          /\ tester' = "ST_0" \/ (At = "IDLE0" /\ tester' \in {"ST_1", "ST_5"})
      BY <1>1, <1>2, <1>4, <2>1 DEF ST_0
    <2> QED
      BY <2>2, <2>3 DEF Paced, TesterStates
  <1>5. CASE tester \in {"ST_1", "ST_5"} /\ At = "IDLE0"
    <2>1. tester' = tester /\ mode' = IF tester = "ST_1" THEN "measur" ELSE "linked"
      BY <1>1, <1>2, <1>5 DEF ST_init
    <2>2. drv' = <<"INIT", IF tester = "ST_1" THEN "MM" ELSE "LM">>
      BY <1>5 DEF Driver, drvBoot, drvIdle0, drvInit, drvCommand, drvAddress, drvWriteData,
         drvReadData, drvWait, drvCheck, drvIdle1, drvInterrupt, o_cmd_init
    <2> QED
      BY <1>5, <2>1, <2>2 DEF Paced, TesterStates
  <1>6. CASE tester \in {"ST_1", "ST_5"} /\ At # "IDLE0"
    <2>1. At = "INIT" /\ Op = IF tester = "ST_1" THEN "MM" ELSE "LM"
      BY <1>6 DEF Paced, At, Op
    <2>2. /\ tester' = IF tester = "ST_1" THEN "ST_2" ELSE "ST_6"
          /\ mode' = IF tester = "ST_1" THEN "measur" ELSE "linked"
      BY <1>1, <1>2, <1>6, <2>1 DEF ST_init
    <2>3. drvInit
      BY <2>1 DEF Driver, drvBoot, drvIdle0, drvCommand, drvAddress, drvWriteData,
         drvReadData, drvWait, drvCheck, drvIdle1, drvInterrupt
    <2>4. Op' = "CFG0"
      BY <2>3, WhereNext DEF drvInit
    <2>5. tester = "ST_1" => cfg' = "MM"
      BY <2>1, <2>3 DEF drvInit
    <2>6. tester = "ST_5" => cfg' \in Presets
      BY <2>1, <2>3 DEF drvInit
    <2> QED
      BY <1>3, <1>6, <2>2, <2>4, <2>5, <2>6 DEF Paced, TesterStates, InMeasure, InLinked
  <1>7. CASE tester \in {"ST_2", "ST_6"} /\ At = "IDLE1"
    <2>1. tester' = (IF tester = "ST_2" THEN "ST_3" ELSE "ST_7") /\ mode' = mode
      BY <1>1, <1>2, <1>7 DEF ST_configuring
    <2>2. drv' = drv /\ cfg' = cfg
      BY <1>7 DEF Driver, drvBoot, drvIdle0, drvInit, drvCommand, drvAddress, drvWriteData,
         drvReadData, drvWait, drvCheck, drvIdle1, drvInterrupt, o_cmd_start
    <2>3. At' = "IDLE1"
      BY <1>7, <2>2 DEF At
    <2> QED
      BY <1>7, <2>1, <2>2, <2>3 DEF Paced, TesterStates, InMeasure, InLinked
  <1>8. CASE tester \in {"ST_2", "ST_6"} /\ At # "IDLE1"
    <2>1. Op \in CfgOps
      BY <1>8 DEF Paced
    <2>2. cfg' = cfg /\ (Op' \in CfgOps \/ At' = "IDLE1") /\ At \notin Quiet
      BY <2>1, ConfigureStep
    <2>3. tester' = tester /\ mode' = mode
      BY <1>1, <1>2, <1>8, <2>2 DEF ST_configuring, Quiet
    <2> QED
      BY <1>8, <2>2, <2>3 DEF Paced, TesterStates, InMeasure, InLinked
  <1>9. CASE tester \in {"ST_3", "ST_7"} /\ At = "IDLE1"
    <2>1. tester' = tester /\ mode' = mode
      BY <1>1, <1>2, <1>9 DEF ST_start
    <2>2. /\ drv' = <<"INT", IF tester = "ST_3" THEN "DR" ELSE "AT1">> /\ cfg' = cfg
      BY <1>9 DEF Driver, drvBoot, drvIdle0, drvInit, drvCommand, drvAddress, drvWriteData,
         drvReadData, drvWait, drvCheck, drvIdle1, drvInterrupt, o_cmd_start
    <2> QED
      BY <1>9, <2>1, <2>2 DEF Paced, TesterStates, InMeasure, InLinked
  <1>10. CASE tester \in {"ST_3", "ST_7"} /\ At # "IDLE1"
    <2>1. At = "INT" /\ Op = IF tester = "ST_3" THEN "DR" ELSE "AT1"
      BY <1>10 DEF Paced, At, Op
    <2>2. tester' = (IF tester = "ST_3" THEN "ST_4" ELSE "ST_8") /\ mode' = mode
      BY <1>1, <1>2, <1>10, <2>1 DEF ST_start
    <2>3. /\ cfg' = cfg
          /\ \/ Op \in MeasureLoop /\ Op' \in MeasureLoop
             \/ Op \in LinkedLoop /\ Op' \in LinkedLoop
      <3>1. Op \in MeasureLoop \cup LinkedLoop /\ ~o_cmd_soft_reset
        BY <1>10, <2>1 DEF MeasureLoop, LinkedLoop, o_cmd_soft_reset
      <3> QED
        BY <3>1, LoopStep
    <2>4. IF tester = "ST_3" THEN Op \notin LinkedLoop ELSE Op \notin MeasureLoop
      BY <1>10, <2>1 DEF MeasureLoop, LinkedLoop
    <2> QED
      BY <1>10, <2>2, <2>3, <2>4 DEF Paced, TesterStates, InMeasure, InLinked
  <1>11. CASE tester \in {"ST_4", "ST_8", "ST_9"}
    <2>1. (InMeasure /\ Op \in MeasureLoop) \/ (InLinked /\ Op \in LinkedLoop)
      BY <1>11 DEF Paced
    <2>2. tester' \in {"ST_9", "ST_A"} /\ mode' = mode
      BY <1>2, <1>11 DEF ST_started, ST_9
    <2>3. /\ cfg' = cfg
          /\ \/ Op \in MeasureLoop /\ Op' \in MeasureLoop
             \/ Op \in LinkedLoop /\ Op' \in LinkedLoop
      <3>1. Op \in MeasureLoop \cup LinkedLoop /\ ~o_cmd_soft_reset
        BY <1>11, <2>1 DEF o_cmd_soft_reset
      <3> QED
        BY <3>1, LoopStep
    <2>4. Op \in MeasureLoop => Op \notin LinkedLoop
      BY DEF MeasureLoop, LinkedLoop
    <2> QED
      BY <2>1, <2>2, <2>3, <2>4 DEF Paced, TesterStates, InMeasure, InLinked
  <1>12. CASE tester = "ST_A"
    <2>1. /\ tester' = IF o_command_ready THEN "ST_0" ELSE "ST_A"
          /\ mode' = "none"
      BY <1>2, <1>12 DEF ST_A
    <2>2. CASE At \in {"BOOT0", "IDLE0"}
      <3>1. o_cmd_init = "none"
        BY <1>12 DEF o_cmd_init
      <3>2. At' \in {"BOOT0", "IDLE0"} /\ (At = "IDLE0" => At' = "IDLE0")
        BY <2>2, <3>1, BootStep
      <3> QED
        BY <1>1, <2>1, <2>2, <3>2 DEF Paced, TesterStates
    <2>3. CASE Op \in MeasureLoop \cup LinkedLoop
      <3>1. At \notin {"IDLE0", "IDLE1"}
        BY <2>3, LoopStep
      <3>2. Op' \in MeasureLoop \cup LinkedLoop \cup {"SOFTRESET"}
        BY <2>3, LoopStep
      <3> QED
        BY <1>1, <2>1, <3>1, <3>2 DEF Paced, TesterStates
    <2>4. CASE Op = "SOFTRESET"
      <3>1. At \notin {"IDLE0", "IDLE1"} /\ (Op' = "SOFTRESET" \/ At' = "BOOT0")
        BY <2>4, ResetStep DEF Quiet
      <3> QED
        BY <1>1, <2>1, <3>1 DEF Paced, TesterStates
    <2> QED
      BY <1>12, <2>2, <2>3, <2>4 DEF Paced
  <1> QED
    BY <1>4, <1>5, <1>6, <1>7, <1>8, <1>9, <1>10, <1>11, <1>12 DEF TesterStates

-----------------------------------------------------------------------------
(* The invariant is inductive.                                             *)

LEMMA InputsKept ==
  ASSUME switches \in SUBSET (0..3), int1 \in BOOLEAN, int2 \in BOOLEAN, Inputs
  PROVE  switches' \in SUBSET (0..3) /\ int1' \in BOOLEAN /\ int2' \in BOOLEAN
  <1>1. switches' \in SUBSET (0..3)
    <2>1. switches' = switches \/ switches' = {} \/ switches' \in SwitchValues
      BY Zenon DEF Inputs, DebouncedSwitches
    <2>2. SwitchValues \subseteq SUBSET (0..3)
      BY SwitchAssumption
    <2> QED
      BY ONLY switches \in SUBSET (0..3), <2>1, <2>2, Zenon
  <1>2. Pin1 \in BOOLEAN /\ Pin2 \in BOOLEAN
    <2>1. CASE sensor.conf["CFG3"] = "MM"
      BY <2>1 DEF Pin1, Pin2
    <2>2. CASE sensor.conf["CFG3"] = "LM"
      BY <2>2 DEF Pin1, Pin2
    <2>3. CASE sensor.conf["CFG3"] \notin {"MM", "LM"}
      BY <2>3 DEF Pin1, Pin2
    <2> QED
      BY <2>1, <2>2, <2>3
  <1> QED
    BY <1>1, <1>2 DEF Inputs

LEMMA StatusKept ==
  ASSUME drv \in States, regStatus \in Status, Streamed, Driver
  PROVE  regStatus' \in Status
  <1>1. CASE drvReadData /\ rxData # << >> /\ Op \in ClearOps
    <2>1. regStatus' = rxData[1].status
      BY <1>1 DEF drvReadData
    <2>2. rxData \in Seq(Bytes)
      BY DEF Streamed
    <2>3. Len(rxData) \in Nat /\ Len(rxData) # 0
      BY <1>1, <2>2, EmptySeq, LenProperties
    <2>4. rxData[1] \in Bytes
      BY <2>2, <2>3, ElementOfSeq
    <2> QED
      BY <2>1, <2>4 DEF Bytes
  <1>2. CASE ~(drvReadData /\ rxData # << >> /\ Op \in ClearOps)
    <2>1. regStatus' = regStatus
      BY <1>2, Zenon DEF Driver, drvBoot, drvIdle0, drvInit, drvCommand, drvAddress, drvWriteData,
         drvReadData, drvWait, drvCheck, drvIdle1, drvInterrupt
    <2> QED
      BY <2>1
  <1> QED
    BY <1>1, <1>2

LEMMA ClockKeeps ==
  ASSUME IInv, Clock
  PROVE  IInv'
  <1> USE DEF IInv, Clock
  <1>1. drv' \in States
    BY DrvType
  <1>2. TxAligned'
    BY TxKept
  <1>3. RxAligned'
    BY RxKept
  <1>4. Streamed'
    BY StreamedKept
  <1>5. Collected' /\ stream' \in {"WAIT_GROUP", "WAIT_VALID", "DONE_CYCLE"}
    BY CollectedKept
  <1>6. Configured'
    BY ConfiguredKept
  <1>7. Paced' /\ tester' \in TesterStates /\ mode' \in {"none", "measur", "linked"}
    BY PacedKept
  <1>8. regStatus' \in Status
    BY StatusKept
  <1>9. switches' \in SUBSET (0..3) /\ int1' \in BOOLEAN /\ int2' \in BOOLEAN
    BY InputsKept
  <1> QED
    BY <1>1, <1>2, <1>3, <1>4, <1>5, <1>6, <1>7, <1>8, <1>9, Zenon DEF States, Status, TesterStates

(* Reset and power-up leave the logic in the same state.                   *)
Blank ==
    /\ tester = "ST_0" /\ mode = "none"
    /\ drv = <<"BOOT0", "">> /\ cfg = "none" /\ byteIndex = 0
    /\ regStatus = {} /\ bootTimer = 0
    /\ stream = "WAIT_GROUP" /\ captured = << >> /\ data = << >>
    /\ switches = {} /\ int1 = FALSE /\ int2 = FALSE
    /\ SpiInit

LEMMA BlankIs ==
  Blank /\ dataValid \in BOOLEAN /\ sensor \in SensorType => IInv
  <1> SUFFICES ASSUME Blank, dataValid \in BOOLEAN, sensor \in SensorType
               PROVE  IInv
    OBVIOUS
  <1>1. At = "BOOT0" /\ Op = ""
    BY Zenon DEF Blank, At, Op
  <1>2. ~InTransfer /\ ~Reading /\ Enqueued = 0
    BY <1>1, Zenon DEF InTransfer, Reading, Enqueued
  <1>3. /\ txFifo = << >> /\ rxFifo = << >> /\ rxData = << >> /\ frame = << >>
        /\ job = NoJob /\ ~job.busy /\ job.rx = 0
    BY Zenon DEF Blank, SpiInit, NoJob
  <1>4. TxAligned
    <2>1. job \in Jobs /\ Len(frame) <= 9
      BY <1>3 DEF Jobs
    <2>2. txFifo = SubSeq(FrameOf(Op, cfg), 1, Enqueued)
      BY <1>2, <1>3, PartEmpty
    <2> QED
      BY <1>2, <1>3, <2>1, <2>2 DEF TxAligned
  <1>5. RxAligned
    <2>1. byteIndex = 0
      BY Zenon DEF Blank
    <2>2. Len(rxData) = 0
      BY <1>3
    <2>3. byteIndex \in 0..8 /\ Len(rxData) <= 1
      BY <2>1, <2>2
    <2> QED
      BY <1>1, <1>2, <1>3, <2>3, Zenon DEF RxAligned
  <1>6. Streamed
    <2>1. << >> \in Seq(Bytes)
      OBVIOUS
    <2> QED
      BY <1>1, <1>3, <2>1, Zenon DEF Streamed
  <1>7. Collected
    BY <1>1, Zenon DEF Blank, Collected, DataOps
  <1>8. Configured
    <2>1. BootTime \in Nat /\ BootTime >= 2
      BY BootAssumption
    <2>2. bootTimer \in 0..(BootTime - 1) /\ bootTimer # BootTime - 1
      <3>1. bootTimer = 0
        BY Zenon DEF Blank
      <3> QED
        BY <2>1, <3>1
    <2>3. Done = {} /\ cfg = "none"
      BY <1>1, Zenon DEF Blank, Done
    <2> QED
      BY <1>1, <2>2, <2>3, Zenon DEF Configured
  <1>9. Paced
    BY <1>1, Zenon DEF Blank, Paced
  <1>10. drv \in States /\ regStatus \in Status
    BY StatesAre, Zenon DEF Blank, Status
  <1> QED
    BY <1>4, <1>5, <1>6, <1>7, <1>8, <1>9, <1>10, Zenon DEF Blank, IInv, TesterStates

LEMMA BlankNext ==
  (Blank /\ dataValid \in BOOLEAN /\ sensor \in SensorType => IInv)'
  BY BlankIs, PTL

LEMMA ResetKeeps ==
  ASSUME IInv, Reset
  PROVE  IInv'
  <1>1. Blank'
    BY Zenon DEF Reset, SpiReset, Blank, SpiInit, NoJob
  <1>2. dataValid' \in BOOLEAN
    BY Zenon DEF IInv, Reset, Collected
  <1>3. sensor' \in SensorType
    <2>1. sensor \in SensorType
      BY DEF IInv, Configured
    <2>2. sensor' = AfterFrame(sensor, frame) \/ sensor' = sensor
      BY Zenon DEF Reset
    <2> QED
      BY <2>1, <2>2, AfterFrameType
  <1>4. (Blank /\ dataValid \in BOOLEAN /\ sensor \in SensorType)'
    BY <1>1, <1>2, <1>3 DEF SensorType, Values, Tables, Status
  <1> QED
    BY <1>4, BlankNext

LEMMA Stutters ==
  ASSUME IInv, UNCHANGED vars
  PROVE  IInv'
  <1> USE DEF vars, testerVars, drvVars, streamVars, inputVars, spiVars
  <1>1. (/\ tester \in TesterStates /\ mode \in {"none", "measur", "linked"}
         /\ drv \in States /\ regStatus \in Status
         /\ stream \in {"WAIT_GROUP", "WAIT_VALID", "DONE_CYCLE"}
         /\ switches \in SUBSET (0..3) /\ int1 \in BOOLEAN /\ int2 \in BOOLEAN)'
    BY DEF IInv, TesterStates
  <1>2. TxAligned'
    BY DEF IInv, TxAligned, At, Op, InTransfer, Reading, Enqueued
  <1>3. RxAligned'
    BY DEF IInv, RxAligned, At, Op, InTransfer, Reading, Enqueued
  <1>4. Streamed'
    BY DEF IInv, Streamed, At, Op, InTransfer, Reading, Enqueued
  <1>5. Collected'
    BY DEF IInv, Collected, At, Op, InTransfer, Reading
  <1>6. Configured'
    BY DEF IInv, Configured, At, Op, Done, InMeasure, InLinked, InTransfer, Reading, Enqueued
  <1>7. Paced'
    BY DEF IInv, Paced, At, Op, Done, InMeasure, InLinked, TesterStates
  <1> QED
    BY <1>1, <1>2, <1>3, <1>4, <1>5, <1>6, <1>7 DEF IInv

LEMMA Inductive ==
  Spec => []IInv
  <1>1. Init => IInv
    <2> SUFFICES ASSUME Init PROVE IInv
      OBVIOUS
    <2>1. Blank /\ dataValid \in BOOLEAN /\ sensor \in SensorType
      BY DefaultType, Zenon DEF Init, InitLogic, Blank
    <2> QED
      BY <2>1, BlankIs
  <1>2. IInv /\ [Next]_vars => IInv'
    BY ClockKeeps, ResetKeeps, Stutters DEF Next
  <1> QED
    BY <1>1, <1>2, PTL DEF Spec

-----------------------------------------------------------------------------
(* The properties.                                                         *)

(* The bytes in the queue for the sensor.                                  *)
LEMMA TxLen ==
  ASSUME drv \in States, TxAligned, RxAligned
  PROVE  /\ InTransfer => Len(txFifo) = job.tx
         /\ Len(txFifo) <= 9
  <1>1. job.tx \in 0..9
    BY JobIs DEF TxAligned
  <1>2. CASE InTransfer
    <2> DEFINE F == FrameOf(Op, cfg)
               n == FrameLen(Op)
    <2>1. Op \in Ops
      BY <1>2, Where, Zenon DEF InTransfer, Reading
    <2>2. F \in Seq(FrameBytes(Op, cfg)) /\ Len(F) = n /\ n \in 2..9
      BY <2>1, FrameIs
    <2>3. job.tx <= n /\ txFifo = SubSeq(F, n - job.tx + 1, n)
      BY <1>2 DEF TxAligned
    <2> HIDE DEF F, n
    <2> DEFINE k == job.tx
               m == Len(F)
               l == Len(txFifo)
    <2>4. n - job.tx + 1 \in Nat /\ n - job.tx + 1 >= 1 /\ n \in Nat /\ n <= Len(F)
      <3>1. n \in 2..9 /\ m = n /\ k \in 0..9 /\ k <= n
        BY ONLY <1>1, <2>2, <2>3, Zenon
      <3> HIDE DEF k, m
      <3>2. n - k + 1 \in Nat /\ n - k + 1 >= 1 /\ n \in Nat /\ n <= m
        BY ONLY <3>1
      <3> QED
        BY ONLY <3>2, Zenon DEF k, m
    <2>5. Len(txFifo) = IF n - job.tx + 1 <= n THEN n - (n - job.tx + 1) + 1 ELSE 0
      BY <2>2, <2>3, <2>4, PartLen
    <2>6. Len(txFifo) = job.tx
      <3>1. n \in 2..9 /\ k \in 0..9 /\ l = IF n - k + 1 <= n THEN n - (n - k + 1) + 1 ELSE 0
        BY ONLY <1>1, <2>2, <2>5, Zenon
      <3> HIDE DEF k, l
      <3>2. l = k
        BY ONLY <3>1
      <3> QED
        BY ONLY <3>2, Zenon DEF k, l
    <2> QED
      BY <1>1, <2>6
  <1>3. CASE ~InTransfer /\ At \in {"ADDR", "DATA"}
    <2>1. Op \in Ops /\ (At = "DATA" => Op \in WriteOps)
      BY <1>3, Where, Lengths, Zenon DEF InTransfer, Reading
    <2>2. /\ FrameOf(Op, cfg) \in Seq(FrameBytes(Op, cfg))
          /\ Len(FrameOf(Op, cfg)) = FrameLen(Op) /\ FrameLen(Op) \in 2..9
      BY <2>1, FrameIs
    <2>3. Enqueued \in 0..FrameLen(Op)
      <3>1. CASE At = "ADDR"
        BY <2>2, <3>1 DEF Enqueued
      <3>2. CASE At = "DATA"
        <4>1. byteIndex \in 1..WriteLen(Op) /\ WriteLen(Op) \in 0..7
          BY <2>1, <3>2, Lengths DEF RxAligned
        <4>2. Enqueued = FrameLen(Op) - byteIndex /\ FrameLen(Op) = 2 + WriteLen(Op)
          BY <3>2 DEF Enqueued, FrameLen
        <4>3. ASSUME NEW b, NEW w \in 0..7, b \in 1..w
              PROVE  (2 + w) - b \in 0..(2 + w)
          BY ONLY <4>3
        <4>4. (2 + WriteLen(Op)) - byteIndex \in 0..(2 + WriteLen(Op))
          BY <4>1, <4>3, Zenon
        <4> QED
          BY <4>2, <4>4, Zenon
      <3> QED
        BY <1>3, <3>1, <3>2
    <2>4. Len(txFifo) = Enqueued
      BY <1>3, <2>2, <2>3, PrefixLen DEF TxAligned
    <2> QED
      BY <1>3, <2>2, <2>3, <2>4
  <1>4. CASE ~InTransfer /\ At \notin {"ADDR", "DATA"}
    <2>1. Enqueued = 0
      BY <1>4 DEF Enqueued
    <2>2. txFifo = << >>
      BY <1>4, <2>1, PartEmpty DEF TxAligned
    <2>3. Len(txFifo) = 0
      BY <2>2
    <2> QED
      BY <1>4, <2>3
  <1> QED
    BY <1>2, <1>3, <1>4

LEMMA CapturedLen ==
  ASSUME drv \in States, Collected, RxAligned, stream \in {"WAIT_GROUP", "WAIT_VALID", "DONE_CYCLE"}
  PROVE  Len(captured) <= 8
  <1>1. SampleBytes \in Seq(Bytes) /\ Len(SampleBytes) = 8
    BY SamplesAre
  <1>2. \/ captured = << >> \/ captured = SampleBytes
        \/ captured = SubSeq(SampleBytes, 1, 8 - byteIndex)
    <2>1. CASE Op \in DataOps
      BY <2>1 DEF Collected
    <2>2. CASE Op \notin DataOps
      BY <2>2 DEF Collected
    <2> QED
      BY <2>1, <2>2
  <1>3. 8 - byteIndex \in 0..8
    BY DEF RxAligned
  <1>4. CASE captured = << >>
    <2>1. Len(captured) = 0
      BY <1>4
    <2> QED
      BY <2>1
  <1>5. CASE captured = SampleBytes
    <2>1. Len(captured) = 8
      BY <1>1, <1>5, Zenon
    <2> QED
      BY <2>1
  <1>6. CASE captured = SubSeq(SampleBytes, 1, 8 - byteIndex)
    <2>1. 8 - byteIndex \in 0..Len(SampleBytes)
      BY <1>1, <1>3
    <2>2. Len(captured) = 8 - byteIndex
      BY <1>1, <1>6, <2>1, PrefixLen, Zenon
    <2> QED
      BY <1>3, <2>2
  <1> QED
    BY <1>2, <1>4, <1>5, <1>6

(* Every variable holds a value of its type, whenever the reset button is  *)
(* pressed: no queue grows beyond a transfer, and every state the driver   *)
(* enters is one of its own.                                               *)
THEOREM Typed == Spec => []TypeOK
  <1>1. IInv => TypeOK
    <2> SUFFICES ASSUME IInv PROVE TypeOK
      OBVIOUS
    <2>1. /\ tester \in TesterStates /\ mode \in {"none", "measur", "linked"}
          /\ drv \in States /\ regStatus \in Status
          /\ stream \in {"WAIT_GROUP", "WAIT_VALID", "DONE_CYCLE"}
          /\ switches \in SUBSET (0..3) /\ int1 \in BOOLEAN /\ int2 \in BOOLEAN
      BY DEF IInv
    <2>2. Len(txFifo) <= 9 /\ Len(captured) <= 8
      BY TxLen, CapturedLen DEF IInv
    <2>3. Len(rxFifo) <= 8
      <3>1. CASE Reading
        <4>1. /\ byteIndex \in 0..8 /\ byteIndex = Len(rxData) + Len(rxFifo) + job.rx
              /\ rxFifo \in Seq(Bytes) /\ rxData \in Seq(Bytes)
          BY <3>1 DEF IInv, RxAligned, Streamed
        <4>2. job.rx \in 0..8
          BY JobIs DEF IInv, TxAligned
        <4>3. Len(rxFifo) \in Nat /\ Len(rxData) \in Nat
          BY <4>1, LenProperties
        <4> QED
          BY <4>1, <4>2, <4>3
      <3>2. CASE ~Reading
        <4>1. Len(rxFifo) = 0
          BY <3>2 DEF IInv, RxAligned
        <4> QED
          BY <4>1
      <3> QED
        BY <3>1, <3>2
    <2>4. /\ job.busy \in BOOLEAN /\ job.tx \in 0..9 /\ job.rx \in 0..8
          /\ Len(frame) <= 9
      BY JobIs DEF IInv, TxAligned
    <2>5. byteIndex \in 0..8 /\ Len(rxData) <= 1
      BY DEF IInv, RxAligned
    <2>6. /\ bootTimer \in 0..(BootTime - 1) /\ cfg \in Tables \cup {"none"}
          /\ sensor \in SensorType /\ dataValid \in BOOLEAN
      BY DEF IInv, Configured, Collected
    <2>7. /\ sensor.conf \in [CfgOps -> Values \cup {"reset", "mixed"}]
          /\ sensor.busy \in BOOLEAN /\ sensor.status \in Status
      BY <2>6 DEF SensorType
    <2> QED
      BY <2>1, <2>2, <2>3, <2>4, <2>5, <2>6, <2>7 DEF TypeOK, TesterStates
  <1> QED
    BY <1>1, Inductive, PTL

(* While the tester shows a mode, the sensor holds the whole table of this *)
(* mode and the driver reads in its loop, whatever preset was chosen and   *)
(* in whatever clock the reset button was pressed before: also when it cut *)
(* off a write, or came while the sensor reset itself.                     *)
THEOREM ModesMatch == Spec => []ModeMatchesSensor
  <1>1. IInv => ModeMatchesSensor
    <2> SUFFICES ASSUME IInv, tester = "ST_9" PROVE ModeMatchesSensor
      BY DEF ModeMatchesSensor
    <2>1. (InMeasure /\ Op \in MeasureLoop) \/ (InLinked /\ Op \in LinkedLoop)
      BY DEF IInv, Paced
    <2>2. /\ At \notin {"BOOT0", "IDLE0", "INIT"}
          /\ Op \notin CfgOps /\ Op # "SOFTRESET"
      BY <2>1, Where, Zenon DEF IInv, MeasureLoop, LinkedLoop, CfgOps
    <2>3. Done = CfgOps
      BY <2>2, DoneIs
    <2>4. /\ ~sensor.busy
          /\ sensor.conf \in [CfgOps -> Values \cup {"reset", "mixed"}]
          /\ \A op \in CfgOps : sensor.conf[op] = Contents(op, cfg)
      BY <2>2, <2>3 DEF IInv, Configured, SensorType, Op
    <2>5. sensor.conf = [op \in CfgOps |-> Contents(op, cfg)]
      BY <2>4
    <2>6. HoldsTable(cfg)
      BY <2>4, <2>5 DEF HoldsTable
    <2> QED
      BY <2>1, <2>6 DEF ModeMatchesSensor, InMeasure, InLinked, MeasureLoop, LinkedLoop,
         ReadOps, DataOps, ClearOps
  <1> QED
    BY <1>1, Inductive, PTL

(* No go is lost or cuts a transfer short, and no byte of one transfer is  *)
(* left for the next, however long the bus takes for each byte.            *)
THEOREM Aligned == Spec => []TransfersAligned
  <1>1. IInv => TransfersAligned
    <2> SUFFICES ASSUME IInv PROVE TransfersAligned
      OBVIOUS
    <2>1. o_go_stand.busy => o_spi_idle
      <3> SUFFICES ASSUME job.busy PROVE ~o_go_stand.busy
        BY DEF o_spi_idle
      <3>1. At = "WAIT" \/ Reading
        BY DEF IInv, TxAligned, InTransfer
      <3>2. o_go_stand = NoJob
        BY <3>1, Outputs DEF IInv
      <3> QED
        BY <3>2 DEF NoJob
    <2>2. ASSUME At = "CMD"
          PROVE  txFifo = << >> /\ rxFifo = << >> /\ rxData = << >>
      <3>1. ~InTransfer /\ ~Reading /\ Enqueued = 0
        BY <2>2 DEF InTransfer, Reading, Enqueued
      <3> QED
        BY <3>1, PartEmpty DEF IInv, TxAligned, RxAligned
    <2>3. ~o_spi_idle => Len(txFifo) = job.tx
      BY TxLen DEF IInv, TxAligned, o_spi_idle
    <2> QED
      BY <2>1, <2>2, <2>3 DEF TransfersAligned
  <1> QED
    BY <1>1, Inductive, PTL

(* The displays are given the eight bytes of one measurement in order, and *)
(* the FSM that collects them waits for each group the driver streams.     *)
THEOREM Whole == Spec => []MeasurementWhole
  <1>1. IInv => MeasurementWhole
    BY DEF IInv, Collected, MeasurementWhole
  <1> QED
    BY <1>1, Inductive, PTL

Asking == {"ST_1", "ST_3", "ST_5", "ST_7"}

(* A byte, a command and an end that is waited for is on its way.          *)
Awaited ==
    /\ Reading /\ rxData = << >> /\ ~o_rx_avail => ~o_spi_idle /\ job.rx > 0
    /\ ~o_spi_idle /\ job.tx > 0 => txFifo # << >>
    /\ At = "IDLE0" => tester \in {"ST_0", "ST_1", "ST_5", "ST_A"}
    /\ At = "IDLE1" => tester \in {"ST_2", "ST_3", "ST_6", "ST_7"}
    /\ tester \in {"ST_2", "ST_6"} => Op \in CfgOps \/ At = "IDLE1"
    /\ tester \in Asking /\ o_command_ready =>
          CASE tester \in {"ST_1", "ST_5"} -> At = "IDLE0"
            [] tester = "ST_3" -> At = "IDLE1" /\ cfg = "MM"
            [] tester = "ST_7" -> At = "IDLE1" /\ cfg \in Presets

(* Nobody waits in vain: the driver waits for a byte only while one is in  *)
(* the queue or still to be received, and the bus for one to send only     *)
(* while it is there; the driver is idle only while the tester is free to  *)
(* ask, asks, or sees in this clock that the driver is ready; and a ready  *)
(* driver is asked only for what it takes in the state it is in, a start   *)
(* only for the mode it was configured for.  So the tester and the driver, *)
(* each of which waits for a level of the other, never wait for each other *)
(* (p_tester_fsm_comb, p_fsm_comb of pmod_acl2_custom_driver).             *)
THEOREM NobodyWaitsInVain == Spec => []Awaited
  <1>1. IInv => Awaited
    <2> SUFFICES ASSUME IInv PROVE Awaited
      OBVIOUS
    <2>1. ASSUME Reading, rxData = << >>, ~o_rx_avail
          PROVE  ~o_spi_idle /\ job.rx > 0
      <3>1. byteIndex \in 1..8 /\ byteIndex = Len(rxData) + Len(rxFifo) + job.rx
        <4>1. ReadLen(Op) \in 0..8
          BY <2>1, Lengths DEF Reading, ReadOps, Ops
        <4> QED
          BY <2>1, <4>1 DEF IInv, RxAligned
      <3>2. Len(rxData) = 0 /\ Len(rxFifo) = 0
        BY <2>1 DEF o_rx_avail
      <3>3. job.rx \in 0..8
        BY JobIs DEF IInv, TxAligned
      <3>4. job.rx > 0
        BY <3>1, <3>2, <3>3
      <3>5. job # NoJob
        BY <3>4 DEF NoJob
      <3> QED
        BY <3>4, <3>5 DEF IInv, TxAligned, Jobs, o_spi_idle
    <2>2. ~o_spi_idle /\ job.tx > 0 => txFifo # << >>
      <3>1. ~o_spi_idle => Len(txFifo) = job.tx
        BY TxLen DEF IInv, TxAligned, o_spi_idle
      <3> QED
        BY <3>1
    <2>3. ASSUME At \in {"IDLE0", "IDLE1"}
          PROVE  Op \notin CfgOps \cup MeasureLoop \cup LinkedLoop \cup {"SOFTRESET"}
      <3>1. Op = ""
        BY <2>3, Where, Zenon DEF IInv
      <3> QED
        BY <3>1, Zenon DEF CfgOps, MeasureLoop, LinkedLoop
    <2> DEFINE InLoop == Op \in MeasureLoop \cup LinkedLoop
    <2>4. /\ tester \in TesterStates
          /\ tester \in {"ST_4", "ST_8", "ST_9"} => InLoop
          /\ tester \in {"ST_3", "ST_7"} => At = "IDLE1" \/ At = "INT"
          /\ tester \in {"ST_0", "ST_1", "ST_5"} => At \in {"BOOT0", "IDLE0", "INIT"}
          /\ tester = "ST_A" => InLoop \/ Op = "SOFTRESET" \/ At \in {"BOOT0", "IDLE0"}
      <3>1. /\ drv = <<"INT", "DR">> \/ drv = <<"INT", "AT1">> => At = "INT"
            /\ drv = <<"INIT", "MM">> \/ drv = <<"INIT", "LM">> => At = "INIT"
        BY DEF At
      <3>2. tester \in TesterStates /\ Paced
        BY DEF IInv
      <3> QED
        BY <3>1, <3>2, Zenon DEF Paced, TesterStates
    <2> HIDE DEF InLoop
    <2>5. tester \in {"ST_2", "ST_6"} => Op \in CfgOps \/ At = "IDLE1"
      BY DEF IInv, Paced
    <2>6. /\ At = "IDLE0" => tester \in {"ST_0", "ST_1", "ST_5", "ST_A"}
          /\ At = "IDLE1" => tester \in {"ST_2", "ST_3", "ST_6", "ST_7"}
      BY <2>3, <2>4, <2>5 DEF TesterStates, InLoop
    <2>7. ASSUME tester \in Asking, o_command_ready
          PROVE  CASE tester \in {"ST_1", "ST_5"} -> At = "IDLE0"
                   [] tester = "ST_3" -> At = "IDLE1" /\ cfg = "MM"
                   [] tester = "ST_7" -> At = "IDLE1" /\ cfg \in Presets
      <3>1. At \in {"IDLE0", "IDLE1"}
        BY <2>7 DEF o_command_ready
      <3>2. CASE tester \in {"ST_1", "ST_5"}
        BY <2>6, <3>1, <3>2
      <3>3. CASE tester = "ST_3"
        BY <2>6, <3>1, <3>3 DEF IInv, Paced, InMeasure
      <3>4. CASE tester = "ST_7"
        BY <2>6, <3>1, <3>4 DEF IInv, Paced, InLinked
      <3> QED
        BY <2>7, <3>2, <3>3, <3>4 DEF Asking
    <2> QED
      BY <2>1, <2>2, <2>5, <2>6, <2>7 DEF Awaited
  <1> QED
    BY <1>1, Inductive, PTL
=============================================================================
