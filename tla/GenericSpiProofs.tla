-------------------------- MODULE GenericSpiProofs -------------------------
(***************************************************************************)
(* Proofs about GenericSpi, for all lengths of transfers, waits and queues:*)
(* the pins keep to SPI mode 0, the peripheral is given exactly the clocks *)
(* of the transfer, no register leaves its range, each transfer takes its  *)
(* time and no more, and the master implements StandSpi.                   *)
(*                                                                         *)
(* The argument: a go is held for the four phases of a bit, in one of      *)
(* which the bus leaves IDLE (Holding); in every other state the timer is  *)
(* below the one length it is compared with (Timed); the registers at the  *)
(* pins are one clock enable behind the state (Driven); so each bit of a   *)
(* state adds one bit to what the peripheral has heard (Heard).  For the   *)
(* refinement each bit and byte is followed on its way: out of the TX      *)
(* queue (Fetching) to the peripheral (Current), and back through the      *)
(* registers at the pins (Behind, Sampled) and the shift register          *)
(* (Shifting) into the RX queue (Receiving).                               *)
(***************************************************************************)
EXTENDS GenericSpi, SequenceTheorems, TLAPS

-----------------------------------------------------------------------------
(* The inductive invariant.                                                *)

(* The registers of the two FSMs, and of the way of the command.           *)
FsmTypes ==
    /\ phase \in 0..3 /\ st \in States /\ t \in 0..TMax
    /\ dat \in {"WAIT", "HOLD_0", "HOLD_1", "HOLD_2", "HOLD_3"} /\ goAux \in BOOLEAN
    /\ txLen \in TxLens \cup {0} /\ rxLen \in RxLens \cup {0} /\ waitCyc \in WaitCycs \cup {0}
    /\ txFifo \in Seq(Bytes) /\ txOut \in Sent /\ copi \in SentBits /\ heard \in Seq(SentBits)

(* A go is held for the four phases, in one of which the bus leaves IDLE;  *)
(* when it is let go the bus is in START_D and stays there for a while.    *)
Holding ==
    /\ goAux <=> dat # "WAIT"
    /\ dat # "WAIT" => st \in {"IDLE", "START_D"} /\ txLen \in TxLens
    /\ dat # "WAIT" /\ st = "IDLE" =>
          /\ dat = "HOLD_1" => phase \in {0, 1, 2}
          /\ dat = "HOLD_2" => phase \in {1, 2}
          /\ dat = "HOLD_3" => phase = 2
    /\ dat # "WAIT" /\ st = "START_D" =>
          /\ t = 0 /\ dat # "HOLD_0"
          /\ dat = "HOLD_1" => phase = 3
          /\ dat = "HOLD_2" => phase \in {3, 0}
          /\ dat = "HOLD_3" => phase \in {3, 0, 1}

(* In every timed state the timer has not met its comparison yet.          *)
Timed ==
    st # "IDLE" =>
        /\ txLen \in TxLens /\ t < Length[st]
        /\ st \in {"WAIT", "RX"} => rxLen > 0

(* The registers at the pins follow the state by one clock enable.         *)
Driven ==
    /\ sck \in BOOLEAN /\ csn \in BOOLEAN
    /\ sck => ~csn /\ phase \in {2, 3} /\ st \in {"TX", "WAIT", "RX", "STOP_S"}
    /\ phase = 2 /\ Clocking => sck
    /\ Clocking \/ st = "STOP_S" => ~csn
    /\ st = "START_S" /\ phase # 3 => ~csn
    /\ phase \in {1, 2} /\ Clocking =>
          copi = IF st = "TX" /\ t < 8 * txLen THEN Bit(txOut, t) ELSE Zero

Total == 8 * (txLen + rxLen) + IF rxLen = 0 THEN 0 ELSE waitCyc
Ticked == IF phase = 2 THEN t + 1 ELSE t

(* What the peripheral has heard at each point of a transfer.              *)
Heard ==
    /\ st = "START_S" /\ ~csn => heard = << >>
    /\ st = "TX" => Len(heard) = Ticked
    /\ st = "WAIT" => Len(heard) = 8 * txLen + Ticked
    /\ st = "RX" => Len(heard) = 8 * txLen + waitCyc + Ticked
    /\ st \in {"STOP_S", "STOP_D"} \/ o_spi_idle => Len(heard) = Total

(* The other registers; a byte is only written to an RX queue that still   *)
(* has room for it in the clock enable after it was looked at.             *)
RestTypes ==
    /\ delayed \in [1..3 -> [st : States, t : 0..TMax]]
    /\ Len(txFifo) <= Depth /\ fetched \in Nat /\ received \in Nat
    /\ rxFifo \in Seq(Got) /\ Len(rxFifo) <= Depth /\ rxOut \in Got \cup {"none"}
    /\ rxIn \in [1..8 -> GotBits] /\ rxWe \in BOOLEAN /\ rxValid \in BOOLEAN
    /\ rxWe => phase = 0 /\ Len(rxFifo) < Depth
    /\ cipo \in GotBits /\ cipoMeta \in GotBits /\ cipoSync \in GotBits

SpiInv == FsmTypes /\ RestTypes /\ Holding /\ Timed /\ Driven /\ Heard

-----------------------------------------------------------------------------
(* What a clock enable does to the part of the state the invariant is on.  *)

HoldStep ==
    \/ /\ dat # "WAIT" /\ dat' = NextHold[dat]
       /\ goAux' = (goAux /\ dat # "HOLD_3")
       /\ UNCHANGED <<txLen, rxLen, waitCyc>>
    \/ dat = "WAIT" /\ UNCHANGED <<dat, goAux, txLen, rxLen, waitCyc>>
    \/ /\ o_spi_idle
       /\ dat' = "HOLD_0" /\ goAux' = TRUE
       /\ txLen' \in TxLens /\ rxLen' \in RxLens /\ waitCyc' \in WaitCycs

QueueStep ==
    /\ txFifo' \in Seq(Bytes)
    /\ \/ txOut' = txOut
       \/ txOut' \in Bytes /\ (st = "START_S" \/ (st = "TX" /\ phase = 2))

Tick == phase' = (phase + 1) % 4 /\ spiFsm /\ HoldStep /\ QueueStep /\ pins /\ peripheral

(* A byte is fetched only in the states that may disturb no bit of another.*)
LEMMA QueueTick ==
    ASSUME FsmTypes, NEW enq \in Seq(Bytes), NEW go, txQueue(enq, go)
    PROVE  QueueStep
<1>1. s_data_fifo_tx_re => /\ txFifo # << >>
                           /\ st = "START_S" \/ (st = "TX" /\ phase = 2)
  BY Zenon DEF s_data_fifo_tx_re
<1>2. txFifo # << >> => Tail(txFifo) \in Seq(Bytes) /\ Head(txFifo) \in Bytes
  BY DEF FsmTypes
<1>3. txFifo \in Seq(Bytes)
  BY DEF FsmTypes
<1>4. CASE s_data_fifo_tx_re
  BY <1>1, <1>2, <1>4 DEF txQueue, QueueStep
<1>5. CASE ~s_data_fifo_tx_re
  BY <1>3, <1>5 DEF txQueue, QueueStep
<1> QED
  BY <1>4, <1>5

(* Whatever the driver does, a clock enable is a Tick.                     *)
LEMMA Ticks == ASSUME FsmTypes, Next PROVE Tick \/ Reset
<1>1. ASSUME NEW b \in Bytes, Enqueue(b) PROVE Tick
  <2>1. Clock(<<b>>, NoGo, FALSE)
    BY <1>1 DEF Enqueue
  <2>2. datFsm(NoGo) => HoldStep
    BY DEF datFsm, HoldStep, NoGo
  <2>3. <<b>> \in Seq(Bytes)
    OBVIOUS
  <2>4. txQueue(<<b>>, NoGo) => QueueStep
    BY <2>3, QueueTick, Zenon
  <2> QED
    BY <2>1, <2>2, <2>4, Zenon DEF Clock, Tick
<1>2. ASSUME NEW b \in Bytes, Go(b) PROVE Tick
  <2>1. PICK rx \in RxLens, wait \in WaitCycs :
           Clock(<<b>>, [busy |-> TRUE, tx |-> Len(txFifo) + 1, rx |-> rx, wait |-> wait], FALSE)
    BY <1>2 DEF Go
  <2> DEFINE go == [busy |-> TRUE, tx |-> Len(txFifo) + 1, rx |-> rx, wait |-> wait]
  <2>2. o_spi_idle /\ Len(txFifo) + 1 \in TxLens
    BY <1>2 DEF Go
  <2>3. datFsm(go) => HoldStep
    BY <2>2 DEF datFsm, HoldStep, o_spi_idle
  <2>4. Clock(<<b>>, go, FALSE)
    BY <2>1
  <2>5. <<b>> \in Seq(Bytes)
    OBVIOUS
  <2> HIDE DEF go
  <2>6. txQueue(<<b>>, go) => QueueStep
    BY <2>5, QueueTick, Zenon
  <2> QED
    BY <2>3, <2>4, <2>6, Zenon DEF Clock, Tick
<1>3. ASSUME Dequeue \/ Wait PROVE Tick
  <2>1. Clock(<< >>, NoGo, TRUE) \/ Clock(<< >>, NoGo, FALSE)
    BY <1>3 DEF Dequeue, Wait
  <2>2. datFsm(NoGo) => HoldStep
    BY DEF datFsm, HoldStep, NoGo
  <2>3. << >> \in Seq(Bytes)
    OBVIOUS
  <2>4. txQueue(<< >>, NoGo) => QueueStep
    BY <2>3, QueueTick, Zenon
  <2> QED
    BY <2>1, <2>2, <2>4, Zenon DEF Clock, Tick
<1> QED
  BY <1>1, <1>2, <1>3 DEF Next

-----------------------------------------------------------------------------
(* Arithmetic of the phases, and the tables of the bus.                    *)

LEMMA PhaseStep == ASSUME FsmTypes, Tick PROVE phase' = IF phase = 3 THEN 0 ELSE phase + 1
  BY DEF FsmTypes, Tick

LEMMA Lengths ==
    /\ st \in {"START_D", "START_S", "STOP_S", "STOP_D"} => Length[st] = 4
    /\ st = "TX" => Length[st] = 8 * txLen
    /\ st = "WAIT" => Length[st] = waitCyc
    /\ st = "RX" => Length[st] = 8 * rxLen
  BY DEF Length, WaitSs

LEMMA NextStates ==
    /\ st = "IDLE" => Following[st] = "START_D"
    /\ st = "START_D" => Following[st] = "START_S"
    /\ st = "START_S" => Following[st] = "TX"
    /\ st = "TX" => Following[st] = AfterTx
    /\ st = "WAIT" => Following[st] = "RX"
    /\ st = "RX" => Following[st] = "STOP_S"
    /\ st = "STOP_S" => Following[st] = "STOP_D"
    /\ st = "STOP_D" => Following[st] = "IDLE"
  BY DEF Following

LEMMA LengthTypes ==
    ASSUME FsmTypes
    PROVE  /\ txLen \in Nat /\ 8 * txLen <= TMax
           /\ rxLen \in Nat /\ 8 * rxLen <= TMax
           /\ waitCyc \in Nat /\ waitCyc <= TMax
           /\ 4 <= TMax /\ TMax \in Nat
           /\ txLen \in TxLens => txLen > 0
  BY LengthAssumption DEF FsmTypes

LEMMA LengthTypesAfter ==
    ASSUME FsmTypes, HoldStep
    PROVE  /\ txLen' \in TxLens \cup {0} /\ rxLen' \in RxLens \cup {0} /\ waitCyc' \in WaitCycs \cup {0}
           /\ txLen' \in Nat /\ rxLen' \in Nat /\ waitCyc' \in Nat
           /\ txLen' \in TxLens => txLen' > 0
<1>1. txLen' \in TxLens \cup {0} /\ rxLen' \in RxLens \cup {0} /\ waitCyc' \in WaitCycs \cup {0}
  BY DEF FsmTypes, HoldStep
<1> QED
  BY <1>1, LengthAssumption

-----------------------------------------------------------------------------
(* The five ways the bus may go in a clock enable.                         *)

Stays  == phase # 2 /\ st' = st /\ t' = t
Rests  == phase = 2 /\ st = "IDLE" /\ ~goAux /\ st' = "IDLE"
Begins == phase = 2 /\ st = "IDLE" /\ goAux /\ st' = "START_D" /\ t' = 0
Counts == phase = 2 /\ st # "IDLE" /\ t + 1 < Length[st] /\ st' = st /\ t' = t + 1
Moves  == phase = 2 /\ st # "IDLE" /\ t + 1 = Length[st] /\ st' = Following[st] /\ t' = 0

(* There is no other way.                                                  *)
LEMMA BusStep ==
    ASSUME FsmTypes, Timed, Tick
    PROVE  /\ Stays \/ Rests \/ Begins \/ Counts \/ Moves
           /\ t' \in 0..TMax
<1>1. /\ st' = IF phase = 2 THEN nxState ELSE st
      /\ t' = IF phase # 2 THEN t ELSE IF nxState # st THEN 0 ELSE IF t < TMax THEN t + 1 ELSE t
  BY DEF Tick, spiFsm
<1>2. t \in 0..TMax /\ TMax \in Nat
  BY LengthTypes DEF FsmTypes
<1>3. t' \in 0..TMax
  BY <1>1, <1>2
<1>4. CASE phase # 2
  BY <1>1, <1>3, <1>4 DEF Stays
<1>5. CASE phase = 2 /\ st = "IDLE" /\ ~goAux
  <2>1. nxState = "IDLE"
    BY <1>5 DEF nxState
  <2> QED
    BY <1>1, <1>3, <1>5, <2>1 DEF Rests
<1>6. CASE phase = 2 /\ st = "IDLE" /\ goAux
  <2>1. nxState = "START_D"
    BY <1>6, NextStates DEF nxState
  <2> QED
    BY <1>1, <1>3, <1>6, <2>1 DEF Begins
<1>7. CASE phase = 2 /\ st # "IDLE"
  <2>1. Length[st] \in Nat /\ t < Length[st] /\ Length[st] <= TMax
    BY <1>7, Lengths, LengthTypes DEF FsmTypes, States, Timed
  <2>2. CASE t + 1 = Length[st]
    <3>1. nxState = Following[st]
      BY <1>7, <2>2 DEF nxState, Elapsed
    <3>2. Following[st] # st
      BY <1>7, NextStates DEF FsmTypes, States, AfterTx
    <3> QED
      BY <1>1, <1>3, <1>7, <2>2, <3>1, <3>2 DEF Moves
  <2>3. CASE t + 1 # Length[st]
    <3>1. nxState = st
      BY <1>7, <2>3 DEF nxState, Elapsed
    <3> QED
      BY <1>1, <1>2, <1>3, <1>7, <2>1, <2>3, <3>1 DEF Counts
  <2> QED
    BY <2>2, <2>3
<1> QED
  BY <1>3, <1>4, <1>5, <1>6, <1>7

(* Lengths change only with a go, which comes only to an idle master.      *)
LEMMA LengthsKept ==
    ASSUME Tick, st # "IDLE"
    PROVE  txLen' = txLen /\ rxLen' = rxLen /\ waitCyc' = waitCyc /\ Length' = Length /\ Total' = Total
<1>1. txLen' = txLen /\ rxLen' = rxLen /\ waitCyc' = waitCyc
  BY DEF Tick, HoldStep, o_spi_idle
<1>2. Length' = Length
  BY <1>1 DEF Length, WaitSs
<1>3. Total' = Total
  BY <1>1 DEF Total
<1> QED
  BY <1>1, <1>2, <1>3

-----------------------------------------------------------------------------
(* A clock enable preserves each part of the invariant.                    *)

LEMMA TypesKept == ASSUME FsmTypes, Timed, Tick PROVE FsmTypes'
<1>1. phase' \in 0..3
  BY PhaseStep DEF FsmTypes
<1>2. t' \in 0..TMax /\ (Stays \/ Rests \/ Begins \/ Counts \/ Moves)
  BY BusStep
<1>3. st' \in States
  <2>1. st' \in {st, "IDLE", "START_D", Following[st]}
    BY <1>2 DEF Stays, Rests, Begins, Counts, Moves
  <2> QED
    BY <2>1, NextStates DEF FsmTypes, States, AfterTx
<1>4. dat' \in {"WAIT", "HOLD_0", "HOLD_1", "HOLD_2", "HOLD_3"} /\ goAux' \in BOOLEAN
  <2>1. HoldStep
    BY DEF Tick
  <2>2. dat # "WAIT" => NextHold[dat] \in {"WAIT", "HOLD_1", "HOLD_2", "HOLD_3"}
    BY DEF FsmTypes, NextHold
  <2> QED
    BY <2>1, <2>2 DEF FsmTypes, HoldStep
<1>5. txLen' \in TxLens \cup {0} /\ rxLen' \in RxLens \cup {0} /\ waitCyc' \in WaitCycs \cup {0}
  BY LengthTypesAfter DEF Tick
<1>6. txFifo' \in Seq(Bytes) /\ txOut' \in Sent
  BY DEF FsmTypes, Tick, QueueStep, Sent
<1>7. copi' \in SentBits
  <2>1. copi' = Zero \/ copi' = <<txOut, 7 - (t % 8)>>
    BY DEF Tick, pins, Bit
  <2>2. 7 - (t % 8) \in 0..7
    BY DEF FsmTypes
  <2> QED
    BY <2>1, <2>2 DEF FsmTypes, SentBits
<1>8. heard' \in Seq(SentBits)
  BY <1>7 DEF FsmTypes, Tick, peripheral
<1> QED
  BY <1>1, <1>2, <1>3, <1>4, <1>5, <1>6, <1>7, <1>8 DEF FsmTypes

LEMMA HoldingKept == ASSUME FsmTypes, Timed, Holding, Tick PROVE Holding'
<1>1. phase' = IF phase = 3 THEN 0 ELSE phase + 1
  BY PhaseStep
<1>2. Stays \/ Rests \/ Begins \/ Counts \/ Moves
  BY BusStep
<1>3. CASE dat = "WAIT" /\ UNCHANGED <<dat, goAux, txLen, rxLen, waitCyc>>
  BY <1>3 DEF Holding
<1>4. CASE /\ o_spi_idle
           /\ dat' = "HOLD_0" /\ goAux' = TRUE
           /\ txLen' \in TxLens /\ rxLen' \in RxLens /\ waitCyc' \in WaitCycs
  <2>1. st = "IDLE" /\ ~goAux
    BY <1>4 DEF o_spi_idle, Holding
  <2>2. st' = "IDLE"
    BY <1>2, <2>1 DEF Stays, Rests, Begins, Counts, Moves
  <2> QED
    BY <1>4, <2>2 DEF Holding
<1>5. CASE /\ dat # "WAIT" /\ dat' = NextHold[dat]
           /\ goAux' = (goAux /\ dat # "HOLD_3")
           /\ UNCHANGED <<txLen, rxLen, waitCyc>>
  <2>1. /\ dat \in {"HOLD_0", "HOLD_1", "HOLD_2", "HOLD_3"}
        /\ dat = "HOLD_0" => dat' = "HOLD_1"
        /\ dat = "HOLD_1" => dat' = "HOLD_2"
        /\ dat = "HOLD_2" => dat' = "HOLD_3"
        /\ dat = "HOLD_3" => dat' = "WAIT"
    BY <1>5 DEF FsmTypes, NextHold
  <2>2. goAux /\ (goAux' <=> dat' # "WAIT")
    BY <1>5, <2>1 DEF Holding
  <2>3. txLen' = txLen /\ txLen \in TxLens
    BY <1>5 DEF Holding
  <2>4. st = "START_D" => phase # 2
    BY <1>5, <2>1 DEF Holding
  <2>5. CASE st = "IDLE"
    <3>1. IF phase = 2 THEN st' = "START_D" /\ t' = 0 ELSE st' = "IDLE"
      BY <1>2, <2>2, <2>5 DEF Stays, Rests, Begins, Counts, Moves
    <3> QED
      BY <1>1, <1>5, <2>1, <2>2, <2>3, <2>5, <3>1 DEF Holding, FsmTypes
  <2>6. CASE st = "START_D"
    <3>1. st' = "START_D" /\ t' = t
      BY <1>2, <2>4, <2>6 DEF Stays, Rests, Begins, Counts, Moves
    <3> QED
      BY <1>1, <1>5, <2>1, <2>2, <2>3, <2>6, <3>1 DEF Holding, FsmTypes
  <2> QED
    BY <1>5, <2>5, <2>6 DEF Holding
<1> QED
  BY <1>3, <1>4, <1>5 DEF Tick, HoldStep

LEMMA TimedKept == ASSUME FsmTypes, Timed, Holding, Tick PROVE Timed'
<1>1. Stays \/ Rests \/ Begins \/ Counts \/ Moves
  BY BusStep
<1>2. CASE Rests
  BY <1>2 DEF Rests, Timed
<1>3. CASE Begins \/ (Stays /\ st = "IDLE")
  <2>1. CASE Begins
    <3>1. txLen' \in TxLens
      BY <2>1 DEF Begins, Holding, Tick, HoldStep, o_spi_idle
    <3>2. Length'[st'] = 4
      BY <2>1 DEF Begins, Length, WaitSs
    <3> QED
      BY <2>1, <3>1, <3>2 DEF Begins, Timed
  <2>2. CASE Stays /\ st = "IDLE"
    BY <2>2 DEF Stays, Timed
  <2> QED
    BY <1>3, <2>1, <2>2
<1>4. CASE (Stays \/ Counts) /\ st # "IDLE"
  <2>1. st' = st /\ t' < Length[st]
    BY <1>4 DEF Stays, Counts, Timed
  <2> QED
    BY <1>4, <2>1, LengthsKept DEF Timed
<1>5. CASE Moves
  <2>1. st # "IDLE" /\ t' = 0 /\ st' = Following[st] /\ txLen \in TxLens
    BY <1>5 DEF Moves, Timed
  <2>2. txLen' = txLen /\ rxLen' = rxLen /\ waitCyc' = waitCyc /\ Length' = Length
    BY <2>1, LengthsKept
  <2>3. st' \in {"WAIT", "RX"} => rxLen > 0
    BY <2>1, NextStates, LengthTypes DEF FsmTypes, States, AfterTx, Timed
  <2>4. st' = "WAIT" => waitCyc > 0
    BY <2>1, NextStates DEF FsmTypes, States, AfterTx
  <2>5. st' # "IDLE" => 0 < Length[st']
    <3>1. /\ st' \in {"START_D", "START_S", "STOP_S", "STOP_D"} => Length[st'] = 4
          /\ st' = "TX" => Length[st'] = 8 * txLen
          /\ st' = "WAIT" => Length[st'] = waitCyc
          /\ st' = "RX" => Length[st'] = 8 * rxLen
      BY DEF Length, WaitSs
    <3>2. st' \in States
      BY TypesKept DEF FsmTypes
    <3> QED
      BY <2>1, <2>3, <2>4, <3>1, <3>2, LengthTypes DEF States
  <2> QED
    BY <2>1, <2>2, <2>3, <2>5 DEF Timed
<1> QED
  BY <1>1, <1>2, <1>3, <1>4, <1>5 DEF Counts, Begins

LEMMA DrivenKept == ASSUME FsmTypes, Timed, Holding, Driven, Tick PROVE Driven'
<1>1. phase' = IF phase = 3 THEN 0 ELSE phase + 1
  BY PhaseStep
<1>2. Stays \/ Rests \/ Begins \/ Counts \/ Moves
  BY BusStep
<1>3. /\ sck' \in BOOLEAN /\ (sck' <=> Clocking /\ phase \in {1, 2})
      /\ csn' \in BOOLEAN /\ (csn' <=> ~Clocking /\ st \notin {"START_S", "STOP_S"})
      /\ copi' = IF st = "TX" /\ t < 8 * txLen THEN Bit(txOut, t) ELSE Zero
  BY DEF Tick, pins
<1>4. sck' \in BOOLEAN /\ csn' \in BOOLEAN
  BY <1>3
<1>5. phase # 2 => st' = st /\ t' = t
  BY <1>2 DEF Stays, Rests, Begins, Counts, Moves
<1>6. Clocking => st' \in {"TX", "WAIT", "RX", "STOP_S"}
  BY <1>2, NextStates DEF Clocking, Stays, Rests, Begins, Counts, Moves, AfterTx
<1>7. Clocking' \/ st' = "STOP_S" => st \in {"START_S", "TX", "WAIT", "RX", "STOP_S"}
  BY <1>2, NextStates DEF FsmTypes, States, Clocking, Stays, Rests, Begins, Counts, Moves, AfterTx
<1>8. sck' => ~csn' /\ phase' \in {2, 3} /\ st' \in {"TX", "WAIT", "RX", "STOP_S"}
  BY <1>1, <1>3, <1>6 DEF FsmTypes
<1>9. phase' = 2 /\ Clocking' => sck'
  BY <1>1, <1>3, <1>5 DEF FsmTypes, Clocking
<1>10. Clocking' \/ st' = "STOP_S" => ~csn'
  BY <1>3, <1>7 DEF Clocking
<1>11. st' = "START_S" /\ phase' # 3 => ~csn'
  BY <1>1, <1>3, <1>5 DEF FsmTypes, Clocking
<1>12. phase' \in {1, 2} /\ Clocking' =>
          copi' = IF st' = "TX" /\ t' < 8 * txLen' THEN Bit(txOut', t') ELSE Zero
  <2> SUFFICES ASSUME phase' \in {1, 2}, Clocking'
               PROVE  copi' = IF st' = "TX" /\ t' < 8 * txLen' THEN Bit(txOut', t') ELSE Zero
    OBVIOUS
  <2>1. phase \in {0, 1} /\ st' = st /\ t' = t /\ st # "IDLE" /\ st # "START_S"
    BY <1>1, <1>5 DEF FsmTypes, Clocking
  <2>2. txLen' = txLen
    BY <2>1, LengthsKept
  <2>3. txOut' = txOut
    BY <2>1 DEF Tick, QueueStep
  <2> QED
    BY <1>3, <2>1, <2>2, <2>3
<1> QED
  BY <1>4, <1>8, <1>9, <1>10, <1>11, <1>12 DEF Driven

(* What a clock enable adds to the bits heard.                             *)
LEMMA HeardStep ==
    ASSUME FsmTypes, Timed, Holding, Driven, Heard, Tick
    PROVE  /\ st \in {"IDLE", "START_D", "STOP_S", "STOP_D"} => heard' = heard
           /\ st \in {"IDLE", "START_D", "STOP_D"} => csn'
           /\ st = "START_S" => heard' = << >>
           /\ Clocking => Len(heard') = IF phase = 1 THEN Len(heard) + 1 ELSE Len(heard)
<1>1. /\ sck' \in BOOLEAN /\ (sck' <=> Clocking /\ phase \in {1, 2})
      /\ csn' \in BOOLEAN /\ (csn' <=> ~Clocking /\ st \notin {"START_S", "STOP_S"})
  BY DEF Tick, pins
<1>2. heard' = IF csn /\ ~csn' THEN << >>
               ELSE IF ~csn' /\ sck' /\ ~sck THEN Append(heard, copi') ELSE heard
  BY DEF Tick, peripheral
<1>3. CASE st \in {"IDLE", "START_D", "STOP_D"}
  <2>1. csn'
    BY <1>1, <1>3 DEF Clocking
  <2> QED
    BY <1>2, <1>3, <2>1 DEF Clocking
<1>4. CASE st = "STOP_S"
  <2>1. ~csn /\ ~sck'
    BY <1>1, <1>4 DEF Clocking, Driven
  <2> QED
    BY <1>2, <1>4, <2>1 DEF Clocking
<1>5. CASE st = "START_S"
  <2>1. ~csn' /\ ~sck'
    BY <1>1, <1>5 DEF Clocking
  <2>2. ~csn => heard = << >>
    BY <1>5 DEF Heard
  <2> QED
    BY <1>2, <1>5, <2>1, <2>2 DEF Clocking
<1>6. CASE Clocking
  <2>1. ~csn /\ ~csn'
    BY <1>1, <1>6 DEF Driven
  <2>2. sck' /\ ~sck <=> phase = 1
    BY <1>1, <1>6 DEF Driven, FsmTypes
  <2>3. heard' = IF phase = 1 THEN Append(heard, copi') ELSE heard
    BY <1>2, <2>1, <2>2
  <2>4. Len(Append(heard, copi')) = Len(heard) + 1
    BY DEF FsmTypes
  <2> QED
    BY <1>6, <2>3, <2>4 DEF Clocking
<1> QED
  BY <1>3, <1>4, <1>5, <1>6 DEF Clocking, FsmTypes, States

LEMMA HeardKept == ASSUME FsmTypes, Timed, Holding, Driven, Heard, Tick PROVE Heard'
<1>1. phase' = IF phase = 3 THEN 0 ELSE phase + 1
  BY PhaseStep
<1>2. Stays \/ Rests \/ Begins \/ Counts \/ Moves
  BY BusStep
<1>3. CASE st = "IDLE"
  <2>1. heard' = heard /\ csn' /\ st' \in {"IDLE", "START_D"}
    BY <1>2, <1>3, HeardStep, NextStates DEF Stays, Rests, Begins, Counts, Moves
  <2>2. ASSUME o_spi_idle' PROVE Len(heard) = Total'
    <3>1. dat' = "WAIT" /\ st' = "IDLE"
      BY <2>2 DEF o_spi_idle
    <3>2. dat = "WAIT"
      <4>1. SUFFICES ASSUME dat # "WAIT" PROVE FALSE
        OBVIOUS
      <4>2. dat' = NextHold[dat]
        BY <4>1 DEF Tick, HoldStep, o_spi_idle
      <4>3. dat = "HOLD_3"
        BY <3>1, <4>1, <4>2 DEF FsmTypes, NextHold
      <4>4. phase = 2 /\ goAux
        BY <1>3, <4>3 DEF Holding
      <4> QED
        BY <1>2, <1>3, <3>1, <4>4 DEF Stays, Rests, Begins, Counts, Moves
    <3>3. txLen' = txLen /\ rxLen' = rxLen /\ waitCyc' = waitCyc
      BY <3>1, <3>2 DEF Tick, HoldStep
    <3>4. Len(heard) = Total
      BY <1>3, <3>2 DEF Heard, o_spi_idle
    <3> QED
      BY <3>3, <3>4 DEF Total
  <2> QED
    BY <2>1, <2>2 DEF Heard
<1>4. CASE st = "START_D"
  <2>1. csn' /\ st' \in {"START_D", "START_S"}
    BY <1>2, <1>4, HeardStep, NextStates DEF Stays, Rests, Begins, Counts, Moves
  <2> QED
    BY <2>1 DEF Heard, o_spi_idle
<1>5. CASE st = "STOP_D" \/ st = "STOP_S"
  <2>1. heard' = heard /\ st' \in {"STOP_S", "STOP_D", "IDLE"}
    BY <1>2, <1>5, HeardStep, NextStates DEF Stays, Rests, Begins, Counts, Moves
  <2>2. Len(heard) = Total /\ Total' = Total
    BY <1>5, LengthsKept DEF Heard
  <2> QED
    BY <2>1, <2>2 DEF Heard
<1>6. CASE st = "START_S"
  <2>1. heard' = << >> /\ st' \in {"START_S", "TX"}
    BY <1>2, <1>6, HeardStep, NextStates DEF Stays, Rests, Begins, Counts, Moves
  <2>2. st' = "TX" => t' = 0 /\ phase' = 3
    BY <1>1, <1>2, <1>6 DEF Stays, Rests, Begins, Counts, Moves
  <2>3. st' = "TX" => Len(heard') = Ticked'
    BY <2>1, <2>2 DEF Ticked
  <2> QED
    BY <2>1, <2>3 DEF Heard, o_spi_idle
<1>7. CASE Clocking
  <2>1. Len(heard') = IF phase = 1 THEN Len(heard) + 1 ELSE Len(heard)
    BY <1>7, HeardStep
  <2>2. /\ txLen' = txLen /\ rxLen' = rxLen /\ waitCyc' = waitCyc /\ Total' = Total
        /\ txLen \in Nat /\ rxLen \in Nat /\ waitCyc \in Nat /\ t \in Nat /\ Len(heard) \in Nat
    BY <1>7, LengthsKept, LengthTypes DEF Clocking, FsmTypes
  <2>3. CASE Stays \/ Counts
    <3>1. st' = st
      BY <2>3 DEF Stays, Counts
    <3>2. Ticked' = IF phase = 1 THEN Ticked + 1 ELSE Ticked
      BY <1>1, <2>2, <2>3 DEF Ticked, Stays, Counts, FsmTypes
    <3>3. Ticked \in Nat
      BY <2>2 DEF Ticked
    <3>4. CASE st = "TX"
      BY <2>1, <2>2, <3>1, <3>2, <3>3, <3>4 DEF Heard, o_spi_idle
    <3>5. CASE st = "WAIT"
      BY <2>1, <2>2, <3>1, <3>2, <3>3, <3>5 DEF Heard, o_spi_idle
    <3>6. CASE st = "RX"
      BY <2>1, <2>2, <3>1, <3>2, <3>3, <3>6 DEF Heard, o_spi_idle
    <3> QED
      BY <1>7, <3>4, <3>5, <3>6 DEF Clocking
  <2>4. CASE Moves
    <3>1. /\ phase = 2 /\ st' = Following[st] /\ t' = 0 /\ phase' = 3
          /\ Ticked = Length[st] /\ Ticked' = 0
      BY <1>1, <2>4 DEF Moves, Ticked
    <3>2. Len(heard') = Len(heard)
      BY <2>1, <3>1
    <3>3. CASE st = "TX"
      <4>1. Len(heard) = 8 * txLen
        BY <3>1, <3>3, Lengths DEF Heard
      <4>2. st' = AfterTx
        BY <3>1, <3>3, NextStates
      <4> QED
        BY <2>2, <3>1, <3>2, <4>1, <4>2 DEF Heard, AfterTx, Total, o_spi_idle
    <3>4. CASE st = "WAIT"
      <4>1. Len(heard) = 8 * txLen + waitCyc
        BY <3>1, <3>4, Lengths DEF Heard
      <4>2. st' = "RX"
        BY <3>1, <3>4, NextStates
      <4> QED
        BY <2>2, <3>1, <3>2, <4>1, <4>2 DEF Heard, o_spi_idle
    <3>5. CASE st = "RX"
      <4>1. Len(heard) = 8 * txLen + waitCyc + 8 * rxLen
        BY <3>1, <3>5, Lengths DEF Heard
      <4>2. st' = "STOP_S" /\ rxLen > 0
        BY <3>1, <3>5, NextStates DEF Timed
      <4>3. Len(heard) = Total
        BY <2>2, <4>1, <4>2 DEF Total
      <4> QED
        BY <2>2, <3>2, <4>2, <4>3 DEF Heard, o_spi_idle
    <3> QED
      BY <1>7, <3>3, <3>4, <3>5 DEF Clocking
  <2> QED
    BY <1>2, <1>7, <2>3, <2>4 DEF Rests, Begins, Clocking
<1> QED
  BY <1>3, <1>4, <1>5, <1>6, <1>7 DEF FsmTypes, States, Clocking

-----------------------------------------------------------------------------
(* The types of the registers on the way of the answer.                    *)

LEMMA ZeroIsGot == Zero \in GotBits
  BY DEF GotBits

(* The peripheral answers with its own bits.                               *)
LEMMA AnswerTypes ==
    ASSUME FsmTypes, RestTypes, NEW n \in Nat, n < 8 * rxLen
    PROVE  Bit(Answer(rxLen - n \div 8), n) \in GotBits
<1>1. rxLen \in Nat /\ rxLen <= Len(Answers) /\ Len(Answers) \in Nat
  BY LengthAssumption DEF FsmTypes
<1>2. n \div 8 \in Nat /\ n \div 8 < rxLen
  BY <1>1
<1>3. rxLen - n \div 8 \in 1..Len(Answers)
  BY <1>1, <1>2
<1>4. Answer(rxLen - n \div 8) \in Got
  BY <1>3 DEF Answer, Got
<1>5. 7 - (n % 8) \in 0..7
  OBVIOUS
<1> QED
  BY <1>4, <1>5 DEF Bit, GotBits

(* What is shifted in is a byte of the answer or garbled.                  *)
LEMMA ByteTypes == ASSUME RestTypes PROVE ByteOf(rxIn) \in Got
<1>1. CASE rxIn = [i \in 1..8 |-> Bit(rxIn[1][1], i - 1)]
  <2>1. rxIn[1] = <<rxIn[1][1], 7>>
    <3>1. 1 \in 1..8
      OBVIOUS
    <3>2. rxIn[1] = Bit(rxIn[1][1], 1 - 1)
      BY <1>1, <3>1, Zenon
    <3>3. 7 - ((1 - 1) % 8) = 7
      OBVIOUS
    <3> QED
      BY <3>2, <3>3 DEF Bit
  <2>2. rxIn[1] \in GotBits
    BY DEF RestTypes
  <2>3. rxIn[1] # Zero
    BY <2>1 DEF Zero
  <2> QED
    BY <1>1, <2>2, <2>3 DEF ByteOf, GotBits
<1>2. CASE rxIn # [i \in 1..8 |-> Bit(rxIn[1][1], i - 1)]
  BY <1>2 DEF ByteOf, Got
<1> QED
  BY <1>1, <1>2

(* The length of a queue after a byte is written.                          *)
LEMMA Joined ==
    ASSUME NEW S, NEW a \in Seq(S), NEW b \in Seq(S)
    PROVE  a \o b \in Seq(S) /\ Len(a \o b) = Len(a) + Len(b) /\ Len(a) \in Nat /\ Len(b) \in Nat
  OBVIOUS

(* The RX queue never overflows.                                           *)
LEMMA RxQueueTypes ==
    ASSUME FsmTypes, RestTypes, phase' = (phase + 1) % 4, rxCapture, NEW go, NEW deq, rxQueue(deq, go)
    PROVE  /\ rxFifo' \in Seq(Got) /\ Len(rxFifo') <= Depth /\ rxOut' \in Got \cup {"none"}
           /\ rxWe' \in BOOLEAN /\ received' \in Nat
           /\ rxWe' => phase' = 0 /\ Len(rxFifo') < Depth
<1> DEFINE taken == deq /\ o_rx_avail
           rest == IF taken THEN Tail(rxFifo) ELSE rxFifo
           written == IF rxWe THEN <<ByteOf(rxIn)>> ELSE << >>
<1>1. /\ rxFifo' = rest \o written
      /\ rxOut' = IF taken THEN Head(rxFifo) ELSE rxOut
      /\ received' = IF go.busy THEN 0 ELSE received + Len(written)
  BY DEF rxQueue
<1>2. Depth \in Nat /\ rxFifo \in Seq(Got) /\ Len(rxFifo) <= Depth
  BY LengthAssumption DEF RestTypes
<1>3. taken => rxFifo # << >>
  BY DEF o_rx_avail
<1> HIDE DEF taken
<1>4. rest \in Seq(Got) /\ Len(rest) <= Len(rxFifo)
  BY <1>2, <1>3
<1>5. written \in Seq(Got) /\ Len(written) = IF rxWe THEN 1 ELSE 0
  BY ByteTypes
<1>6. rxOut' \in Got \cup {"none"}
  BY <1>1, <1>2, <1>3 DEF RestTypes
<1>7. rxWe => phase = 0 /\ Len(rxFifo) < Depth
  BY DEF RestTypes
<1>8. rxWe' \in BOOLEAN /\ (rxWe' => phase = 3 /\ Len(rxFifo) < Depth)
  <2> DEFINE capturing == delayed[3].st = "RX"
             last == delayed[3].t % 8 = 7
  <2>1. rxWe' = (phase = 3 /\ capturing /\ last /\ Len(rxFifo) < Depth)
    BY Zenon DEF rxCapture
  <2> HIDE DEF capturing, last
  <2> QED
    BY <2>1
<1> HIDE DEF rest, written
<1>9. rxFifo' \in Seq(Got) /\ Len(rxFifo') = Len(rest) + Len(written) /\ Len(rest) \in Nat
  BY <1>1, <1>4, <1>5, Joined, Zenon
<1>10. Len(rxFifo') <= Depth /\ (phase = 3 => Len(rxFifo') <= Len(rxFifo))
  BY <1>2, <1>4, <1>5, <1>7, <1>9
<1>11. received' \in Nat
  BY <1>1, <1>5 DEF RestTypes
<1>12. rxWe' => phase' = 0 /\ Len(rxFifo') < Depth
  BY <1>2, <1>8, <1>9, <1>10
<1> QED
  BY <1>6, <1>8, <1>9, <1>10, <1>11, <1>12

LEMMA ClockTypes ==
    ASSUME FsmTypes, Timed, RestTypes, Tick, NEW enq \in Seq(Bytes), NEW go, NEW deq,
           Len(txFifo) + Len(enq) <= Depth, Clock(enq, go, deq)
    PROVE  RestTypes'
<1>1. /\ rxFifo' \in Seq(Got) /\ Len(rxFifo') <= Depth /\ rxOut' \in Got \cup {"none"}
      /\ rxWe' \in BOOLEAN /\ received' \in Nat
      /\ rxWe' => phase' = 0 /\ Len(rxFifo') < Depth
  <2>1. phase' = (phase + 1) % 4 /\ rxCapture /\ rxQueue(deq, go)
    BY Zenon DEF Clock
  <2> QED
    BY <2>1, RxQueueTypes, Zenon
<1>2. rxIn' \in [1..8 -> GotBits]
  <2>1. Shifted \in [1..8 -> GotBits]
    BY DEF Shifted, RestTypes
  <2>2. rxIn' \in {rxIn, Shifted, [i \in 1..8 |-> Zero]}
    BY DEF Clock, rxCapture
  <2> QED
    BY <2>1, <2>2, ZeroIsGot DEF RestTypes
<1>3. cipoMeta' \in GotBits /\ cipoSync' \in GotBits
  BY DEF Tick, pins, RestTypes
<1>4. cipo' \in GotBits
  <2> DEFINE n == Len(heard) - AnswerFrom
  <2>1. Len(heard) \in Nat /\ AnswerFrom \in Nat
    BY LengthTypes DEF FsmTypes, AnswerFrom
  <2>2. \/ cipo' = cipo \/ cipo' = Zero
        \/ Len(heard) >= AnswerFrom /\ n < 8 * rxLen /\ cipo' = Bit(Answer(rxLen - n \div 8), n)
    BY DEF Tick, peripheral
  <2>3. Len(heard) >= AnswerFrom => n \in Nat
    BY <2>1
  <2> HIDE DEF n
  <2> QED
    BY <2>2, <2>3, AnswerTypes, ZeroIsGot DEF RestTypes
<1>5. rxValid' \in BOOLEAN
  BY DEF Clock, rxQueue, o_rx_avail
<1>6. delayed' \in [1..3 -> [st : States, t : 0..TMax]]
  <2>1. delayed' = <<[st |-> st, t |-> t], delayed[1], delayed[2]>>
    BY DEF Tick, spiFsm
  <2>2. [st |-> st, t |-> t] \in [st : States, t : 0..TMax]
    BY DEF FsmTypes
  <2>3. delayed[1] \in [st : States, t : 0..TMax] /\ delayed[2] \in [st : States, t : 0..TMax]
    BY DEF RestTypes
  <2> QED
    BY <2>1, <2>2, <2>3
<1>7. Len(txFifo') <= Depth /\ fetched' \in Nat
  <2>1. s_data_fifo_tx_re => txFifo # << >>
    BY Zenon DEF s_data_fifo_tx_re
  <2>2. /\ txFifo' = (IF s_data_fifo_tx_re THEN Tail(txFifo) ELSE txFifo) \o enq
        /\ fetched' = IF go.busy THEN 0 ELSE IF s_data_fifo_tx_re THEN fetched + 1 ELSE fetched
    BY Zenon DEF Clock, txQueue
  <2>3. txFifo \in Seq(Bytes) /\ fetched \in Nat /\ Depth \in Nat
    BY LengthAssumption DEF FsmTypes, RestTypes
  <2>4. CASE s_data_fifo_tx_re
    <3>1. Tail(txFifo) \in Seq(Bytes) /\ Len(Tail(txFifo)) <= Len(txFifo)
      BY <2>1, <2>3, <2>4
    <3>2. txFifo' = Tail(txFifo) \o enq
      BY <2>2, <2>4
    <3> QED
      BY <2>2, <2>3, <2>4, <3>1, <3>2
  <2>5. CASE ~s_data_fifo_tx_re
    BY <2>2, <2>3, <2>5
  <2> QED
    BY <2>4, <2>5
<1> QED
  BY <1>1, <1>2, <1>3, <1>4, <1>5, <1>6, <1>7 DEF RestTypes

LEMMA RestKept == ASSUME FsmTypes, Timed, RestTypes, Tick, Next PROVE RestTypes' \/ Reset
<1>1. Depth \in Nat /\ Len(txFifo) \in Nat /\ TxLens \subseteq 1..Depth
  BY LengthAssumption DEF FsmTypes
<1>2. ASSUME NEW b \in Bytes, Enqueue(b) PROVE RestTypes'
  <2>1. Len(txFifo) + Len(<<b>>) <= Depth /\ <<b>> \in Seq(Bytes)
    BY <1>1, <1>2 DEF Enqueue
  <2>2. Clock(<<b>>, NoGo, FALSE)
    BY <1>2 DEF Enqueue
  <2> QED
    BY <2>1, <2>2, ClockTypes, Zenon
<1>3. ASSUME NEW b \in Bytes, Go(b) PROVE RestTypes'
  <2>1. PICK rx \in RxLens, wait \in WaitCycs :
           Clock(<<b>>, [busy |-> TRUE, tx |-> Len(txFifo) + 1, rx |-> rx, wait |-> wait], FALSE)
    BY <1>3 DEF Go
  <2>2. Len(txFifo) + Len(<<b>>) <= Depth /\ <<b>> \in Seq(Bytes)
    BY <1>1, <1>3 DEF Go
  <2> QED
    BY <2>1, <2>2, ClockTypes, Zenon
<1>4. ASSUME Dequeue \/ Wait PROVE RestTypes'
  <2>1. Clock(<< >>, NoGo, TRUE) \/ Clock(<< >>, NoGo, FALSE)
    BY <1>4 DEF Dequeue, Wait
  <2>2. Len(txFifo) + Len(<< >>) <= Depth /\ << >> \in Seq(Bytes)
    BY <1>1 DEF RestTypes
  <2> QED
    BY <2>1, <2>2, ClockTypes, Zenon
<1> QED
  BY <1>2, <1>3, <1>4 DEF Next

-----------------------------------------------------------------------------
(* The invariant holds in every state.                                     *)

(* Initially, after a reset, and after every other step.                   *)
LEMMA SpiStarts == Init => SpiInv
<1> SUFFICES ASSUME Init PROVE SpiInv
  OBVIOUS
<1>1. /\ phase = 0 /\ st = "IDLE" /\ t = 0 /\ dat = "WAIT" /\ goAux = FALSE
      /\ txLen = 0 /\ rxLen = 0 /\ waitCyc = 0
      /\ txFifo = << >> /\ txOut = "none" /\ heard = << >> /\ copi = Zero
      /\ sck = FALSE /\ csn = TRUE
  BY DEF Init
<1>2. FsmTypes
  <2>1. Zero \in SentBits /\ "none" \in Sent /\ 0 \in 0..TMax
    BY LengthAssumption DEF SentBits, Sent
  <2>2. txFifo \in Seq(Bytes) /\ heard \in Seq(SentBits)
    BY <1>1
  <2>3. copi \in SentBits /\ txOut \in Sent
    BY <1>1, <2>1
  <2>4. phase \in 0..3 /\ st \in States /\ t \in 0..TMax
    BY <1>1, <2>1 DEF States
  <2> QED
    BY <1>1, <2>1, <2>2, <2>3, <2>4 DEF FsmTypes
<1>3. Holding /\ Timed
  BY <1>1 DEF Holding, Timed
<1>4. Driven
  BY <1>1 DEF Driven, Clocking
<1>5. Heard
  BY <1>1 DEF Heard, Total
<1>6. RestTypes
  <2>1. /\ delayed = [i \in 1..3 |-> [st |-> "IDLE", t |-> 0]]
        /\ rxIn = [i \in 1..8 |-> Zero] /\ rxWe = FALSE /\ rxValid = FALSE
        /\ rxFifo = << >> /\ rxOut = "none" /\ fetched = 0 /\ received = 0
        /\ cipo = Zero /\ cipoMeta = Zero /\ cipoSync = Zero
    BY DEF Init
  <2>2. [st |-> "IDLE", t |-> 0] \in [st : States, t : 0..TMax]
    BY LengthAssumption DEF States
  <2>3. delayed \in [1..3 -> [st : States, t : 0..TMax]]
    BY <2>1, <2>2
  <2>4. rxIn \in [1..8 -> GotBits]
    BY <2>1, ZeroIsGot
  <2>5. rxFifo \in Seq(Got) /\ Len(rxFifo) <= Depth /\ Len(txFifo) <= Depth
    BY <1>1, <2>1, LengthAssumption
  <2> QED
    BY <2>1, <2>3, <2>4, <2>5, ZeroIsGot DEF RestTypes
<1> QED
  BY <1>2, <1>3, <1>4, <1>5, <1>6 DEF SpiInv

LEMMA SpiRestarts == Reset => SpiInv'
<1> SUFFICES ASSUME Reset PROVE SpiInv'
  OBVIOUS
<1>1. /\ phase' = 0 /\ st' = "IDLE" /\ t' = 0 /\ dat' = "WAIT" /\ goAux' = FALSE
      /\ txLen' = 0 /\ rxLen' = 0 /\ waitCyc' = 0
      /\ txFifo' = << >> /\ txOut' = "none" /\ heard' = << >> /\ copi' = Zero
      /\ sck' = FALSE /\ csn' = TRUE
  BY DEF Reset
<1>2. FsmTypes'
  <2>1. Zero \in SentBits /\ "none" \in Sent /\ 0 \in 0..TMax
    BY LengthAssumption DEF SentBits, Sent
  <2>2. txFifo' \in Seq(Bytes) /\ heard' \in Seq(SentBits)
    BY <1>1 DEF SentBits
  <2>3. copi' \in SentBits /\ txOut' \in Sent
    BY <1>1, <2>1
  <2>4. phase' \in 0..3 /\ st' \in States /\ t' \in 0..TMax
    BY <1>1, <2>1 DEF States
  <2> QED
    BY <1>1, <2>1, <2>2, <2>3, <2>4 DEF FsmTypes
<1>3. Holding' /\ Timed'
  BY <1>1 DEF Holding, Timed
<1>4. Driven'
  BY <1>1 DEF Driven, Clocking
<1>5. Heard'
  BY <1>1 DEF Heard, Total
<1>6. RestTypes'
  <2>1. /\ delayed' = [i \in 1..3 |-> [st |-> "IDLE", t |-> 0]]
        /\ rxIn' = [i \in 1..8 |-> Zero] /\ rxWe' = FALSE /\ rxValid' = FALSE
        /\ rxFifo' = << >> /\ rxOut' = "none" /\ fetched' = 0 /\ received' = 0
        /\ cipo' = Zero /\ cipoMeta' = Zero /\ cipoSync' = Zero
    BY DEF Reset
  <2>2. [st |-> "IDLE", t |-> 0] \in [st : States, t : 0..TMax]
    BY LengthAssumption DEF States
  <2>3. delayed' \in [1..3 -> [st : States, t : 0..TMax]]
    BY <2>1, <2>2
  <2>4. rxIn' \in [1..8 -> GotBits]
    BY <2>1, ZeroIsGot
  <2>5. rxFifo' \in Seq(Got) /\ Len(rxFifo') <= Depth /\ Len(txFifo') <= Depth
    BY <1>1, <2>1, LengthAssumption
  <2> QED
    BY <2>1, <2>3, <2>4, <2>5, ZeroIsGot DEF RestTypes
<1> QED
  BY <1>2, <1>3, <1>4, <1>5, <1>6 DEF SpiInv

LEMMA SpiKept == SpiInv /\ [Next]_vars => SpiInv'
<1> SUFFICES ASSUME SpiInv, [Next]_vars PROVE SpiInv'
  OBVIOUS
<1>1. CASE Tick /\ Next /\ ~Reset
  BY <1>1, RestKept, TypesKept, HoldingKept, TimedKept, DrivenKept, HeardKept DEF SpiInv
<1>2. CASE Reset
  BY <1>2, SpiRestarts
<1>3. CASE UNCHANGED vars
  <2>1. UNCHANGED <<phase, st, t, dat, goAux, txLen, rxLen, waitCyc, txFifo, txOut, heard, copi, sck, csn>>
    BY <1>3 DEF vars, fsmVars, fifoVars, pinVars
  <2>2. Length' = Length
    BY <2>1 DEF Length, WaitSs
  <2>3. FsmTypes'
    BY <2>1 DEF SpiInv, FsmTypes
  <2>4. Holding' /\ Timed'
    BY <2>1, <2>2 DEF SpiInv, Holding, Timed
  <2>5. Driven'
    BY <2>1 DEF SpiInv, Driven, Clocking
  <2>6. Heard'
    BY <2>1 DEF SpiInv, Heard, Total, Ticked, o_spi_idle
  <2>7. RestTypes'
    <3>1. UNCHANGED <<delayed, rxIn, rxWe, rxFifo, rxOut, rxValid, fetched, received, cipo, cipoMeta, cipoSync>>
      BY <1>3 DEF vars, fsmVars, fifoVars, pinVars
    <3> QED
      BY <2>1, <3>1 DEF SpiInv, RestTypes
  <2> QED
    BY <2>3, <2>4, <2>5, <2>6, <2>7 DEF SpiInv
<1> QED
  BY <1>1, <1>2, <1>3, Ticks DEF SpiInv

(* The invariant holds in every state the master reaches.                  *)
THEOREM SpiInvariance == Spec => []SpiInv
BY SpiStarts, SpiKept, PTL DEF Spec

(* For all lengths of the transfers and both queues, every register keeps  *)
(* its range: the timer stops before its maximum and no queue overflows.   *)
THEOREM RegistersKeepTypes == Spec => []TypeOK
<1>1. SpiInv => TypeOK
  BY DEF SpiInv, FsmTypes, RestTypes, Driven, TypeOK
<1> QED
  BY <1>1, SpiInvariance, PTL

(* For all lengths of the transfers, the peripheral was given exactly the  *)
(* clocks of the command, the wait and the answer by the time it was       *)
(* deselected (p_spi_fsm_comb).                                            *)
THEOREM ClocksAreCounted == Spec => []ClocksCounted
<1>1. SpiInv => ClocksCounted
  BY DEF SpiInv, Heard, Total, ClocksCounted
<1> QED
  BY <1>1, SpiInvariance, PTL

(* For all lengths of the transfers, the pins keep to SPI mode 0 but for a *)
(* reset (p_reg_spi_fsm_out).                                              *)
THEOREM PinsKeepProtocol == Spec => BusProtocol
<1> DEFINE Protocol == Reset \/ ((sck' # sck => ~csn /\ ~csn') /\ (copi' # copi => ~sck'))
<1>1. SpiInv /\ [Next]_vars => [Protocol]_vars
  <2> SUFFICES ASSUME SpiInv, Tick PROVE Protocol
    BY Ticks DEF SpiInv
  <2>1. FsmTypes /\ Timed /\ Driven
    BY DEF SpiInv
  <2>2. /\ sck' \in BOOLEAN /\ (sck' <=> Clocking /\ phase \in {1, 2})
        /\ csn' \in BOOLEAN /\ (csn' <=> ~Clocking /\ st \notin {"START_S", "STOP_S"})
        /\ copi' = IF st = "TX" /\ t < 8 * txLen THEN Bit(txOut, t) ELSE Zero
    BY DEF Tick, pins
  <2>3. sck' # sck => ~csn /\ ~csn'
    BY <2>1, <2>2 DEF Driven, Clocking
  <2>4. sck' => copi' = copi
    BY <2>1, <2>2 DEF Driven
  <2> QED
    BY <2>3, <2>4
<1> QED
  BY <1>1, SpiInvariance, PTL DEF Spec, BusProtocol

-----------------------------------------------------------------------------
(* How long a transfer takes.                                              *)

(* Edges of the bit clock from the go to the end, but for the one at which *)
(* the bus leaves IDLE, and those still to come at each point.             *)
AfterCommand == IF rxLen = 0 THEN 0 ELSE waitCyc + 8 * rxLen
Edges == 16 + 8 * txLen + AfterCommand

EdgesLeft ==
    CASE st = "IDLE"    -> 1 + Edges
      [] st = "START_D" -> Edges - t
      [] st = "START_S" -> Edges - 4 - t
      [] st = "TX"      -> 8 * txLen + AfterCommand + 8 - t
      [] st = "WAIT"    -> waitCyc + 8 * rxLen + 8 - t
      [] st = "RX"      -> 8 * rxLen + 8 - t
      [] st = "STOP_S"  -> 8 - t
      [] st = "STOP_D"  -> 4 - t

(* Clock enables before the next edge, and until the master is idle.       *)
ToEdge == IF phase = 3 THEN 3 ELSE 2 - phase
ClocksLeft == IF o_spi_idle THEN 0 ELSE 4 * (EdgesLeft - 1) + ToEdge + 1

(* A busy master is counting down, an idle one starts from the length of   *)
(* the transfer.                                                           *)
Countdown ==
    IF o_spi_idle THEN ~o_spi_idle' => ClocksLeft' = 4 * Edges' + ToEdge' + 1
    ELSE ClocksLeft' = ClocksLeft - 1

(* The same as facts of each state.                                        *)
EdgeTable ==
    /\ st = "IDLE" => EdgesLeft = 1 + Edges
    /\ st = "START_D" => EdgesLeft = Edges - t
    /\ st = "START_S" => EdgesLeft = Edges - 4 - t
    /\ st = "TX" => EdgesLeft = 8 * txLen + AfterCommand + 8 - t
    /\ st = "WAIT" => EdgesLeft = waitCyc + 8 * rxLen + 8 - t
    /\ st = "RX" => EdgesLeft = 8 * rxLen + 8 - t
    /\ st = "STOP_S" => EdgesLeft = 8 - t
    /\ st = "STOP_D" => EdgesLeft = 4 - t

LEMMA EdgesIn == EdgeTable
  BY DEF EdgeTable, EdgesLeft

(* Edges are counted down, and the last one makes the master idle.         *)
LEMMA EdgesCount ==
    ASSUME SpiInv, SpiInv', Tick, ~o_spi_idle
    PROVE  IF o_spi_idle' THEN phase = 2 /\ EdgesLeft = 1
           ELSE EdgesLeft' = IF phase = 2 THEN EdgesLeft - 1 ELSE EdgesLeft
<1>1. Stays \/ Rests \/ Begins \/ Counts \/ Moves
  BY BusStep DEF SpiInv
<1>2. UNCHANGED <<txLen, rxLen, waitCyc>>
  BY DEF Tick, HoldStep
<1>3. Edges' = Edges /\ AfterCommand' = AfterCommand
  BY <1>2 DEF Edges, AfterCommand
<1>4. txLen \in Nat /\ rxLen \in Nat /\ waitCyc \in Nat /\ t \in Nat
  BY LengthTypes, LengthAssumption DEF SpiInv, FsmTypes
<1>5. AfterCommand \in Nat /\ Edges = 16 + 8 * txLen + AfterCommand
  BY <1>4 DEF AfterCommand, Edges
<1>6. EdgeTable /\ EdgeTable'
  BY EdgesIn, PTL
<1>7. FsmTypes /\ Timed /\ Holding
  BY DEF SpiInv
<1>8. /\ goAux <=> dat # "WAIT"
      /\ st # "IDLE" /\ st # "START_D" => dat = "WAIT" /\ dat' = "WAIT"
  BY <1>7 DEF Holding, Tick, HoldStep, o_spi_idle
<1>9. CASE Stays
  <2>1. EdgesLeft' = EdgesLeft
    BY <1>2, <1>3, <1>9 DEF Stays, EdgesLeft
  <2>2. ~o_spi_idle'
    <3>1. st = "IDLE" => dat \in {"HOLD_0", "HOLD_1", "HOLD_2"}
      BY <1>7, <1>9 DEF o_spi_idle, Stays, Holding, FsmTypes
    <3>2. st = "IDLE" => dat' # "WAIT"
      BY <3>1 DEF Tick, HoldStep, NextHold
    <3> QED
      BY <1>9, <3>2 DEF Stays, o_spi_idle
  <2> QED
    BY <1>9, <2>1, <2>2 DEF Stays
<1>10. CASE Rests
  BY <1>8, <1>10 DEF Rests, o_spi_idle
<1>11. CASE Begins
  <2>1. EdgesLeft = 1 + Edges /\ EdgesLeft' = Edges' - 0
    BY <1>6, <1>11 DEF Begins, EdgeTable
  <2> QED
    BY <1>3, <1>5, <1>11, <2>1 DEF Begins, o_spi_idle
<1>12. CASE Counts
  <2>1. phase = 2 /\ st # "IDLE" /\ st' = st /\ t' = t + 1
    BY <1>12 DEF Counts
  <2>2. EdgesLeft' = EdgesLeft - 1
    BY <1>2, <1>3, <1>4, <1>5, <1>6, <1>7, <2>1 DEF EdgeTable, FsmTypes, States
  <2> QED
    BY <2>1, <2>2 DEF o_spi_idle
<1>13. CASE Moves
  <2>1. phase = 2 /\ st # "IDLE" /\ t + 1 = Length[st] /\ st' = Following[st] /\ t' = 0
    BY <1>13 DEF Moves
  <2>2. CASE st = "STOP_D"
    <3>1. t + 1 = 4 /\ EdgesLeft = 4 - t
      BY <1>6, <2>1, <2>2, Lengths DEF EdgeTable
    <3>2. st' = "IDLE" /\ dat' = "WAIT"
      BY <1>8, <2>1, <2>2, NextStates
    <3> QED
      BY <1>4, <2>1, <3>1, <3>2 DEF o_spi_idle
  <2>3. CASE st # "STOP_D"
    <3>1. st' # "IDLE"
      BY <1>7, <2>1, <2>3, NextStates DEF FsmTypes, States, AfterTx
    <3>2. EdgesLeft' = EdgesLeft - 1
      <4>1. CASE st = "START_D"
        BY <1>2, <1>3, <1>4, <1>5, <1>6, <2>1, <4>1, Lengths, NextStates DEF EdgeTable
      <4>2. CASE st = "START_S"
        BY <1>2, <1>3, <1>4, <1>5, <1>6, <2>1, <4>2, Lengths, NextStates DEF EdgeTable
      <4>3. CASE st = "TX"
        <5>1. t + 1 = 8 * txLen /\ EdgesLeft = 8 * txLen + AfterCommand + 8 - t /\ st' = AfterTx
          BY <1>6, <2>1, <4>3, Lengths, NextStates DEF EdgeTable
        <5>2. EdgesLeft' = AfterCommand + 8
          BY <1>2, <1>4, <1>6, <2>1, <5>1 DEF EdgeTable, AfterTx, AfterCommand
        <5> QED
          BY <1>4, <1>5, <5>1, <5>2
      <4>4. CASE st = "WAIT"
        BY <1>2, <1>4, <1>6, <2>1, <4>4, Lengths, NextStates DEF EdgeTable
      <4>5. CASE st = "RX"
        BY <1>2, <1>4, <1>6, <2>1, <4>5, Lengths, NextStates DEF EdgeTable
      <4>6. CASE st = "STOP_S"
        BY <1>4, <1>6, <2>1, <4>6, Lengths, NextStates DEF EdgeTable
      <4> QED
        BY <1>7, <2>1, <2>3, <4>1, <4>2, <4>3, <4>4, <4>5, <4>6 DEF FsmTypes, States
    <3> QED
      BY <2>1, <3>1, <3>2 DEF o_spi_idle
  <2> QED
    BY <2>2, <2>3
<1> QED
  BY <1>1, <1>9, <1>10, <1>11, <1>12, <1>13

(* The edges to come are as many as the states to come are long.           *)
LEMMA EdgesToCome == ASSUME SpiInv PROVE EdgesLeft \in Nat /\ EdgesLeft >= 1
<1>1. txLen \in Nat /\ rxLen \in Nat /\ waitCyc \in Nat /\ t \in Nat
  BY LengthTypes, LengthAssumption DEF SpiInv, FsmTypes
<1>2. AfterCommand \in Nat /\ Edges = 16 + 8 * txLen + AfterCommand
  BY <1>1 DEF AfterCommand, Edges
<1>3. st # "IDLE" => t < Length[st]
  BY DEF SpiInv, Timed
<1>4. EdgeTable /\ st \in States
  BY EdgesIn DEF SpiInv, FsmTypes
<1> QED
  BY <1>1, <1>2, <1>3, <1>4, Lengths DEF EdgeTable, States

(* The clocks a go starts with.                                            *)
LEMMA ClocksAtStart == SpiInv /\ st = "IDLE" /\ ~o_spi_idle => ClocksLeft = 4 * Edges + ToEdge + 1
<1> SUFFICES ASSUME SpiInv, st = "IDLE", ~o_spi_idle PROVE ClocksLeft = 4 * Edges + ToEdge + 1
  OBVIOUS
<1>1. txLen \in Nat /\ rxLen \in Nat /\ waitCyc \in Nat
  BY LengthTypes, LengthAssumption DEF SpiInv, FsmTypes
<1>2. Edges \in Nat
  BY <1>1 DEF AfterCommand, Edges
<1>3. EdgesLeft = 1 + Edges
  BY EdgesIn DEF EdgeTable
<1> QED
  BY <1>2, <1>3 DEF ClocksLeft

(* Every clock enable counts.                                              *)
LEMMA ClocksCount == ASSUME SpiInv, SpiInv', Tick PROVE Countdown
<1>1. phase' = (IF phase = 3 THEN 0 ELSE phase + 1) /\ phase \in 0..3
  BY PhaseStep DEF SpiInv, FsmTypes
<1>2. ToEdge' = (IF phase = 2 THEN 3 ELSE ToEdge - 1) /\ (phase = 2 => ToEdge = 0) /\ ToEdge \in 0..3
  BY <1>1 DEF ToEdge
<1>3. EdgesLeft \in Nat
  BY EdgesToCome
<1>4. CASE ~o_spi_idle
  <2>1. ClocksLeft = 4 * (EdgesLeft - 1) + ToEdge + 1
    BY <1>4 DEF ClocksLeft
  <2>2. CASE o_spi_idle'
    <3>1. phase = 2 /\ EdgesLeft = 1
      BY <1>4, <2>2, EdgesCount
    <3>2. ClocksLeft' = 0
      BY <2>2 DEF ClocksLeft
    <3> QED
      BY <1>2, <1>4, <2>1, <3>1, <3>2 DEF Countdown
  <2>3. CASE ~o_spi_idle'
    <3>1. EdgesLeft' = IF phase = 2 THEN EdgesLeft - 1 ELSE EdgesLeft
      BY <1>4, <2>3, EdgesCount
    <3>2. ClocksLeft' = 4 * (EdgesLeft' - 1) + ToEdge' + 1
      BY <2>3 DEF ClocksLeft
    <3> QED
      BY <1>2, <1>3, <1>4, <2>1, <3>1, <3>2 DEF Countdown
  <2> QED
    BY <2>2, <2>3
<1>5. CASE o_spi_idle /\ ~o_spi_idle'
  <2>1. Stays \/ Rests
    BY <1>5, BusStep DEF SpiInv, Holding, o_spi_idle, Begins, Counts, Moves
  <2>2. st' = "IDLE"
    BY <1>5, <2>1 DEF Stays, Rests, o_spi_idle
  <2>3. (SpiInv /\ st = "IDLE" /\ ~o_spi_idle => ClocksLeft = 4 * Edges + ToEdge + 1)'
    BY ClocksAtStart, PTL
  <2> QED
    BY <1>5, <2>2, <2>3 DEF Countdown
<1>6. CASE o_spi_idle /\ o_spi_idle'
  BY <1>6 DEF Countdown
<1> QED
  BY <1>4, <1>5, <1>6

(* For all lengths of the transfers and waits, and whatever the driver     *)
(* does meanwhile, a go makes the master busy for exactly the bits of the  *)
(* transfer, four clock enables each, and the rest of the bit the go came  *)
(* in, and no longer, unless it is reset: no timed state misses its        *)
(* comparison with the timer (p_spi_fsm_comb).                             *)
THEOREM TransfersTakeTheirTime ==
    Spec => [](ClocksLeft \in Nat /\ (ClocksLeft = 0 <=> o_spi_idle)) /\ [][Countdown \/ Reset]_vars
<1>1. SpiInv => ClocksLeft \in Nat /\ (ClocksLeft = 0 <=> o_spi_idle)
  <2> SUFFICES ASSUME SpiInv PROVE ClocksLeft \in Nat /\ (ClocksLeft = 0 <=> o_spi_idle)
    OBVIOUS
  <2>1. EdgesLeft \in Nat /\ EdgesLeft >= 1
    BY EdgesToCome
  <2>2. ToEdge \in 0..3
    BY DEF ToEdge, SpiInv, FsmTypes
  <2> QED
    BY <2>1, <2>2 DEF ClocksLeft
<1>2. SpiInv /\ SpiInv' /\ [Next]_vars => [Countdown \/ Reset]_vars
  <2>1. ASSUME SpiInv, SpiInv', Next PROVE Countdown \/ Reset
    BY <2>1, Ticks, ClocksCount DEF SpiInv
  <2> QED
    BY <2>1
<1> QED
  BY <1>1, <1>2, SpiInvariance, PTL DEF Spec

-----------------------------------------------------------------------------
(* The refinement: what the bits and bytes on their way are.               *)

(* How many bytes of the command have been fetched at each point.          *)
Due == CASE st = "START_S" -> IF t = 3 /\ phase # 3 THEN 1 ELSE 0
         [] st = "TX" -> t \div 8 + 1
         [] st \in {"IDLE", "START_D"} -> 0
         [] OTHER -> txLen

(* The others are still in the TX queue.                                   *)
Fetching == ~o_spi_idle => fetched = Due /\ Len(txFifo) = txLen - fetched

(* The bits heard of the byte in the output register are its bits.         *)
Current ==
    st = "TX" => \A n \in 8 * (t \div 8) + 1..Len(heard) : heard[n] = Bit(txOut, n - 1)

(* The peripheral is not selected before START_S.                          *)
Deselected == st \in {"IDLE", "START_D"} => csn

(* The delayed state is that of the bit before in phase 3, the present one *)
(* in phase 2, and fills up in between.                                    *)
Behind ==
    /\ phase # 3 => delayed[1] = [st |-> st, t |-> t]
    /\ phase \in {1, 2} => delayed[2] = [st |-> st, t |-> t]
    /\ phase = 3 =>
          /\ delayed[3].st = "RX" <=> \/ st = "RX" /\ t > 0
                                      \/ st = "STOP_S" /\ t = 0 /\ rxLen > 0
          /\ delayed[3].st = "RX" => delayed[3].t = IF st = "RX" THEN t - 1 ELSE 8 * rxLen - 1

(* Bit n of the answer.                                                    *)
AnswerBit(n) == Bit(Answer(rxLen - n \div 8), n)

(* Where the present bit of the answer has got to in each phase.           *)
Sampled ==
    /\ st = "RX" /\ phase = 3 => sck
    /\ st = "RX" /\ phase # 3 => cipo = AnswerBit(t)
    /\ st = "RX" /\ phase \in {1, 2} => cipoMeta = AnswerBit(t)
    /\ phase = 3 /\ delayed[3].st = "RX" => cipoSync = AnswerBit(delayed[3].t)

(* How many bits of the answer have been shifted in.                       *)
Captured == CASE st = "RX" -> IF phase = 3 /\ t > 0 THEN t - 1 ELSE t
              [] st = "STOP_S" -> IF t = 0 /\ phase = 3 /\ rxLen > 0 THEN 8 * rxLen - 1 ELSE 8 * rxLen
              [] st = "STOP_D" -> 8 * rxLen
              [] OTHER -> 0

(* Those since the last whole byte are in the shift register.              *)
Shifting == \A i \in 9 - (Captured % 8)..8 : rxIn[i] = AnswerBit(Captured - 9 + i)

(* The whole bytes are in the RX queue or have been taken from it, but for *)
(* one that is about to be written.                                        *)
Receiving ==
    /\ ~o_spi_idle => /\ received = Captured \div 8 - (IF rxWe THEN 1 ELSE 0)
                      /\ Len(rxFifo) <= received
    /\ rxWe => /\ st \in {"RX", "STOP_S"} /\ Captured % 8 = 0 /\ Captured > 0
               /\ \A i \in 1..8 : rxIn[i] = Bit(Answer(rxLen - received), i - 1)

WayInv == Fetching /\ Current /\ Deselected /\ Behind /\ Sampled /\ Shifting /\ Receiving

(* What the driver does in a clock enable.                                 *)
Drives(enq, go) ==
    \/ enq = << >> /\ go = NoGo
    \/ o_spi_idle /\ go = NoGo /\ \E b \in Bytes : enq = <<b>>
    \/ /\ o_spi_idle /\ rxFifo = << >> /\ Len(txFifo) + 1 \in TxLens
       /\ \E b \in Bytes : enq = <<b>>
       /\ \E rx \in RxLens, wait \in WaitCycs :
             go = [busy |-> TRUE, tx |-> Len(txFifo) + 1, rx |-> rx, wait |-> wait]

LEMMA Driving ==
    ASSUME FsmTypes, Next
    PROVE  Reset \/ \E enq, go : \E deq \in BOOLEAN : Drives(enq, go) /\ Clock(enq, go, deq)
<1>1. ASSUME NEW b \in Bytes, Enqueue(b)
      PROVE  Drives(<<b>>, NoGo) /\ Clock(<<b>>, NoGo, FALSE)
  BY <1>1 DEF Enqueue, Drives
<1>2. ASSUME NEW b \in Bytes, Go(b)
      PROVE  \E go : Drives(<<b>>, go) /\ Clock(<<b>>, go, FALSE)
  BY <1>2 DEF Go, Drives
<1>3. ASSUME Dequeue PROVE Drives(<< >>, NoGo) /\ Clock(<< >>, NoGo, TRUE)
  BY <1>3 DEF Dequeue, Drives
<1>4. ASSUME Wait PROVE Drives(<< >>, NoGo) /\ Clock(<< >>, NoGo, FALSE)
  BY <1>4 DEF Wait, Drives
<1> QED
  BY <1>1, <1>2, <1>3, <1>4, Zenon DEF Next

LEMMA BehindKept == ASSUME FsmTypes, RestTypes, Timed, Behind, Tick PROVE Behind'
<1>1. phase' = (IF phase = 3 THEN 0 ELSE phase + 1) /\ phase \in 0..3
  BY PhaseStep DEF FsmTypes
<1>2. Stays \/ Rests \/ Begins \/ Counts \/ Moves
  BY BusStep
<1>3. delayed' = <<[st |-> st, t |-> t], delayed[1], delayed[2]>>
  BY DEF Tick, spiFsm
<1>4. delayed'[1] = [st |-> st, t |-> t] /\ delayed'[2] = delayed[1] /\ delayed'[3] = delayed[2]
  BY <1>3
<1>5. CASE phase # 2
  <2>1. st' = st /\ t' = t
    BY <1>2, <1>5 DEF Stays, Rests, Begins, Counts, Moves
  <2> QED
    BY <1>1, <1>4, <1>5, <2>1 DEF Behind
<1>6. CASE phase = 2
  <2>1. phase' = 3 /\ delayed'[3].st = st /\ delayed'[3].t = t
    BY <1>1, <1>4, <1>6 DEF Behind
  <2>2. st # "IDLE" => rxLen' = rxLen /\ rxLen \in Nat /\ t \in Nat
    BY LengthsKept, LengthTypes DEF FsmTypes
  <2>3. CASE Rests \/ Begins
    BY <2>1, <2>3 DEF Rests, Begins, Behind
  <2>4. CASE Counts
    BY <2>1, <2>2, <2>4 DEF Counts, Behind
  <2>5. CASE Moves
    <3>1. st = "RX" => st' = "STOP_S" /\ t = 8 * rxLen - 1 /\ rxLen > 0
      BY <2>2, <2>5, NextStates, Lengths DEF Moves, Timed
    <3>2. st # "RX" /\ st' = "STOP_S" => rxLen = 0
      BY <2>5, NextStates DEF Moves, AfterTx, FsmTypes, States
    <3> QED
      BY <2>1, <2>2, <2>5, <3>1, <3>2 DEF Moves, Behind
  <2> QED
    BY <1>2, <1>6, <2>3, <2>4, <2>5 DEF Stays
<1> QED
  BY <1>5, <1>6

LEMMA DeselectedKept == ASSUME FsmTypes, Timed, Holding, Driven, Heard, Tick, Deselected PROVE Deselected'
<1>1. Stays \/ Rests \/ Begins \/ Counts \/ Moves
  BY BusStep
<1>2. st' \in {"IDLE", "START_D"} => st \in {"IDLE", "START_D", "STOP_D"}
  BY <1>1, NextStates DEF Stays, Rests, Begins, Counts, Moves, AfterTx, FsmTypes, States
<1> QED
  BY <1>2, HeardStep DEF Deselected

(* The TX queue and its output register in a clock enable.                 *)
LEMMA TxStep ==
    ASSUME NEW enq, NEW go, NEW deq, Clock(enq, go, deq)
    PROVE  /\ txFifo' = (IF s_data_fifo_tx_re THEN Tail(txFifo) ELSE txFifo) \o enq
           /\ txOut' = IF s_data_fifo_tx_re THEN Head(txFifo) ELSE txOut
           /\ fetched' = IF go.busy THEN 0 ELSE IF s_data_fifo_tx_re THEN fetched + 1 ELSE fetched
           /\ datFsm(go)
           /\ rxCapture /\ rxQueue(deq, go)
  BY Zenon DEF Clock, txQueue

(* The driver has its turn only while the master is idle.                  *)
LEMMA Alone ==
    ASSUME NEW enq, NEW go, Drives(enq, go), ~o_spi_idle
    PROVE  enq = << >> /\ go = NoGo
  BY DEF Drives

LEMMA LengthsHeld ==
    ASSUME Tick, ~o_spi_idle
    PROVE  txLen' = txLen /\ rxLen' = rxLen /\ waitCyc' = waitCyc
  BY DEF Tick, HoldStep, o_spi_idle

(* An idle master stays so but for a go.                                   *)
LEMMA IdleStep ==
    ASSUME FsmTypes, Holding, Timed, Tick, o_spi_idle,
           NEW enq, NEW go, NEW deq, Drives(enq, go), Clock(enq, go, deq)
    PROVE  /\ st' = "IDLE" /\ ~s_data_fifo_tx_re
           /\ go.busy \in BOOLEAN
           /\ ~go.busy => o_spi_idle' /\ txLen' = txLen /\ rxLen' = rxLen
           /\ go.busy => /\ ~o_spi_idle' /\ txLen' = go.tx /\ rxLen' = go.rx
                         /\ go.tx = Len(txFifo) + 1 /\ rxFifo = << >>
                         /\ go.tx \in TxLens /\ go.rx \in RxLens
<1>1. st = "IDLE" /\ dat = "WAIT" /\ ~goAux
  BY DEF o_spi_idle, Holding, FsmTypes
<1>2. Stays \/ Rests \/ Begins \/ Counts \/ Moves
  BY BusStep
<1>3. st' = "IDLE"
  BY <1>1, <1>2 DEF Stays, Rests, Begins, Counts, Moves
<1>4. ~s_data_fifo_tx_re
  BY <1>1 DEF s_data_fifo_tx_re
<1>5. datFsm(go)
  BY TxStep
<1>6. CASE go = NoGo
  BY <1>1, <1>3, <1>4, <1>5, <1>6 DEF NoGo, datFsm, o_spi_idle
<1>7. CASE go # NoGo
  <2>1. /\ rxFifo = << >> /\ Len(txFifo) + 1 \in TxLens
        /\ \E rx \in RxLens, wait \in WaitCycs :
              go = [busy |-> TRUE, tx |-> Len(txFifo) + 1, rx |-> rx, wait |-> wait]
    BY <1>7 DEF Drives
  <2>2. go.busy = TRUE /\ go.tx = Len(txFifo) + 1 /\ go.rx \in RxLens
    BY <2>1
  <2>3. dat' = "HOLD_0" /\ txLen' = go.tx /\ rxLen' = go.rx
    BY <1>1, <1>5, <2>2 DEF datFsm
  <2> QED
    BY <1>3, <1>4, <2>1, <2>2, <2>3 DEF o_spi_idle
<1> QED
  BY <1>6, <1>7

(* A byte is fetched when it is due, and there is one.                     *)
LEMMA DueStep ==
    ASSUME FsmTypes, Holding, Timed, Tick, Fetching, ~o_spi_idle
    PROVE  /\ ~o_spi_idle' => Due' = IF s_data_fifo_tx_re THEN Due + 1 ELSE Due
           /\ o_spi_idle' => Due = txLen /\ ~s_data_fifo_tx_re
           /\ Due \in 0..txLen
<1>1. /\ phase' = (IF phase = 3 THEN 0 ELSE phase + 1) /\ phase \in 0..3 /\ t \in Nat
      /\ st \in States
  BY PhaseStep DEF FsmTypes
<1>2. txLen' = txLen /\ txLen \in Nat /\ Len(txFifo) \in Nat
  BY LengthsHeld, LengthTypes DEF FsmTypes
<1>3. (txFifo # << >>) <=> Len(txFifo) > 0
  BY DEF FsmTypes
<1>4. Len(txFifo) = txLen - Due
  BY DEF Fetching
<1>5. s_data_fifo_tx_re <=> /\ Len(txFifo) > 0
                            /\ \/ st = "START_S" /\ phase = 3 /\ t = 3
                               \/ st = "TX" /\ phase = 2 /\ t % 8 = 7 /\ t + 1 # 8 * txLen
  BY <1>1, <1>3 DEF s_data_fifo_tx_re, Elapsed, WaitSs
<1>6. Stays \/ Rests \/ Begins \/ Counts \/ Moves
  BY BusStep
<1>7. txLen > 0 \/ st = "IDLE"
  BY <1>1, <1>2, LengthTypes DEF Timed
<1>8. CASE st \in {"IDLE", "START_D"}
  <2>1. st' \in {"IDLE", "START_D", "START_S"} /\ (st' = "START_S" => phase = 2)
    BY <1>6, <1>8, NextStates DEF Stays, Rests, Begins, Counts, Moves
  <2>2. dat # "WAIT" \/ st' # "IDLE"
    BY <1>6, <1>8, NextStates DEF o_spi_idle, Stays, Rests, Begins, Counts, Moves
  <2>3. Due' = 0 /\ Due = 0
    BY <1>1, <1>8, <2>1 DEF Due
  <2>4. ~o_spi_idle'
    <3>1. dat = "HOLD_3" \/ dat = "WAIT" => st' # "IDLE"
      BY <1>6, <1>8, <2>2 DEF Holding, Stays, Rests, Begins, Counts, Moves
    <3>2. dat # "WAIT" => dat' = NextHold[dat]
      BY DEF Tick, HoldStep, o_spi_idle
    <3>3. dat \in {"HOLD_0", "HOLD_1", "HOLD_2"} => dat' # "WAIT"
      BY <3>2 DEF NextHold
    <3> QED
      BY <3>1, <3>3 DEF FsmTypes, o_spi_idle
  <2>5. ~s_data_fifo_tx_re
    BY <1>5, <1>8
  <2>6. Due \in 0..txLen
    BY <1>2, <2>3
  <2> QED
    BY <2>3, <2>4, <2>5, <2>6
<1>9. CASE st = "START_S"
  <2>1. t < 4 /\ (t + 1 = 4 => t = 3) /\ Length[st] = 4
    BY <1>1, <1>9, Lengths DEF Timed
  <2>2. CASE Stays
    <3>1. st' = st /\ t' = t /\ phase # 2
      BY <2>2 DEF Stays
    <3> QED
      BY <1>1, <1>2, <1>4, <1>5, <1>7, <1>9, <3>1 DEF Due, o_spi_idle
  <2>3. CASE Counts
    <3>1. st' = st /\ t' = t + 1 /\ t + 1 < 4 /\ phase = 2
      BY <2>1, <2>3 DEF Counts
    <3> QED
      BY <1>1, <1>2, <1>4, <1>5, <1>7, <1>9, <3>1 DEF Due, o_spi_idle
  <2>4. CASE Moves
    <3>1. st' = "TX" /\ t' = 0 /\ t = 3 /\ phase = 2
      BY <1>9, <2>1, <2>4, NextStates DEF Moves
    <3> QED
      BY <1>1, <1>2, <1>4, <1>5, <1>7, <1>9, <3>1 DEF Due, o_spi_idle
  <2> QED
    BY <1>6, <1>9, <2>2, <2>3, <2>4 DEF Rests, Begins
<1>10. CASE st = "TX"
  <2>1. t < 8 * txLen /\ Length[st] = 8 * txLen /\ Due = t \div 8 + 1
    BY <1>10, Lengths DEF Timed, Due
  <2>2. CASE Stays
    <3>1. st' = st /\ t' = t /\ phase # 2
      BY <2>2 DEF Stays
    <3> QED
      BY <1>1, <1>2, <1>5, <1>10, <2>1, <3>1 DEF Due, o_spi_idle
  <2>3. CASE Counts
    <3>1. st' = st /\ t' = t + 1 /\ t + 1 < 8 * txLen /\ phase = 2
      BY <2>1, <2>3 DEF Counts
    <3>2. Due' = (t + 1) \div 8 + 1
      BY <1>10, <3>1 DEF Due
    <3>3. Due < txLen \/ t % 8 # 7
      BY <1>1, <1>2, <2>1, <3>1
    <3>4. s_data_fifo_tx_re <=> t % 8 = 7
      BY <1>1, <1>2, <1>4, <1>5, <1>10, <2>1, <3>1, <3>3
    <3> QED
      BY <1>1, <1>2, <1>10, <2>1, <3>1, <3>2, <3>4 DEF o_spi_idle
  <2>4. CASE Moves
    <3>1. st' \in {"STOP_S", "WAIT", "RX"} /\ t + 1 = 8 * txLen /\ phase = 2
      BY <1>10, <2>1, <2>4, NextStates DEF Moves, AfterTx
    <3>2. ~s_data_fifo_tx_re /\ Due = txLen /\ Due' = txLen
      BY <1>1, <1>2, <1>5, <1>10, <2>1, <3>1 DEF Due
    <3> QED
      BY <1>2, <3>1, <3>2 DEF o_spi_idle
  <2> QED
    BY <1>6, <1>10, <2>2, <2>3, <2>4 DEF Rests, Begins
<1>11. CASE st \in {"WAIT", "RX", "STOP_S", "STOP_D"}
  <2>1. st' \in {"WAIT", "RX", "STOP_S", "STOP_D", "IDLE"}
    BY <1>6, <1>11, NextStates DEF Stays, Rests, Begins, Counts, Moves
  <2>2. st' = "IDLE" => o_spi_idle'
    <3>1. dat = "WAIT"
      BY <1>11 DEF Holding
    <3>2. dat' = "WAIT"
      BY <1>11, <3>1 DEF Tick, HoldStep, o_spi_idle
    <3> QED
      BY <3>2 DEF o_spi_idle
  <2>3. Due = txLen /\ ~s_data_fifo_tx_re
    BY <1>5, <1>11 DEF Due
  <2>4. ~o_spi_idle' => Due' = txLen
    BY <1>2, <2>1, <2>2 DEF Due
  <2> QED
    BY <1>2, <2>3, <2>4
<1> QED
  BY <1>1, <1>8, <1>9, <1>10, <1>11 DEF States

LEMMA FetchingKept ==
    ASSUME FsmTypes, RestTypes, Holding, Timed, Tick, Fetching,
           NEW enq, NEW go, NEW deq, Drives(enq, go), Clock(enq, go, deq)
    PROVE  Fetching'
<1> SUFFICES ASSUME ~o_spi_idle' PROVE fetched' = Due' /\ Len(txFifo') = txLen' - fetched'
  BY DEF Fetching
<1>1. txFifo \in Seq(Bytes) /\ fetched \in Nat
  BY DEF FsmTypes, RestTypes
<1>2. CASE o_spi_idle
  <2>1. /\ go.busy /\ st' = "IDLE" /\ ~s_data_fifo_tx_re
        /\ txLen' = Len(txFifo) + 1
    BY <1>2, IdleStep
  <2>2. fetched' = 0 /\ txFifo' = txFifo \o enq
    BY <2>1, TxStep
  <2>3. \E b \in Bytes : enq = <<b>>
    BY <2>1 DEF Drives, NoGo
  <2>4. Len(txFifo') = Len(txFifo) + 1 /\ Len(txFifo) \in Nat
    BY <1>1, <2>2, <2>3
  <2>5. Due' = 0
    BY <2>1 DEF Due
  <2> QED
    BY <2>1, <2>2, <2>4, <2>5
<1>3. CASE ~o_spi_idle
  <2>1. enq = << >> /\ ~go.busy
    BY <1>3, Alone DEF NoGo
  <2>2. txLen' = txLen /\ txLen \in Nat
    BY <1>3, LengthsHeld, LengthTypes
  <2>3. fetched = Due /\ Len(txFifo) = txLen - fetched
    BY <1>3 DEF Fetching
  <2>4. Due' = IF s_data_fifo_tx_re THEN Due + 1 ELSE Due
    BY <1>3, DueStep
  <2>5. s_data_fifo_tx_re => txFifo # << >>
    BY Zenon DEF s_data_fifo_tx_re
  <2>6. /\ fetched' = IF s_data_fifo_tx_re THEN fetched + 1 ELSE fetched
        /\ txFifo' = (IF s_data_fifo_tx_re THEN Tail(txFifo) ELSE txFifo) \o << >>
    BY <2>1, TxStep
  <2>7. Len(txFifo') = IF s_data_fifo_tx_re THEN Len(txFifo) - 1 ELSE Len(txFifo)
    <3>1. CASE s_data_fifo_tx_re
      <4>1. Tail(txFifo) \in Seq(Bytes) /\ Len(Tail(txFifo)) = Len(txFifo) - 1
        BY <1>1, <2>5, <3>1
      <4> QED
        BY <2>6, <3>1, <4>1
    <3>2. CASE ~s_data_fifo_tx_re
      BY <1>1, <2>6, <3>2
    <3> QED
      BY <3>1, <3>2
  <2>8. Len(txFifo) \in Nat
    BY <1>1
  <2>9. fetched' = Due'
    <3>1. CASE s_data_fifo_tx_re
      BY ONLY <2>3, <2>4, <2>6, <3>1
    <3>2. CASE ~s_data_fifo_tx_re
      BY ONLY <2>3, <2>4, <2>6, <3>2
    <3> QED
      BY ONLY <3>1, <3>2
  <2>10. Len(txFifo') = txLen' - fetched'
    <3>1. fetched' = IF s_data_fifo_tx_re THEN fetched + 1 ELSE fetched
      BY ONLY <2>6
    <3>2. CASE s_data_fifo_tx_re
      BY ONLY <1>1, <2>2, <2>3, <2>7, <2>8, <3>1, <3>2
    <3>3. CASE ~s_data_fifo_tx_re
      BY ONLY <1>1, <2>2, <2>3, <2>7, <2>8, <3>1, <3>3
    <3> QED
      BY ONLY <3>2, <3>3
  <2> QED
    BY <2>9, <2>10
<1> QED
  BY <1>2, <1>3

(* A bit is heard in phase 1 of each bit of the command, wait and answer.  *)
LEMMA HeardExactly ==
    ASSUME FsmTypes, Driven, Tick, Clocking
    PROVE  heard' = IF phase = 1 THEN Append(heard, copi') ELSE heard
<1>1. /\ sck' \in BOOLEAN /\ (sck' <=> Clocking /\ phase \in {1, 2})
      /\ csn' \in BOOLEAN /\ (csn' <=> ~Clocking /\ st \notin {"START_S", "STOP_S"})
  BY DEF Tick, pins
<1>2. heard' = IF csn /\ ~csn' THEN << >>
               ELSE IF ~csn' /\ sck' /\ ~sck THEN Append(heard, copi') ELSE heard
  BY DEF Tick, peripheral
<1>3. ~csn /\ ~csn'
  BY <1>1 DEF Driven
<1>4. sck' /\ ~sck <=> phase = 1
  BY <1>1 DEF Driven, FsmTypes
<1> QED
  BY <1>2, <1>3, <1>4

LEMMA CurrentKept ==
    ASSUME FsmTypes, Timed, Holding, Driven, Heard, Tick, Current,
           NEW enq, NEW go, NEW deq, Clock(enq, go, deq)
    PROVE  Current'
<1> SUFFICES ASSUME st' = "TX", NEW n \in 8 * (t' \div 8) + 1..Len(heard')
             PROVE  heard'[n] = Bit(txOut', n - 1)
  BY DEF Current
<1>1. Stays \/ Rests \/ Begins \/ Counts \/ Moves
  BY BusStep
<1>2. st \in {"START_S", "TX"}
  BY <1>1, NextStates DEF Stays, Rests, Begins, Counts, Moves, AfterTx, FsmTypes, States
<1>3. heard \in Seq(SentBits) /\ Len(heard) \in Nat /\ t \in Nat /\ phase \in 0..3
  BY DEF FsmTypes
<1>4. CASE st = "START_S"
  <2>1. heard' = << >> /\ t' = 0
    BY <1>1, <1>4, HeardStep DEF Stays, Rests, Begins, Counts, Moves
  <2> QED
    BY <2>1
<1>5. CASE st = "TX"
  <2>1. /\ heard' = IF phase = 1 THEN Append(heard, copi') ELSE heard
        /\ Len(heard) = Ticked /\ t < 8 * txLen /\ txLen \in Nat
    BY <1>5, HeardExactly, Lengths, LengthTypes DEF Clocking, Heard, Timed
  <2>2. copi' = Bit(txOut, t)
    BY <1>5, <2>1 DEF Tick, pins
  <2>3. Stays \/ Counts
    BY <1>1, <1>5, NextStates DEF Rests, Begins, Moves, AfterTx
  <2>4. txOut' = IF s_data_fifo_tx_re THEN Head(txFifo) ELSE txOut
    BY TxStep
  <2>5. CASE phase = 1
    <3>1. t' = t /\ ~s_data_fifo_tx_re
      BY <1>5, <2>3, <2>5 DEF Stays, Counts, s_data_fifo_tx_re
    <3>2. heard' = Append(heard, copi') /\ Len(heard) = t /\ txOut' = txOut
      BY <2>1, <2>4, <2>5, <3>1 DEF Ticked
    <3>3. CASE n = t + 1
      BY <1>3, <2>2, <3>2, <3>3
    <3>4. CASE n # t + 1
      <4>1. n \in 8 * (t \div 8) + 1..Len(heard)
        BY <1>3, <3>1, <3>2, <3>4
      <4>2. heard'[n] = heard[n]
        BY <1>3, <3>2, <4>1
      <4> QED
        BY <1>5, <3>2, <4>1, <4>2 DEF Current
    <3> QED
      BY <3>3, <3>4
  <2>6. CASE phase # 1 /\ Stays
    <3>1. phase # 2 /\ t' = t /\ heard' = heard
      BY <2>1, <2>6 DEF Stays
    <3>2. ~s_data_fifo_tx_re
      BY <1>5, <3>1 DEF s_data_fifo_tx_re
    <3> QED
      BY <1>5, <2>4, <3>1, <3>2 DEF Current
  <2>7. CASE Counts
    <3>1. phase = 2 /\ t' = t + 1 /\ heard' = heard /\ Len(heard) = t + 1
      BY <2>1, <2>7 DEF Counts, Ticked
    <3>2. n \in Nat /\ n >= 8 * ((t + 1) \div 8) + 1 /\ n <= t + 1
      BY <1>3, <3>1
    <3>3. t % 8 # 7 /\ (t + 1) \div 8 = t \div 8
      BY <1>3, <3>2
    <3>4. ~s_data_fifo_tx_re
      BY <1>5, <3>3 DEF s_data_fifo_tx_re
    <3> QED
      BY <1>3, <1>5, <2>4, <3>1, <3>2, <3>3, <3>4 DEF Current
  <2> QED
    BY <2>3, <2>5, <2>6, <2>7
<1> QED
  BY <1>2, <1>4, <1>5

LEMMA SampledKept ==
    ASSUME FsmTypes, RestTypes, Timed, Driven, Heard, Tick, Behind, Sampled
    PROVE  Sampled'
<1>1. phase' = (IF phase = 3 THEN 0 ELSE phase + 1) /\ phase \in 0..3 /\ t \in Nat
  BY PhaseStep DEF FsmTypes
<1>2. Stays \/ Rests \/ Begins \/ Counts \/ Moves
  BY BusStep
<1>3. /\ sck' \in BOOLEAN /\ (sck' <=> Clocking /\ phase \in {1, 2})
      /\ csn' \in BOOLEAN /\ (csn' <=> ~Clocking /\ st \notin {"START_S", "STOP_S"})
      /\ cipoMeta' = cipo /\ cipoSync' = cipoMeta
  BY DEF Tick, pins
<1>4. sck \in BOOLEAN /\ (sck => phase \in {2, 3})
  BY DEF Driven
<1>6. st' = "RX" /\ phase' = 3 => sck'
  BY <1>1, <1>2, <1>3, NextStates
  DEF Stays, Rests, Begins, Counts, Moves, AfterTx, FsmTypes, States, Clocking
<1>7. ASSUME st' = "RX", phase' # 3
      PROVE  st = "RX" /\ t' = t /\ rxLen' = rxLen /\ cipo' = AnswerBit(t)
  <2>1. st = "RX" /\ t' = t /\ phase # 2
    BY <1>1, <1>2, <1>7 DEF Stays, Rests, Begins, Counts, Moves
  <2>2. cipo' = IF sck /\ ~sck' /\ ~csn'
                THEN LET n == Len(heard) - AnswerFrom
                     IN  IF Len(heard) >= AnswerFrom /\ n < 8 * rxLen
                         THEN Bit(Answer(rxLen - n \div 8), n) ELSE Zero
                ELSE cipo
    BY DEF Tick, peripheral
  <2>3. CASE phase = 3
    <3>1. sck /\ ~sck' /\ ~csn'
      BY <1>3, <2>1, <2>3 DEF Sampled, Clocking
    <3>2. Len(heard) = AnswerFrom + t /\ t < 8 * rxLen /\ AnswerFrom \in Nat
      BY <2>1, <2>3, Lengths, LengthTypes DEF Heard, Timed, Ticked, AnswerFrom
    <3>3. Len(heard) - AnswerFrom = t /\ Len(heard) >= AnswerFrom
      BY <1>1, <3>2
    <3> QED
      BY <2>1, <2>2, <3>1, <3>2, <3>3, LengthsKept DEF AnswerBit
  <2>4. CASE phase # 3
    <3>1. ~sck
      BY <1>1, <1>4, <2>1, <2>4
    <3> QED
      BY <2>1, <2>2, <2>4, <3>1, LengthsKept DEF Sampled
  <2> QED
    BY <2>3, <2>4
<1>8. ASSUME st' = "RX", phase' \in {1, 2} PROVE cipoMeta' = AnswerBit(t)
  <2>1. st = "RX" /\ phase \in {0, 1}
    BY <1>1, <1>7, <1>8
  <2> QED
    BY <1>3, <2>1 DEF Sampled
<1>9. ASSUME phase' = 3, delayed'[3].st = "RX"
      PROVE  st = "RX" /\ delayed'[3].t = t /\ cipoSync' = AnswerBit(t) /\ rxLen' = rxLen
  <2>1. phase = 2 /\ delayed' = <<[st |-> st, t |-> t], delayed[1], delayed[2]>>
    BY <1>1, <1>9 DEF Tick, spiFsm
  <2>2. delayed'[3] = [st |-> st, t |-> t]
    BY <2>1 DEF Behind
  <2> QED
    BY <1>3, <1>9, <2>1, <2>2, LengthsKept DEF Sampled
<1>10. st' = "RX" /\ phase' # 3 => cipo' = AnswerBit(t)'
  BY <1>7 DEF AnswerBit
<1>11. st' = "RX" /\ phase' \in {1, 2} => cipoMeta' = AnswerBit(t)'
  BY <1>1, <1>7, <1>8 DEF AnswerBit
<1>12. phase' = 3 /\ delayed'[3].st = "RX" => cipoSync' = AnswerBit(delayed[3].t)'
  BY <1>9 DEF AnswerBit
<1> QED
  BY <1>6, <1>10, <1>11, <1>12 DEF Sampled

Capturing == phase = 3 /\ delayed[3].st = "RX"

(* One bit more is captured in each phase 3 after a bit of the answer.     *)
LEMMA CapturedStep ==
    ASSUME FsmTypes, RestTypes, Timed, Holding, Tick, Behind
    PROVE  /\ Captured \in 0..8 * rxLen
           /\ ~o_spi_idle' \/ st # "STOP_D" => Captured' = IF Capturing THEN Captured + 1 ELSE Captured
           /\ Capturing => /\ st' = st /\ st \in {"RX", "STOP_S"} /\ rxLen' = rxLen
                           /\ delayed[3].t = Captured /\ Captured < 8 * rxLen
           /\ phase = 3 /\ ~Capturing => Captured % 8 = 0
           /\ Captured' % 8 = 0 \/ rxLen' = rxLen
           /\ st = "STOP_D" => Captured % 8 = 0 /\ Captured' % 8 = 0
<1>1. /\ phase' = (IF phase = 3 THEN 0 ELSE phase + 1) /\ phase \in 0..3 /\ t \in Nat
      /\ st \in States /\ rxLen \in Nat
  BY PhaseStep, LengthTypes DEF FsmTypes
<1>2. Stays \/ Rests \/ Begins \/ Counts \/ Moves
  BY BusStep
<1>3. st = "RX" => t < 8 * rxLen /\ rxLen > 0 /\ Length[st] = 8 * rxLen
  BY <1>1, Lengths DEF Timed
<1>4. st # "IDLE" => rxLen' = rxLen
  BY LengthsKept
<1>5. Captured \in 0..8 * rxLen
  BY <1>1, <1>3 DEF Captured
<1>6. CASE phase = 3
  <2>1. st' = st /\ t' = t /\ phase' = 0
    BY <1>1, <1>2, <1>6 DEF Stays, Rests, Begins, Counts, Moves
  <2>2. CASE st = "RX" /\ t > 0
    <3>1. Captured = t - 1 /\ Captured' = t /\ Capturing /\ delayed[3].t = t - 1
      BY <1>6, <2>1, <2>2 DEF Captured, Capturing, Behind
    <3> QED
      BY <1>1, <1>3, <1>4, <1>5, <1>6, <2>1, <2>2, <3>1
  <2>3. CASE st = "STOP_S" /\ t = 0 /\ rxLen > 0
    <3>1. /\ Captured = 8 * rxLen - 1 /\ Captured' = 8 * rxLen /\ Capturing
          /\ delayed[3].t = 8 * rxLen - 1
      BY <1>4, <1>6, <2>1, <2>3 DEF Captured, Capturing, Behind
    <3> QED
      BY <1>1, <1>4, <1>5, <1>6, <2>1, <2>3, <3>1
  <2>4. CASE ~(st = "RX" /\ t > 0) /\ ~(st = "STOP_S" /\ t = 0 /\ rxLen > 0)
    <3>1. ~Capturing
      BY <1>6, <2>4 DEF Capturing, Behind
    <3>2. Captured \in {0, 8 * rxLen} /\ Captured' = Captured
      BY <1>1, <1>4, <1>6, <2>1, <2>4 DEF Captured
    <3>3. Captured % 8 = 0
      BY <1>1, <3>2
    <3> QED
      BY <1>4, <1>5, <1>6, <3>1, <3>2, <3>3
  <2> QED
    BY <2>2, <2>3, <2>4
<1>7. CASE phase \in {0, 1}
  <2>1. st' = st /\ t' = t /\ phase' \in {1, 2} /\ ~Capturing
    BY <1>1, <1>2, <1>7 DEF Stays, Rests, Begins, Counts, Moves, Capturing
  <2>2. Captured' = Captured
    BY <1>1, <1>4, <1>7, <2>1 DEF Captured
  <2>3. st \in {"IDLE", "STOP_D"} => Captured \in {0, 8 * rxLen}
    BY DEF Captured
  <2> QED
    BY <1>1, <1>4, <1>5, <1>7, <2>1, <2>2, <2>3
<1>8. CASE phase = 2
  <2>1. phase' = 3 /\ ~Capturing
    BY <1>1, <1>8 DEF Capturing
  <2>2. CASE Rests \/ Begins
    <3>1. st = "IDLE" /\ Captured = 0 /\ Captured' = 0
      BY <2>2 DEF Rests, Begins, Captured
    <3> QED
      BY <1>5, <1>8, <2>1, <3>1
  <2>3. CASE Counts
    <3>1. Captured' = Captured
      BY <1>1, <1>4, <1>8, <2>1, <2>3 DEF Counts, Captured
    <3>2. st = "STOP_D" => Captured = 8 * rxLen
      BY DEF Captured
    <3> QED
      BY <1>1, <1>4, <1>5, <1>8, <2>1, <2>3, <3>1, <3>2 DEF Counts
  <2>4. CASE Moves
    <3>1. st' = Following[st] /\ t' = 0 /\ st # "IDLE"
      BY <2>4 DEF Moves
    <3>2. st = "RX" => t = 8 * rxLen - 1
      BY <1>1, <1>3, <2>4 DEF Moves
    <3>3. st # "STOP_D" => Captured' = Captured
      <4>1. CASE st = "RX"
        BY <1>1, <1>3, <1>4, <1>8, <2>1, <3>1, <3>2, <4>1, NextStates DEF Captured
      <4>2. CASE st \in {"START_D", "START_S", "TX", "WAIT"}
        <5>1. st' \in {"START_S", "TX", "WAIT", "RX"} \/ (st' = "STOP_S" /\ rxLen = 0)
          BY <3>1, <4>2, NextStates DEF AfterTx
        <5> QED
          BY <1>1, <1>4, <3>1, <4>2, <5>1 DEF Captured
      <4>3. CASE st = "STOP_S"
        BY <1>1, <1>4, <1>8, <3>1, <4>3, NextStates DEF Captured
      <4> QED
        BY <1>1, <3>1, <4>1, <4>2, <4>3 DEF States
    <3>4. st = "STOP_D" => st' = "IDLE" /\ Captured = 8 * rxLen /\ Captured' = 0
      BY <3>1, NextStates DEF Captured
    <3>5. st = "STOP_D" => o_spi_idle'
      <4>1. st = "STOP_D" => dat = "WAIT" /\ dat' = "WAIT"
        BY DEF Holding, Tick, HoldStep, o_spi_idle
      <4> QED
        BY <3>4, <4>1 DEF o_spi_idle
    <3> QED
      BY <1>1, <1>4, <1>5, <1>8, <2>1, <3>1, <3>3, <3>4, <3>5
  <2> QED
    BY <1>2, <1>8, <2>2, <2>3, <2>4 DEF Stays
<1> QED
  BY <1>1, <1>6, <1>7, <1>8

(* The shift register and its write enable in a clock enable.              *)
LEMMA CaptureStep ==
    ASSUME FsmTypes, RestTypes, Timed, Holding, Tick, Behind, rxCapture
    PROVE  /\ Capturing => rxIn' = Shifted
           /\ phase # 3 => rxIn' = rxIn
           /\ rxWe' \in BOOLEAN
           /\ rxWe' <=> Capturing /\ Captured % 8 = 7 /\ Len(rxFifo) < Depth
<1>1. /\ Capturing => delayed[3].t = Captured /\ Captured < 8 * rxLen
  BY CapturedStep
<1> DEFINE room == Len(rxFifo) < Depth
           last == delayed[3].t % 8 = 7
           more == delayed[3].t < 8 * rxLen
           late == delayed[3].st = "RX"
<1>2. /\ rxWe' = (phase = 3 /\ late /\ last /\ room)
      /\ rxIn' = IF phase # 3 THEN rxIn ELSE IF late /\ more THEN Shifted ELSE [i \in 1..8 |-> Zero]
  BY Zenon DEF rxCapture
<1>3. Capturing <=> phase = 3 /\ late
  BY DEF Capturing
<1>4. Capturing => more
  BY <1>1
<1>5. Capturing => (last <=> Captured % 8 = 7)
  BY <1>1
<1> HIDE DEF last, more, late
<1>6. rxWe' \in BOOLEAN /\ (rxWe' <=> Capturing /\ last /\ room)
  BY <1>2, <1>3
<1>7. (Capturing => rxIn' = Shifted) /\ (phase # 3 => rxIn' = rxIn)
  BY <1>2, <1>3, <1>4
<1> QED
  BY <1>5, <1>6, <1>7

LEMMA ShiftingKept ==
    ASSUME FsmTypes, RestTypes, Timed, Holding, Tick, Behind, Sampled, Shifting, rxCapture
    PROVE  Shifting'
<1> SUFFICES ASSUME NEW i \in 9 - (Captured' % 8)..8
             PROVE  rxIn'[i] = AnswerBit(Captured - 9 + i)'
  BY DEF Shifting
<1>1. Captured \in Nat /\ rxLen \in Nat
  BY CapturedStep, LengthTypes
<1>2. CASE Captured' % 8 = 0
  BY <1>2
<1>3. CASE Captured' % 8 # 0
  <2>1. rxLen' = rxLen /\ st # "STOP_D"
    BY <1>3, CapturedStep
  <2>2. Captured' = IF Capturing THEN Captured + 1 ELSE Captured
    BY <2>1, CapturedStep
  <2>3. AnswerBit(Captured - 9 + i)' = AnswerBit(Captured' - 9 + i)
    BY <2>1 DEF AnswerBit
  <2>4. CASE Capturing
    <3>1. rxIn' = Shifted /\ cipoSync = AnswerBit(Captured) /\ Captured' = Captured + 1
      BY <2>2, <2>4, CaptureStep, CapturedStep DEF Sampled, Capturing
    <3>2. Captured' % 8 = (Captured % 8) + 1 /\ i \in 1..8
      BY <1>1, <1>3, <3>1
    <3>3. CASE i = 8
      <4>1. rxIn'[8] = cipoSync
        BY <3>1 DEF Shifted
      <4>2. Captured' - 9 + i = Captured
        BY <1>1, <3>1, <3>3
      <4> QED
        BY <2>3, <3>1, <3>3, <4>1, <4>2
    <3>4. CASE i # 8
      <4>1. rxIn'[i] = rxIn[i + 1] /\ i + 1 \in 9 - (Captured % 8)..8
        BY <1>1, <3>1, <3>2, <3>4 DEF Shifted
      <4>2. Captured' - 9 + i = Captured - 9 + (i + 1)
        BY <1>1, <3>1, <3>2
      <4>3. rxIn[i + 1] = AnswerBit(Captured - 9 + (i + 1))
        BY <4>1 DEF Shifting
      <4> QED
        BY <2>3, <4>1, <4>2, <4>3
    <3> QED
      BY <3>3, <3>4
  <2>5. CASE ~Capturing
    <3>1. Captured' = Captured /\ phase # 3
      BY <1>3, <2>2, <2>5, CapturedStep
    <3>2. rxIn' = rxIn
      BY <3>1, CaptureStep
    <3>3. i \in 9 - (Captured % 8)..8
      BY <3>1
    <3> QED
      BY <2>3, <3>1, <3>2, <3>3 DEF Shifting
  <2> QED
    BY <2>4, <2>5
<1> QED
  BY <1>2, <1>3

LEMMA RxStep ==
    ASSUME RestTypes, NEW go, NEW deq, rxQueue(deq, go)
    PROVE  /\ Len(rxFifo') \in Nat /\ Len(rxFifo') <= Len(rxFifo) + (IF rxWe THEN 1 ELSE 0)
           /\ received' = IF go.busy THEN 0 ELSE received + (IF rxWe THEN 1 ELSE 0)
<1> DEFINE taken == deq /\ o_rx_avail
           rest == IF taken THEN Tail(rxFifo) ELSE rxFifo
           written == IF rxWe THEN <<ByteOf(rxIn)>> ELSE << >>
<1>1. rxFifo' = rest \o written /\ received' = IF go.busy THEN 0 ELSE received + Len(written)
  BY DEF rxQueue
<1>2. rxFifo \in Seq(Got)
  BY DEF RestTypes
<1>3. taken => rxFifo # << >>
  BY DEF o_rx_avail
<1> HIDE DEF taken
<1>4. rest \in Seq(Got) /\ Len(rest) <= Len(rxFifo)
  BY <1>2, <1>3
<1>5. written \in Seq(Got) /\ Len(written) = IF rxWe THEN 1 ELSE 0
  BY ByteTypes
<1> HIDE DEF rest, written
<1>6. Len(rxFifo') = Len(rest) + Len(written) /\ Len(rest) \in Nat /\ Len(rxFifo) \in Nat
  BY <1>1, <1>2, <1>4, <1>5, Joined, Zenon
<1> QED
  BY <1>1, <1>4, <1>5, <1>6

(* A whole byte of the answer, by the bits that make it.                   *)
LEMMA WholeByte ==
    ASSUME NEW c \in Nat, c % 8 = 7, NEW i \in 1..8
    PROVE  AnswerBit(c + 1 - 9 + i) = Bit(Answer(rxLen - c \div 8), i - 1)
<1>1. c + 1 - 9 + i = 8 * (c \div 8) + (i - 1)
  OBVIOUS
<1> DEFINE j == c \div 8
           n == 8 * j + (i - 1)
<1>2. j \in Nat /\ i - 1 \in 0..7
  OBVIOUS
<1> HIDE DEF j
<1>3. n \div 8 = j /\ n % 8 = i - 1 /\ (i - 1) % 8 = i - 1
  BY <1>2
<1> HIDE DEF n
<1>4. Bit(Answer(rxLen - n \div 8), n) = Bit(Answer(rxLen - j), i - 1)
  BY <1>3 DEF Bit
<1> QED
  BY <1>1, <1>4 DEF AnswerBit, n, j

(* The byte about to be written is the next one of the answer.             *)
LEMMA WrittenWhole ==
    ASSUME FsmTypes, RestTypes, Timed, Holding, Tick, Behind, Sampled, Shifting, rxCapture, rxWe'
    PROVE  /\ st' \in {"RX", "STOP_S"} /\ Captured' % 8 = 0 /\ Captured' > 0
           /\ \A i \in 1..8 : rxIn'[i] = Bit(Answer(rxLen - Captured \div 8), i - 1)
           /\ Captured' = Captured + 1 /\ Captured % 8 = 7 /\ rxLen' = rxLen
<1>1. Capturing /\ Captured % 8 = 7 /\ rxIn' = Shifted
  BY CaptureStep
<1>2. /\ st' = st /\ st \in {"RX", "STOP_S"} /\ rxLen' = rxLen /\ delayed[3].t = Captured
      /\ Captured \in Nat /\ Captured' = Captured + 1
  BY <1>1, CapturedStep, LengthTypes
<1>3. Captured' % 8 = 0 /\ Captured' > 0
  BY <1>1, <1>2
<1>4. ASSUME NEW i \in 1..8
      PROVE  rxIn'[i] = Bit(Answer(rxLen - Captured \div 8), i - 1)
  <2>1. rxIn'[i] = AnswerBit(Captured + 1 - 9 + i)
    <3>1. CASE i = 8
      <4>1. rxIn'[i] = cipoSync /\ cipoSync = AnswerBit(Captured)
        BY <1>1, <1>2, <3>1 DEF Shifted, Sampled, Capturing
      <4>2. Captured + 1 - 9 + i = Captured
        BY <1>2, <3>1
      <4> QED
        BY <4>1, <4>2
    <3>2. CASE i # 8
      <4>1. rxIn'[i] = rxIn[i + 1] /\ i + 1 \in 9 - (Captured % 8)..8
        BY <1>1, <3>2 DEF Shifted
      <4>2. rxIn[i + 1] = AnswerBit(Captured - 9 + (i + 1))
        BY <4>1 DEF Shifting
      <4>3. Captured - 9 + (i + 1) = Captured + 1 - 9 + i
        BY <1>2
      <4> QED
        BY <4>1, <4>2, <4>3
    <3> QED
      BY <3>1, <3>2
  <2> QED
    BY <1>1, <1>2, <2>1, WholeByte
<1> QED
  BY <1>1, <1>2, <1>3, <1>4

LEMMA ReceivingKept ==
    ASSUME FsmTypes, RestTypes, Timed, Holding, Tick, Behind, Sampled, Shifting, Receiving,
           NEW enq, NEW go, NEW deq, Drives(enq, go), Clock(enq, go, deq)
    PROVE  Receiving'
<1>1. /\ Captured \in Nat /\ rxLen \in Nat /\ received \in Nat /\ rxWe \in BOOLEAN
      /\ Len(rxFifo) \in Nat /\ Captured <= 8 * rxLen
  BY CapturedStep, LengthTypes DEF RestTypes
<1>2. rxCapture /\ rxQueue(deq, go)
  BY TxStep
<1>3. /\ Len(rxFifo') \in Nat /\ Len(rxFifo') <= Len(rxFifo) + (IF rxWe THEN 1 ELSE 0)
      /\ received' = IF go.busy THEN 0 ELSE received + (IF rxWe THEN 1 ELSE 0)
  BY <1>2, RxStep
<1>4. rxWe => phase = 0 /\ ~o_spi_idle
  BY DEF RestTypes, Receiving, o_spi_idle
<1>5. rxWe' \in BOOLEAN /\ (rxWe' <=> Capturing /\ Captured % 8 = 7 /\ Len(rxFifo) < Depth)
  BY <1>2, CaptureStep
<1>6. Capturing => /\ phase = 3 /\ st \in {"RX", "STOP_S"} /\ Captured < 8 * rxLen
                   /\ Captured' = Captured + 1 /\ ~o_spi_idle
  BY CapturedStep DEF Capturing, o_spi_idle
<1>7. ASSUME ~o_spi_idle'
      PROVE  /\ received' = Captured' \div 8 - (IF rxWe' THEN 1 ELSE 0)
             /\ Len(rxFifo') <= received'
  <2>1. CASE o_spi_idle
    <3>1. go.busy /\ st' = "IDLE" /\ rxFifo = << >> /\ ~rxWe /\ ~rxWe'
      BY <1>4, <1>5, <1>6, <1>7, <2>1, IdleStep
    <3>2. received' = 0 /\ Captured' = 0
      BY <1>3, <3>1 DEF Captured
    <3>3. Len(rxFifo) = 0
      BY <3>1
    <3>4. Len(rxFifo') = 0
      BY <1>1, <1>3, <3>1, <3>3
    <3>5. Captured' \div 8 - (IF rxWe' THEN 1 ELSE 0) = 0
      <4>1. \A c : c = 0 => c \div 8 - 0 = 0
        OBVIOUS
      <4>2. (IF rxWe' THEN 1 ELSE 0) = 0
        BY <3>1
      <4> QED
        BY <3>2, <4>1, <4>2, Zenon
    <3> QED
      BY <3>2, <3>4, <3>5
  <2>2. CASE ~o_spi_idle
    <3>1. ~go.busy
      BY <2>2, Alone DEF NoGo
    <3>2. /\ received = Captured \div 8 - (IF rxWe THEN 1 ELSE 0) /\ Len(rxFifo) <= received
          /\ Captured' = IF Capturing THEN Captured + 1 ELSE Captured
      BY <1>7, <2>2, CapturedStep DEF Receiving
    <3>3. Len(rxFifo') <= received' /\ received' = received + (IF rxWe THEN 1 ELSE 0)
      BY <1>1, <1>3, <3>1, <3>2
    <3>4. received' = Captured \div 8
      BY <1>1, <3>2, <3>3
    <3>5. CASE Capturing /\ Captured % 8 = 7
      <4>1. Captured \div 8 < rxLen /\ ~rxWe
        BY <1>1, <1>4, <1>6, <3>5
      <4>2. rxLen <= Depth /\ Depth \in Nat
        BY LengthAssumption DEF FsmTypes
      <4>3. rxWe'
        BY <1>1, <1>5, <3>2, <3>5, <4>1, <4>2
      <4>4. Captured' \div 8 = Captured \div 8 + 1
        BY <1>1, <3>2, <3>5
      <4> QED
        BY <1>1, <3>3, <3>4, <4>3, <4>4
    <3>6. CASE ~(Capturing /\ Captured % 8 = 7)
      <4>1. ~rxWe'
        BY <1>5, <3>6
      <4>2. Captured' \div 8 = Captured \div 8
        BY <1>1, <3>2, <3>6
      <4> QED
        BY <3>3, <3>4, <4>1, <4>2
    <3> QED
      BY <3>5, <3>6
  <2> QED
    BY <2>1, <2>2
<1>8. ASSUME rxWe'
      PROVE  /\ st' \in {"RX", "STOP_S"} /\ Captured' % 8 = 0 /\ Captured' > 0
             /\ \A i \in 1..8 : rxIn'[i] = Bit(Answer(rxLen' - received'), i - 1)
  <2>1. /\ st' \in {"RX", "STOP_S"} /\ Captured' % 8 = 0 /\ Captured' > 0
        /\ \A i \in 1..8 : rxIn'[i] = Bit(Answer(rxLen - Captured \div 8), i - 1)
        /\ Captured' = Captured + 1 /\ Captured % 8 = 7 /\ rxLen' = rxLen
    BY <1>2, <1>8, WrittenWhole
  <2>2. received' = Captured' \div 8 - 1
    BY <1>7, <1>8, <2>1 DEF o_spi_idle
  <2>3. received' = Captured \div 8
    BY <1>1, <2>1, <2>2
  <2> QED
    BY <2>1, <2>3
<1> QED
  BY <1>7, <1>8 DEF Receiving, Answer

LEMMA WayStarts == Init => WayInv
<1> SUFFICES ASSUME Init PROVE WayInv
  OBVIOUS
<1>1. /\ phase = 0 /\ st = "IDLE" /\ t = 0 /\ dat = "WAIT" /\ csn /\ ~rxWe
      /\ delayed[1] = [st |-> "IDLE", t |-> 0]
  BY DEF Init
<1>2. Captured = 0 /\ 9 - (Captured % 8)..8 = {}
  BY <1>1 DEF Captured
<1>3. Fetching /\ Current /\ Deselected /\ Behind /\ Sampled /\ Receiving
  BY <1>1 DEF Fetching, Current, Deselected, Behind, Sampled, Receiving, o_spi_idle
<1>4. Shifting
  BY <1>2, Zenon DEF Shifting
<1> QED
  BY <1>3, <1>4 DEF WayInv

LEMMA WayRestarts == Reset => WayInv'
<1> SUFFICES ASSUME Reset PROVE WayInv'
  OBVIOUS
<1>1. /\ phase' = 0 /\ st' = "IDLE" /\ t' = 0 /\ dat' = "WAIT" /\ csn' /\ ~rxWe'
      /\ delayed'[1] = [st |-> "IDLE", t |-> 0]
  BY DEF Reset
<1>2. Captured' = 0 /\ 9 - (Captured' % 8)..8 = {}
  BY <1>1 DEF Captured
<1>3. Fetching' /\ Current' /\ Deselected' /\ Behind' /\ Sampled' /\ Receiving'
  BY <1>1 DEF Fetching, Current, Deselected, Behind, Sampled, Receiving, o_spi_idle
<1>4. Shifting'
  BY <1>2, Zenon DEF Shifting
<1> QED
  BY <1>3, <1>4 DEF WayInv

LEMMA WayKept == SpiInv /\ WayInv /\ [Next]_vars => WayInv'
<1> SUFFICES ASSUME SpiInv, WayInv, [Next]_vars PROVE WayInv'
  OBVIOUS
<1>1. FsmTypes /\ RestTypes /\ Holding /\ Timed /\ Driven /\ Heard
  BY DEF SpiInv
<1>2. Fetching /\ Current /\ Deselected /\ Behind /\ Sampled /\ Shifting /\ Receiving
  BY DEF WayInv
<1>3. CASE Reset
  BY <1>3, WayRestarts
<1>4. CASE Next /\ ~Reset
  <2>1. Tick
    BY <1>1, <1>4, Ticks
  <2>2. PICK enq, go : \E deq \in BOOLEAN : Drives(enq, go) /\ Clock(enq, go, deq)
    BY <1>1, <1>4, Driving
  <2>3. PICK deq \in BOOLEAN : Drives(enq, go) /\ Clock(enq, go, deq)
    BY <2>2
  <2>4. rxCapture
    BY <2>3, TxStep
  <2>5. Fetching'
    BY <1>1, <1>2, <2>1, <2>3, FetchingKept
  <2>6. Current'
    BY <1>1, <1>2, <2>1, <2>3, CurrentKept
  <2>7. Deselected' /\ Behind' /\ Sampled'
    BY <1>1, <1>2, <2>1, DeselectedKept, BehindKept, SampledKept
  <2>8. Shifting'
    BY <1>1, <1>2, <2>1, <2>4, ShiftingKept
  <2>9. Receiving'
    BY <1>1, <1>2, <2>1, <2>3, ReceivingKept
  <2> QED
    BY <2>5, <2>6, <2>7, <2>8, <2>9 DEF WayInv
<1>5. CASE UNCHANGED vars
  <2>1. UNCHANGED <<phase, st, t, delayed, dat, txLen, rxLen, waitCyc>>
    BY <1>5 DEF vars, fsmVars
  <2>2. UNCHANGED <<txFifo, txOut, rxIn, rxWe, rxFifo, fetched, received>>
    BY <1>5 DEF vars, fifoVars
  <2>3. UNCHANGED <<sck, csn, cipoMeta, cipoSync, heard, cipo>>
    BY <1>5 DEF vars, pinVars
  <2>4. Fetching' /\ Current' /\ Deselected' /\ Behind'
    BY <1>2, <2>1, <2>2, <2>3 DEF Fetching, Due, Current, Deselected, Behind, o_spi_idle
  <2>5. /\ \A n : AnswerBit(n)' = AnswerBit(n)
        /\ Captured' = Captured /\ rxLen' - received' = rxLen - received
    BY <2>1, <2>2 DEF AnswerBit, Captured
  <2>6. Sampled'
    BY <1>2, <2>1, <2>3 DEF Sampled, AnswerBit
  <2>7. Shifting'
    BY <1>2, <2>1, <2>2, <2>5 DEF Shifting, AnswerBit
  <2>8. Receiving'
    BY <1>2, <2>1, <2>2, <2>5 DEF Receiving, o_spi_idle
  <2> QED
    BY <2>4, <2>6, <2>7, <2>8 DEF WayInv
<1> QED
  BY <1>3, <1>4, <1>5

LEMMA WayInvariance == Spec => [](SpiInv /\ WayInv)
BY SpiStarts, SpiKept, WayStarts, WayKept, PTL DEF Spec

-----------------------------------------------------------------------------
(* The refinement: the variables of StandSpi.                              *)

Pending == ~o_spi_idle /\ fetched > HeardBytes
AbsTx == (IF Pending THEN <<txOut>> ELSE << >>) \o txFifo
AbsData == IF rxValid THEN <<rxOut>> ELSE << >>
AbsJob == [busy |-> ~o_spi_idle,
           tx   |-> IF o_spi_idle THEN 0 ELSE txLen - HeardBytes,
           rx   |-> IF o_spi_idle THEN 0 ELSE rxLen - received]
AbsFrame == [i \in 1..HeardBytes |-> ByteOf(SubSeq(heard, 8 * i - 7, 8 * i))]

(* What the driver takes from the RX queue and what the master puts in.    *)
Takes(byte, deq) ==
    /\ rxFifo' = (IF deq /\ o_rx_avail THEN Tail(rxFifo) ELSE rxFifo) \o byte
    /\ AbsData' = IF deq /\ o_rx_avail THEN <<Head(rxFifo)>> ELSE << >>

LEMMA JobFields ==
    ASSUME ~o_spi_idle
    PROVE  AbsJob.busy /\ AbsJob.tx = txLen - HeardBytes /\ AbsJob.rx = rxLen - received
<1> DEFINE busy == ~o_spi_idle
           tx == IF o_spi_idle THEN 0 ELSE txLen - HeardBytes
           rx == IF o_spi_idle THEN 0 ELSE rxLen - received
<1>1. tx = txLen - HeardBytes /\ rx = rxLen - received /\ busy = TRUE
  OBVIOUS
<1>2. AbsJob = [busy |-> busy, tx |-> tx, rx |-> rx]
  BY DEF AbsJob
<1> HIDE DEF busy, tx, rx
<1>3. AbsJob.busy = busy /\ AbsJob.tx = tx /\ AbsJob.rx = rx
  BY <1>2
<1> QED
  BY <1>1, <1>3

LEMMA AbsHold ==
    ASSUME NEW enq \in {<< >>} \cup {<<b>> : b \in Bytes}, NEW deq \in BOOLEAN,
           NEW go \in {Stand!NoJob} \cup Transfers, go.busy => o_spi_idle,
           AbsTx' = AbsTx \o enq, AbsJob' = IF go.busy THEN go ELSE AbsJob,
           AbsFrame' = IF go.busy THEN << >> ELSE AbsFrame, Takes(<< >>, deq)
    PROVE  Stand!SpiStep(Bytes, Transfers, Answer)
<1>1. (go.busy => Stand!o_spi_idle)
  BY DEF Stand!o_spi_idle
<1>2. Stand!Dequeue(<< >>, deq)
  BY DEF Takes, Stand!Dequeue, Stand!o_rx_avail, o_rx_avail, AbsData
<1>3. Stand!SpiHold(enq, go, deq)
  BY <1>2 DEF AbsTx, AbsJob, AbsFrame, Pending, Stand!SpiHold
<1> QED
  BY <1>1, <1>3, Zenon DEF Stand!SpiStep

LEMMA AbsSend ==
    ASSUME NEW deq \in BOOLEAN, ~o_spi_idle, HeardBytes < txLen, HeardBytes \in Nat, txLen \in Nat,
           AbsTx \in Seq(Sent), AbsTx # << >>, AbsTx' = Tail(AbsTx), AbsJob' = [AbsJob EXCEPT !.tx = @ - 1],
           AbsFrame' = Append(AbsFrame, Head(AbsTx)), Takes(<< >>, deq)
    PROVE  Stand!SpiStep(Bytes, Transfers, Answer)
<1>1. Stand!Dequeue(<< >>, deq)
  BY DEF Takes, Stand!Dequeue, Stand!o_rx_avail, o_rx_avail, AbsData
<1>2. AbsJob.busy /\ AbsJob.tx > 0
  BY JobFields
<1>3. AbsFrame' = Append(AbsFrame, IF AbsTx = << >> THEN "zero" ELSE Head(AbsTx))
  OBVIOUS
<1>4. AbsTx' = (IF AbsTx = << >> THEN << >> ELSE Tail(AbsTx)) \o << >>
  <2>1. Tail(AbsTx) \in Seq(Sent)
    OBVIOUS
  <2>2. Tail(AbsTx) \o << >> = Tail(AbsTx)
    BY <2>1
  <2> QED
    BY <2>2
<1>5. Stand!SpiSend(<< >>, deq)
  BY <1>1, <1>2, <1>3, <1>4 DEF AbsTx, AbsJob, AbsFrame, Pending, Stand!SpiSend
<1> QED
  BY <1>5, Zenon DEF Stand!SpiStep

LEMMA AbsReceive ==
    ASSUME NEW deq \in BOOLEAN, ~o_spi_idle, HeardBytes = txLen, txLen \in Nat,
           received \in Nat, rxLen \in Nat, received < rxLen,
           AbsTx' = AbsTx \o << >>, AbsJob' = [AbsJob EXCEPT !.rx = @ - 1],
           AbsFrame' = AbsFrame, Takes(<<Answer(rxLen - received)>>, deq)
    PROVE  Stand!SpiStep(Bytes, Transfers, Answer)
<1>1. AbsJob.busy /\ AbsJob.tx = 0 /\ AbsJob.rx > 0 /\ AbsJob.rx = rxLen - received
  BY JobFields
<1>2. Stand!Dequeue(<<Answer(AbsJob.rx)>>, deq)
  BY <1>1 DEF Takes, Stand!Dequeue, Stand!o_rx_avail, o_rx_avail, AbsData
<1>3. Stand!SpiReceive(Answer(AbsJob.rx), << >>, deq)
  BY <1>1, <1>2 DEF AbsTx, AbsJob, AbsFrame, Pending, Stand!SpiReceive
<1>4. Stand!SpiStep(Bytes, Transfers, Answer)
  BY <1>3, Zenon DEF Stand!SpiStep, AbsJob
<1> QED
  BY <1>4

LEMMA AbsStop ==
    ASSUME NEW deq \in BOOLEAN, ~o_spi_idle, HeardBytes = txLen, txLen \in Nat,
           rxLen \in Nat, received = rxLen, o_spi_idle',
           AbsTx' = AbsTx \o << >>, AbsFrame' = AbsFrame, Takes(<< >>, deq)
    PROVE  Stand!SpiStep(Bytes, Transfers, Answer)
<1>1. AbsJob.busy /\ AbsJob.tx = 0 /\ AbsJob.rx = 0
  BY JobFields
<1>2. AbsJob' = Stand!NoJob
  BY DEF AbsJob, Stand!NoJob
<1>3. Stand!Dequeue(<< >>, deq)
  BY DEF Takes, Stand!Dequeue, Stand!o_rx_avail, o_rx_avail, AbsData
<1>4. Stand!SpiStop(<< >>, deq)
  BY <1>1, <1>2, <1>3 DEF AbsTx, AbsJob, AbsFrame, Pending, Stand!SpiStop
<1> QED
  BY <1>4, Zenon DEF Stand!SpiStep

(* How many bytes of the command have been heard at each point.            *)
HeardWhole ==
    /\ o_spi_idle \/ st \in {"WAIT", "RX", "STOP_S", "STOP_D"} => HeardBytes = txLen
    /\ st = "TX" => HeardBytes = Ticked \div 8
    /\ ~o_spi_idle /\ st \in {"IDLE", "START_D", "START_S"} => HeardBytes = 0
    /\ HeardBytes \in 0..txLen /\ txLen \in Nat
    /\ HeardBytes > 0 => 8 * HeardBytes <= Len(heard)

LEMMA HeardNow == SpiInv /\ Deselected => HeardWhole
<1> SUFFICES ASSUME SpiInv, Deselected PROVE HeardWhole
  OBVIOUS
<1>1. FsmTypes /\ Timed /\ Driven /\ Heard
  BY DEF SpiInv
<1> DEFINE n == Len(heard)
<1>2. txLen \in Nat /\ rxLen \in Nat /\ waitCyc \in Nat /\ n \in Nat /\ t \in Nat
      /\ (txLen \in TxLens => txLen > 0) /\ st \in States /\ phase \in 0..3
  BY <1>1, LengthTypes DEF FsmTypes
<1>3. HeardBytes = IF ~o_spi_idle /\ ~Selected THEN 0 ELSE IF n >= 8 * txLen THEN txLen ELSE n \div 8
  BY DEF HeardBytes
<1>4. n >= 8 * txLen \/ n \div 8 \in 0..txLen
  BY <1>2
<1>5. HeardBytes \in 0..txLen /\ (HeardBytes > 0 => 8 * HeardBytes <= n)
  BY <1>2, <1>3, <1>4
<1>6. ASSUME o_spi_idle \/ st \in {"WAIT", "RX", "STOP_S", "STOP_D"}
      PROVE  HeardBytes = txLen
  <2>1. n >= 8 * txLen
    <3>1. Total \in Nat /\ Total >= 8 * txLen /\ Ticked \in Nat
      BY <1>2 DEF Total, Ticked
    <3> QED
      BY <1>1, <1>2, <1>6, <3>1 DEF Heard
  <2>2. o_spi_idle \/ Selected
    BY <1>6 DEF Selected
  <2> QED
    BY <1>3, <2>1, <2>2
<1>7. ASSUME st = "TX"
      PROVE  HeardBytes = Ticked \div 8
  <2>1. n = Ticked /\ t < 8 * txLen
    BY <1>1, <1>7, Lengths DEF Heard, Timed
  <2>2. Selected
    BY <1>7 DEF Selected
  <2>3. Ticked \in Nat /\ Ticked <= 8 * txLen
    BY <1>2, <2>1 DEF Ticked
  <2> QED
    BY <1>2, <1>3, <2>1, <2>2, <2>3
<1>8. ASSUME ~o_spi_idle, st \in {"IDLE", "START_D", "START_S"}
      PROVE  HeardBytes = 0
  <2>1. CASE csn
    BY <1>3, <1>8, <2>1 DEF Selected
  <2>2. CASE ~csn
    <3>1. st = "START_S" /\ heard = << >> /\ txLen > 0
      BY <1>1, <1>2, <1>8, <2>2 DEF Deselected, Heard, Timed
    <3>2. n = 0
      BY <3>1
    <3> HIDE DEF n
    <3>3. n \div 8 = 0
      BY <3>2
    <3> QED
      BY <1>2, <1>3, <3>1, <3>2, <3>3
  <2> QED
    BY <2>1, <2>2
<1> QED
  BY <1>2, <1>5, <1>6, <1>7, <1>8 DEF HeardWhole

(* The next byte has been fetched when the one before has been heard, and  *)
(* not much sooner.                                                        *)
Ahead == ~o_spi_idle => fetched \in HeardBytes..HeardBytes + 1

LEMMA FetchedAhead == SpiInv /\ Deselected /\ Fetching => Ahead
<1> SUFFICES ASSUME SpiInv, Deselected, Fetching, ~o_spi_idle
             PROVE  fetched \in HeardBytes..HeardBytes + 1
  BY DEF Ahead
<1>1. fetched = Due /\ HeardBytes \in Nat /\ txLen \in Nat
  BY HeardNow DEF HeardWhole, Fetching
<1>2. st \in States /\ t \in Nat
  BY LengthTypes DEF SpiInv, FsmTypes
<1>3. CASE st = "TX"
  <2>1. HeardBytes = Ticked \div 8 /\ fetched = t \div 8 + 1
    BY <1>1, <1>3, HeardNow DEF HeardWhole, Due
  <2>2. Ticked = t \/ Ticked = t + 1
    BY DEF Ticked
  <2> QED
    BY <1>2, <2>1, <2>2
<1>4. CASE st \in {"IDLE", "START_D", "START_S"}
  <2>1. HeardBytes = 0 /\ fetched \in 0..1
    BY <1>1, <1>4, HeardNow DEF HeardWhole, Due
  <2> QED
    BY <2>1
<1>5. CASE st \in {"WAIT", "RX", "STOP_S", "STOP_D"}
  <2>1. HeardBytes = txLen /\ fetched = txLen
    BY <1>1, <1>5, HeardNow DEF HeardWhole, Due
  <2> QED
    BY <1>1, <2>1
<1> QED
  BY <1>2, <1>3, <1>4, <1>5 DEF States

-----------------------------------------------------------------------------
(* The refinement: what a clock enable does to the bytes.                  *)

(* The last bit of a byte of the command is heard.                         *)
ByteDone == st = "TX" /\ phase = 1 /\ t % 8 = 7

(* The bus is left only from STOP_D.                                       *)
LEMMA Ends ==
    ASSUME SpiInv, Tick, ~o_spi_idle
    PROVE  /\ o_spi_idle' => st = "STOP_D"
           /\ st = "STOP_D" => (st' = "STOP_D" /\ ~o_spi_idle') \/ (st' = "IDLE" /\ o_spi_idle')
<1>1. FsmTypes /\ Timed /\ Holding
  BY DEF SpiInv
<1>2. Stays \/ Rests \/ Begins \/ Counts \/ Moves
  BY <1>1, BusStep
<1>3. st' = "IDLE" => st \in {"IDLE", "STOP_D"}
  BY <1>1, <1>2, NextStates DEF Stays, Rests, Begins, Counts, Moves, AfterTx, FsmTypes, States
<1>4. st = "STOP_D" => st' \in {"STOP_D", "IDLE"}
  BY <1>2, NextStates DEF Stays, Rests, Begins, Counts, Moves
<1>5. HoldStep
  BY DEF Tick
<1>6. st = "STOP_D" => dat = "WAIT" /\ dat' = "WAIT"
  BY <1>1, <1>5 DEF Holding, HoldStep, o_spi_idle
<1>7. st = "IDLE" /\ st' = "IDLE" => dat' # "WAIT"
  <2> SUFFICES ASSUME st = "IDLE", st' = "IDLE", dat' = "WAIT" PROVE FALSE
    OBVIOUS
  <2>1. dat # "WAIT" /\ dat' = NextHold[dat]
    BY <1>5 DEF HoldStep, o_spi_idle
  <2>2. dat = "HOLD_3"
    BY <1>1, <2>1 DEF FsmTypes, NextHold
  <2>3. phase = 2 /\ goAux
    BY <1>1, <2>2 DEF Holding
  <2> QED
    BY <1>2, <2>3 DEF Stays, Rests, Begins, Counts, Moves
<1>8. o_spi_idle' <=> st' = "IDLE" /\ dat' = "WAIT"
  BY DEF o_spi_idle
<1> QED
  BY <1>3, <1>4, <1>6, <1>7, <1>8

(* Bytes of the command are heard one by one.                              *)
LEMMA HeardByByte ==
    ASSUME SpiInv, Deselected, SpiInv', Deselected', Tick, ~o_spi_idle
    PROVE  HeardBytes' = HeardBytes + (IF ByteDone THEN 1 ELSE 0)
<1>1. FsmTypes /\ Timed /\ Holding
  BY DEF SpiInv
<1>2. Stays \/ Rests \/ Begins \/ Counts \/ Moves
  BY <1>1, BusStep
<1>3. phase' = (IF phase = 3 THEN 0 ELSE phase + 1) /\ phase \in 0..3 /\ t \in Nat /\ st \in States
  BY <1>1, PhaseStep, LengthTypes DEF FsmTypes
<1>4. HeardWhole
  BY HeardNow
<1>5. (SpiInv /\ Deselected => HeardWhole)'
  BY HeardNow, PTL
<1>6. txLen' = txLen /\ txLen \in Nat /\ HeardBytes \in Nat
  BY <1>4, LengthsHeld DEF HeardWhole
<1>7. CASE st \in {"IDLE", "START_D", "START_S"}
  <2>1. ~ByteDone /\ HeardBytes = 0
    BY <1>4, <1>7 DEF HeardWhole, ByteDone
  <2>2. ~o_spi_idle'
    BY <1>7, Ends
  <2>3. st' \in {"IDLE", "START_D", "START_S"} \/ (st' = "TX" /\ t' = 0 /\ phase' = 3)
    BY <1>2, <1>3, <1>7, NextStates DEF Stays, Rests, Begins, Counts, Moves
  <2>4. CASE st' = "TX" /\ t' = 0 /\ phase' = 3
    <3>1. Ticked' = 0 /\ HeardBytes' = Ticked' \div 8
      BY <1>5, <2>4 DEF HeardWhole, Ticked
    <3>2. \A c : c = 0 => c \div 8 = 0
      OBVIOUS
    <3> QED
      BY <2>1, <3>1, <3>2
  <2> QED
    BY <1>5, <2>1, <2>2, <2>3, <2>4 DEF HeardWhole
<1>8. CASE st = "TX"
  <2>1. HeardBytes = Ticked \div 8
    BY <1>4, <1>8 DEF HeardWhole
  <2>2. CASE st' = "TX"
    <3>1. HeardBytes' = Ticked' \div 8
      BY <1>5, <2>2 DEF HeardWhole
    <3>2. phase # 1 => Ticked' = Ticked
      BY <1>2, <1>3, <1>8, <2>2, NextStates DEF Stays, Rests, Begins, Counts, Moves, Ticked, AfterTx
    <3>3. phase = 1 => Ticked = t /\ Ticked' = t + 1
      BY <1>2, <1>3 DEF Stays, Rests, Begins, Counts, Moves, Ticked
    <3>4. CASE phase # 1
      BY <1>6, <2>1, <3>1, <3>2, <3>4 DEF ByteDone
    <3>5. CASE phase = 1
      <4>1. (t + 1) \div 8 = t \div 8 + (IF t % 8 = 7 THEN 1 ELSE 0)
        BY <1>3
      <4>2. ByteDone <=> t % 8 = 7
        BY <1>8, <3>5 DEF ByteDone
      <4> QED
        BY <2>1, <3>1, <3>3, <3>5, <4>1, <4>2
    <3> QED
      BY <3>4, <3>5
  <2>3. CASE st' # "TX"
    <3>1. phase = 2 /\ t + 1 = Length[st] /\ st' \in {"WAIT", "RX", "STOP_S"}
      BY <1>2, <1>8, <2>3, NextStates DEF Stays, Rests, Begins, Counts, Moves, AfterTx
    <3>2. Ticked = 8 * txLen
      BY <1>8, <3>1, Lengths DEF Ticked
    <3>3. HeardBytes = txLen /\ ~ByteDone
      BY <1>6, <2>1, <3>1, <3>2 DEF ByteDone
    <3>4. HeardBytes' = txLen'
      BY <1>5, <3>1 DEF HeardWhole
    <3> QED
      BY <1>6, <3>3, <3>4
  <2> QED
    BY <2>2, <2>3
<1>9. CASE st \in {"WAIT", "RX", "STOP_S", "STOP_D"}
  <2>1. HeardBytes = txLen /\ ~ByteDone
    BY <1>4, <1>9 DEF HeardWhole, ByteDone
  <2>2. st' \in {"WAIT", "RX", "STOP_S", "STOP_D"} \/ o_spi_idle'
    <3>1. st # "STOP_D" => st' \in {"WAIT", "RX", "STOP_S", "STOP_D"}
      BY <1>2, <1>9, NextStates DEF Stays, Rests, Begins, Counts, Moves
    <3> QED
      BY <3>1, Ends
  <2>3. HeardBytes' = txLen'
    BY <1>5, <2>2 DEF HeardWhole
  <2> QED
    BY <1>6, <2>1, <2>3
<1> QED
  BY <1>3, <1>7, <1>8, <1>9 DEF States

(* What is put in front of a queue is its head.                            *)
LEMMA Queued ==
    ASSUME NEW S, NEW q \in Seq(S), NEW x \in S
    PROVE  /\ q \o << >> = q /\ << >> \o q = q
           /\ <<x>> \o q \in Seq(S) /\ <<x>> \o q # << >>
           /\ Head(<<x>> \o q) = x /\ Tail(<<x>> \o q) = q
           /\ q # << >> => <<Head(q)>> \o Tail(q) = q
<1>1. q \o << >> = q /\ << >> \o q = q
  BY ConcatEmptySeq
<1> DEFINE s == <<x>> \o q
<1>2. /\ s \in Seq(S) /\ Len(s) = 1 + Len(q) /\ Len(q) \in Nat
      /\ \A i \in 1..1 + Len(q) : s[i] = IF i <= 1 THEN x ELSE q[i - 1]
  <2>1. <<x>> \in Seq(S) /\ Len(<<x>>) = 1 /\ <<x>>[1] = x
    OBVIOUS
  <2> QED
    BY <2>1, ConcatProperties, LenProperties
<1> HIDE DEF s
<1>3. s # << >> /\ Head(s) = x
  BY <1>2
<1>4. Tail(s) = q
  <2>1. Tail(s) \in Seq(S) /\ Len(Tail(s)) = Len(q) /\ \A i \in 1..Len(q) : Tail(s)[i] = s[i + 1]
    BY <1>2, <1>3, HeadTailProperties
  <2>2. \A i \in 1..Len(q) : s[i + 1] = q[i]
    BY <1>2
  <2> QED
    BY <2>1, <2>2, SeqEqual
<1>5. ASSUME q # << >>
      PROVE  <<Head(q)>> \o Tail(q) = q
  <2> DEFINE r == <<Head(q)>> \o Tail(q)
  <2>1. /\ Head(q) \in S /\ Head(q) = q[1] /\ Tail(q) \in Seq(S) /\ Len(Tail(q)) = Len(q) - 1
        /\ \A i \in 1..Len(Tail(q)) : Tail(q)[i] = q[i + 1]
    BY <1>5, HeadTailProperties
  <2>2. <<Head(q)>> \in Seq(S) /\ Len(<<Head(q)>>) = 1 /\ <<Head(q)>>[1] = Head(q)
    BY <2>1
  <2>3. /\ r \in Seq(S) /\ Len(r) = Len(q)
        /\ \A i \in 1..Len(q) : r[i] = IF i <= 1 THEN Head(q) ELSE Tail(q)[i - 1]
    BY <1>2, <2>1, <2>2, ConcatProperties
  <2>4. \A i \in 1..Len(q) : r[i] = q[i]
    BY <1>2, <2>1, <2>3
  <2> HIDE DEF r
  <2> QED
    BY <2>3, <2>4, SeqEqual DEF r
<1> QED
  BY <1>1, <1>2, <1>3, <1>4, <1>5 DEF s

(* The bytes still to be sent: one that has been heard is gone from them,  *)
(* and one that is put in the queue comes last.                            *)
LEMMA AbsTxStep ==
    ASSUME SpiInv, SpiInv', WayInv, WayInv', Tick,
           NEW enq, NEW go, NEW deq, Drives(enq, go), Clock(enq, go, deq)
    PROVE  /\ AbsTx \in Seq(Sent)
           /\ ~ByteDone => AbsTx' = AbsTx \o enq
           /\ ByteDone => AbsTx # << >> /\ Head(AbsTx) = txOut /\ AbsTx' = Tail(AbsTx)
<1>1. FsmTypes /\ RestTypes /\ Timed /\ Holding /\ Deselected /\ Fetching /\ Deselected'
  BY DEF SpiInv, WayInv
<1>2. txFifo \in Seq(Sent) /\ txOut \in Sent /\ fetched \in Nat
  BY <1>1, SeqMonotonic DEF FsmTypes, RestTypes, Sent
<1>3. /\ txFifo' = (IF s_data_fifo_tx_re THEN Tail(txFifo) ELSE txFifo) \o enq
      /\ txOut' = IF s_data_fifo_tx_re THEN Head(txFifo) ELSE txOut
      /\ fetched' = IF go.busy THEN 0 ELSE IF s_data_fifo_tx_re THEN fetched + 1 ELSE fetched
  BY TxStep
<1>4. (SpiInv /\ Deselected => HeardWhole)' /\ HeardWhole
  BY <1>1, HeardNow, PTL
<1>5. (SpiInv /\ Deselected /\ Fetching => Ahead)' /\ Ahead
  BY <1>1, FetchedAhead, PTL
<1>6. /\ txFifo \o << >> = txFifo /\ << >> \o txFifo = txFifo
      /\ <<txOut>> \o txFifo \in Seq(Sent) /\ <<txOut>> \o txFifo # << >>
      /\ Head(<<txOut>> \o txFifo) = txOut /\ Tail(<<txOut>> \o txFifo) = txFifo
      /\ txFifo # << >> => <<Head(txFifo)>> \o Tail(txFifo) = txFifo
  BY <1>2, Queued
<1>7. AbsTx = (IF Pending THEN <<txOut>> ELSE << >>) \o txFifo
  BY DEF AbsTx
<1>8. AbsTx' = (IF Pending' THEN <<txOut'>> ELSE << >>) \o txFifo'
  BY DEF AbsTx
<1>9. AbsTx \in Seq(Sent)
  BY <1>2, <1>6, <1>7
<1>10. CASE o_spi_idle
  <2>1. ~Pending /\ ~ByteDone
    BY <1>10 DEF Pending, ByteDone, o_spi_idle
  <2>2. /\ st' = "IDLE" /\ ~s_data_fifo_tx_re /\ go.busy \in BOOLEAN /\ (~go.busy => o_spi_idle')
    BY <1>1, <1>10, IdleStep
  <2>3. ~Pending'
    <3>1. CASE ~go.busy
      BY <2>2, <3>1 DEF Pending
    <3>2. CASE go.busy
      <4>1. fetched' = 0
        BY <1>3, <3>2
      <4>2. ~o_spi_idle' => HeardBytes' = 0
        BY <1>1, <1>4, <2>2 DEF HeardWhole
      <4> QED
        BY <4>1, <4>2 DEF Pending
    <3> QED
      BY <2>2, <3>1, <3>2
  <2>4. txFifo' = txFifo \o enq /\ AbsTx = txFifo /\ AbsTx' = << >> \o txFifo'
    BY <1>3, <1>6, <1>7, <1>8, <2>1, <2>2, <2>3
  <2>5. enq \in Seq(Sent)
    <3>1. enq = << >> \/ \E b \in Bytes : enq = <<b>>
      BY DEF Drives
    <3>2. ASSUME NEW b \in Bytes PROVE <<b>> \in Seq(Sent)
      <4>1. b \in Sent
        BY DEF Sent
      <4> QED
        BY <4>1
    <3>3. << >> \in Seq(Sent)
      BY EmptySeq
    <3> QED
      BY <3>1, <3>2, <3>3, Zenon
  <2>6. << >> \o (txFifo \o enq) = txFifo \o enq
    <3>1. txFifo \o enq \in Seq(Sent)
      BY <1>2, <2>5, ConcatProperties
    <3> QED
      BY <3>1, ConcatEmptySeq
  <2> QED
    BY <1>9, <2>1, <2>4, <2>6
<1>11. CASE ~o_spi_idle
  <2>1. enq = << >> /\ ~go.busy
    BY <1>11, Alone DEF NoGo
  <2>2. fetched' = (IF s_data_fifo_tx_re THEN fetched + 1 ELSE fetched)
    BY <1>3, <2>1
  <2>3. HeardBytes' = HeardBytes + (IF ByteDone THEN 1 ELSE 0) /\ HeardBytes \in Nat
    BY <1>1, <1>4, <1>11, HeardByByte DEF HeardWhole
  <2>4. Pending <=> fetched > HeardBytes
    BY <1>11 DEF Pending
  <2>5. ByteDone => ~s_data_fifo_tx_re
    BY <1>1 DEF ByteDone, s_data_fifo_tx_re
  <2>6. s_data_fifo_tx_re => txFifo # << >>
    BY DEF s_data_fifo_tx_re
  <2>7. fetched \in HeardBytes..HeardBytes + 1
    BY <1>5, <1>11 DEF Ahead
  <2>8. CASE o_spi_idle'
    <3>1. st = "STOP_D" /\ ~ByteDone
      BY <1>11, <2>8, Ends DEF ByteDone
    <3>2. fetched = txLen /\ HeardBytes = txLen /\ ~s_data_fifo_tx_re
      BY <1>1, <1>4, <1>11, <2>8, <3>1, DueStep DEF Fetching, HeardWhole
    <3>3. ~Pending /\ ~Pending'
      BY <2>3, <2>4, <2>8, <3>2 DEF Pending
    <3> QED
      BY <1>3, <1>6, <1>7, <1>8, <1>9, <2>1, <3>1, <3>2, <3>3, Zenon
  <2>9. CASE ~o_spi_idle'
    <3>1. fetched' \in HeardBytes'..HeardBytes' + 1 /\ (Pending' <=> fetched' > HeardBytes')
      BY <1>5, <2>9 DEF Ahead, Pending, WayInv
    <3>2. CASE s_data_fifo_tx_re
      <4>1. ~ByteDone /\ ~Pending /\ Pending'
        BY <1>2, <2>2, <2>3, <2>4, <2>5, <2>7, <3>1, <3>2
      <4>2. AbsTx = txFifo /\ txFifo' = Tail(txFifo) \o << >> /\ txOut' = Head(txFifo)
        BY <1>3, <1>6, <1>7, <2>1, <3>2, <4>1
      <4>3. Tail(txFifo) \o << >> = Tail(txFifo)
        BY <1>2, <2>6, <3>2, HeadTailProperties, ConcatEmptySeq
      <4>4. AbsTx' = <<Head(txFifo)>> \o Tail(txFifo)
        BY <1>8, <4>1, <4>2, <4>3
      <4>5. AbsTx' = AbsTx /\ AbsTx \o enq = AbsTx
        BY <1>6, <2>1, <2>6, <3>2, <4>2, <4>4
      <4> QED
        BY <1>9, <4>1, <4>5
    <3>3. CASE ~s_data_fifo_tx_re
      <4>1. txFifo' = txFifo /\ txOut' = txOut
        BY <1>3, <1>6, <2>1, <3>3
      <4>2. CASE ByteDone
        <5>1. Pending /\ ~Pending'
          BY <1>2, <2>2, <2>3, <2>4, <2>7, <3>1, <3>3, <4>2
        <5> QED
          BY <1>6, <1>7, <1>8, <1>9, <4>1, <4>2, <5>1
      <4>3. CASE ~ByteDone
        <5>1. Pending' <=> Pending
          BY <2>2, <2>3, <2>4, <3>1, <3>3, <4>3
        <5>2. AbsTx' = AbsTx
          BY <1>7, <1>8, <4>1, <5>1
        <5>3. AbsTx \o enq = AbsTx
          BY <1>9, <2>1, ConcatEmptySeq
        <5> QED
          BY <1>9, <4>3, <5>2, <5>3
      <4> QED
        BY <4>2, <4>3
    <3> QED
      BY <3>2, <3>3
  <2> QED
    BY <2>8, <2>9
<1> QED
  BY <1>10, <1>11

(* What the peripheral heard before does not change.                       *)
LEMMA ByteKept ==
    ASSUME NEW S, NEW h \in Seq(S), NEW x \in S, NEW i \in Nat \ {0}, 8 * i <= Len(h)
    PROVE  SubSeq(Append(h, x), 8 * i - 7, 8 * i) = SubSeq(h, 8 * i - 7, 8 * i)
<1> DEFINE g == Append(h, x)
           m == 8 * i - 7
           n == 8 * i
<1>1. Len(h) \in Nat /\ \A j \in 1..Len(h) : g[j] = h[j] /\ h[j] \in S
  BY AppendProperties, ElementOfSeq, LenProperties
<1>2. m \in Int /\ n \in Int /\ m <= n /\ n - m + 1 = 8 /\ m >= 1 /\ n <= Len(h)
  OBVIOUS
<1> HIDE DEF g, m, n
<1>3. \A j \in m..n : g[j] = h[j] /\ h[j] \in S
  BY <1>1, <1>2
<1>4. /\ SubSeq(h, m, n) \in Seq(S) /\ Len(SubSeq(h, m, n)) = 8
      /\ \A j \in 1..8 : SubSeq(h, m, n)[j] = h[m + j - 1]
  BY <1>2, <1>3, SubSeqProperties
<1>5. /\ SubSeq(g, m, n) \in Seq(S) /\ Len(SubSeq(g, m, n)) = 8
      /\ \A j \in 1..8 : SubSeq(g, m, n)[j] = g[m + j - 1]
  BY <1>2, <1>3, SubSeqProperties
<1>6. \A j \in 1..8 : SubSeq(g, m, n)[j] = SubSeq(h, m, n)[j]
  <2> TAKE j \in 1..8
  <2>1. m + j - 1 \in m..n
    BY <1>2
  <2> QED
    BY <1>3, <1>4, <1>5, <2>1
<1>7. SubSeq(g, m, n) = SubSeq(h, m, n)
  BY <1>4, <1>5, <1>6, SeqEqual
<1> QED
  BY <1>7 DEF g, m, n

(* Eight bits of a byte in their order are the byte.                       *)
LEMMA BitsMakeByte ==
    ASSUME NEW S, NEW h \in Seq(S), NEW i \in Nat, 8 * i + 8 <= Len(h), NEW b,
           \A n \in 8 * i + 1..8 * i + 8 : h[n] = Bit(b, n - 1)
    PROVE  ByteOf(SubSeq(h, 8 * (i + 1) - 7, 8 * (i + 1))) = b
<1> DEFINE m == 8 * (i + 1) - 7
           n == 8 * (i + 1)
           bits == SubSeq(h, m, n)
<1>1. m \in Int /\ n \in Int /\ m <= n /\ n - m + 1 = 8 /\ m = 8 * i + 1 /\ n = 8 * i + 8 /\ Len(h) \in Nat
  BY LenProperties
<1> HIDE DEF m, n
<1>2. \A j \in m..n : h[j] \in S
  BY <1>1, ElementOfSeq
<1>3. bits \in Seq(S) /\ Len(bits) = 8 /\ \A j \in 1..8 : bits[j] = h[m + j - 1]
  <2>1. /\ bits \in Seq(S) /\ Len(bits) = IF m <= n THEN n - m + 1 ELSE 0
        /\ \A j \in 1..n - m + 1 : bits[j] = h[m + j - 1]
    BY ONLY <1>1, <1>2, SubSeqProperties
  <2> QED
    BY <1>1, <2>1
<1>4. bits \in [1..8 -> S]
  BY <1>3, LenProperties
<1>5. ASSUME NEW j \in 1..8
      PROVE  bits[j] = Bit(b, j - 1)
  <2> DEFINE k == m + j - 1
  <2>1. k \in 8 * i + 1..8 * i + 8 /\ k - 1 = 8 * i + (j - 1) /\ bits[j] = h[k]
    BY <1>1, <1>3
  <2> HIDE DEF k
  <2>2. bits[j] = Bit(b, 8 * i + (j - 1))
    BY <2>1
  <2>3. (8 * i + (j - 1)) % 8 = (j - 1) % 8
    OBVIOUS
  <2> QED
    BY <2>2, <2>3 DEF Bit
<1> HIDE DEF bits
<1>6. bits[1][1] = b
  BY <1>5 DEF Bit
<1>7. bits = [j \in 1..8 |-> Bit(bits[1][1], j - 1)]
  BY <1>4, <1>5, <1>6
<1>8. ByteOf(bits) = b
  BY <1>6, <1>7, Zenon DEF ByteOf
<1> QED
  BY <1>8 DEF bits, m, n

(* The frame the peripheral gets grows by the byte that has been sent.     *)
LEMMA AbsFrameStep ==
    ASSUME SpiInv, SpiInv', WayInv, WayInv', Tick, ~o_spi_idle,
           NEW enq, NEW go, NEW deq, Clock(enq, go, deq)
    PROVE  /\ ~ByteDone => AbsFrame' = AbsFrame
           /\ ByteDone => AbsFrame' = Append(AbsFrame, txOut)
<1>1. FsmTypes /\ RestTypes /\ Timed /\ Holding /\ Driven /\ Heard /\ Deselected /\ Deselected'
  BY DEF SpiInv, WayInv
<1>2. HeardWhole
  BY <1>1, HeardNow
<1> DEFINE n == HeardBytes
           Part(h, i) == ByteOf(SubSeq(h, 8 * i - 7, 8 * i))
<1>3. n \in Nat /\ (n > 0 => 8 * n <= Len(heard)) /\ heard \in Seq(SentBits) /\ heard' \in Seq(SentBits)
  BY <1>1, <1>2 DEF HeardWhole, FsmTypes, SpiInv
<1>4. HeardBytes' = n + (IF ByteDone THEN 1 ELSE 0)
  BY <1>1, HeardByByte
<1>5. AbsFrame = [i \in 1..n |-> Part(heard, i)] /\ AbsFrame' = [i \in 1..HeardBytes' |-> Part(heard', i)]
  BY DEF AbsFrame
<1>6. n > 0 => heard' = heard \/ \E x \in SentBits : heard' = Append(heard, x)
  <2>1. CASE Clocking
    <3>1. heard' = IF phase = 1 THEN Append(heard, copi') ELSE heard
      BY <1>1, <2>1, HeardExactly
    <3>2. copi' \in SentBits
      BY DEF SpiInv, FsmTypes
    <3> QED
      BY <3>1, <3>2
  <2>2. CASE st = "START_S"
    BY <1>2, <2>2 DEF HeardWhole
  <2>3. CASE st \in {"IDLE", "START_D", "STOP_S", "STOP_D"}
    BY <1>1, <2>3, HeardStep
  <2> QED
    BY <1>1, <2>1, <2>2, <2>3 DEF Clocking, FsmTypes, States
<1>7. ASSUME NEW i \in 1..n
      PROVE  Part(heard', i) = Part(heard, i)
  <2>1. i \in Nat \ {0} /\ 8 * i <= Len(heard) /\ n > 0
    BY <1>3, LenProperties
  <2>2. \A x \in SentBits : SubSeq(Append(heard, x), 8 * i - 7, 8 * i) = SubSeq(heard, 8 * i - 7, 8 * i)
    BY <1>3, <2>1, ByteKept
  <2> QED
    BY <1>6, <2>1, <2>2
<1>8. CASE ~ByteDone
  <2>1. HeardBytes' = n
    BY <1>3, <1>4, <1>8
  <2> QED
    BY <1>5, <1>7, <1>8, <2>1
<1>9. CASE ByteDone
  <2>1. HeardBytes' = n + 1 /\ n = t \div 8 /\ t = 8 * n + 7 /\ t \in Nat
    BY <1>1, <1>2, <1>3, <1>4, <1>9, LengthTypes DEF ByteDone, HeardWhole, Ticked, FsmTypes
  <2>2. st' = "TX" /\ t' = t /\ phase' = 2 /\ txOut' = txOut
    <3>1. Stays \/ Rests \/ Begins \/ Counts \/ Moves
      BY <1>1, BusStep
    <3>2. phase' = 2
      BY <1>1, <1>9, PhaseStep DEF ByteDone
    <3>3. ~s_data_fifo_tx_re
      BY <1>9 DEF ByteDone, s_data_fifo_tx_re
    <3>4. txOut' = txOut
      BY <3>3, TxStep
    <3> QED
      BY <1>9, <3>1, <3>2, <3>4 DEF ByteDone, Stays, Rests, Begins, Counts, Moves
  <2>3. Len(heard') = 8 * n + 8
    BY <2>1, <2>2 DEF SpiInv, Heard, Ticked
  <2>4. \A k \in 8 * n + 1..8 * n + 8 : heard'[k] = Bit(txOut, k - 1)
    <3>1. \A k \in 8 * (t' \div 8) + 1..Len(heard') : heard'[k] = Bit(txOut', k - 1)
      BY <2>2 DEF WayInv, Current
    <3> QED
      BY <2>1, <2>2, <2>3, <3>1
  <2>5. Part(heard', n + 1) = txOut
    <3>1. 8 * n + 8 <= Len(heard') /\ n \in Nat /\ heard' \in Seq(SentBits)
      BY <1>3, <2>3
    <3> HIDE DEF n
    <3> QED
      BY <2>4, <3>1, BitsMakeByte
  <2> DEFINE S == {Part(heard, i) : i \in 1..n} \cup {txOut}
             f == [i \in 1..n |-> Part(heard, i)]
             g == [i \in 1..n + 1 |-> Part(heard', i)]
  <2>6. AbsFrame = f /\ AbsFrame' = g
    BY <1>5, <2>1
  <2>7. \A i \in 1..n : Part(heard, i) \in S
    OBVIOUS
  <2>8. \A i \in 1..n + 1 : Part(heard', i) \in S
    BY <1>3, <1>7, <2>5, <2>7
  <2> HIDE DEF S, Part
  <2>9. f \in Seq(S) /\ Len(f) = n /\ g \in Seq(S) /\ Len(g) = n + 1
    BY <1>3, <2>7, <2>8
  <2>10. txOut \in S
    BY DEF S
  <2>11. /\ Append(f, txOut) \in Seq(S) /\ Len(Append(f, txOut)) = n + 1
         /\ \A i \in 1..n : Append(f, txOut)[i] = f[i]
         /\ Append(f, txOut)[n + 1] = txOut
    <3> HIDE DEF f, n
    <3> QED
      BY <2>9, <2>10, AppendProperties
  <2>12. \A i \in 1..n + 1 : g[i] = Append(f, txOut)[i]
    BY <1>3, <1>7, <2>5, <2>11
  <2>13. g = Append(f, txOut)
    BY <2>9, <2>11, <2>12, SeqEqual
  <2> QED
    BY <1>9, <2>6, <2>13
<1> QED
  BY <1>8, <1>9

(* A byte of the answer is put in the RX queue whole.                      *)
LEMMA ByteWritten ==
    ASSUME RestTypes, Receiving, rxWe
    PROVE  ByteOf(rxIn) = Answer(rxLen - received)
<1> DEFINE a == Answer(rxLen - received)
<1>1. \A i \in 1..8 : rxIn[i] = Bit(a, i - 1)
  BY DEF Receiving
<1>2. rxIn \in [1..8 -> GotBits]
  BY DEF RestTypes
<1> HIDE DEF a
<1>3. rxIn[1][1] = a
  BY <1>1 DEF Bit
<1>4. rxIn = [i \in 1..8 |-> Bit(rxIn[1][1], i - 1)]
  BY <1>1, <1>2, <1>3
<1>5. ByteOf(rxIn) = a
  BY <1>3, <1>4, Zenon DEF ByteOf
<1> QED
  BY <1>5 DEF a

LEMMA TakesStep ==
    ASSUME NEW deq \in BOOLEAN, NEW go, rxQueue(deq, go)
    PROVE  Takes(IF rxWe THEN <<ByteOf(rxIn)>> ELSE << >>, deq)
<1> DEFINE taken == deq /\ o_rx_avail
           written == IF rxWe THEN <<ByteOf(rxIn)>> ELSE << >>
<1>1. /\ rxFifo' = (IF taken THEN Tail(rxFifo) ELSE rxFifo) \o written
      /\ rxOut' = IF taken THEN Head(rxFifo) ELSE rxOut
      /\ rxValid' = taken
  BY DEF rxQueue
<1> HIDE DEF written
<1>2. AbsData' = IF taken THEN <<Head(rxFifo)>> ELSE << >>
  BY <1>1 DEF AbsData
<1> QED
  BY <1>1, <1>2 DEF Takes, written

Jobs == [busy : BOOLEAN, tx : Int, rx : Int]

LEMMA OneFewer ==
    ASSUME NEW now \in Jobs, NEW next \in Jobs, next.busy = now.busy
    PROVE  /\ next.tx = now.tx - 1 /\ next.rx = now.rx => next = [now EXCEPT !.tx = @ - 1]
           /\ next.rx = now.rx - 1 /\ next.tx = now.tx => next = [now EXCEPT !.rx = @ - 1]
<1>1. ASSUME next.tx = now.tx - 1, next.rx = now.rx PROVE next = [now EXCEPT !.tx = @ - 1]
  BY <1>1 DEF Jobs
<1>2. ASSUME next.rx = now.rx - 1, next.tx = now.tx PROVE next = [now EXCEPT !.rx = @ - 1]
  BY <1>2 DEF Jobs
<1> QED
  BY <1>1, <1>2

LEMMA JobStep ==
    ASSUME ~o_spi_idle, ~o_spi_idle', txLen' = txLen, rxLen' = rxLen, txLen \in Nat, rxLen \in Nat,
           HeardBytes \in Nat, HeardBytes' \in Nat, received \in Nat, received' \in Nat
    PROVE  /\ HeardBytes' = HeardBytes + 1 /\ received' = received
                 => AbsJob' = [AbsJob EXCEPT !.tx = @ - 1]
           /\ HeardBytes' = HeardBytes /\ received' = received + 1
                 => AbsJob' = [AbsJob EXCEPT !.rx = @ - 1]
           /\ HeardBytes' = HeardBytes /\ received' = received => AbsJob' = AbsJob
<1> DEFINE tx0 == txLen - HeardBytes
           rx0 == rxLen - received
           tx1 == txLen - HeardBytes'
           rx1 == rxLen - received'
<1>1. AbsJob = [busy |-> TRUE, tx |-> tx0, rx |-> rx0]
  BY DEF AbsJob
<1>2. AbsJob' = [busy |-> TRUE, tx |-> tx1, rx |-> rx1]
  BY DEF AbsJob
<1>3. tx0 \in Int /\ rx0 \in Int /\ tx1 \in Int /\ rx1 \in Int
  OBVIOUS
<1>4. /\ HeardBytes' = HeardBytes + 1 => tx1 = tx0 - 1
      /\ received' = received + 1 => rx1 = rx0 - 1
      /\ HeardBytes' = HeardBytes => tx1 = tx0
      /\ received' = received => rx1 = rx0
  <2>1. ASSUME HeardBytes' = HeardBytes + 1 PROVE tx1 = tx0 - 1
    BY <2>1
  <2>2. ASSUME received' = received + 1 PROVE rx1 = rx0 - 1
    BY <2>2
  <2>3. ASSUME HeardBytes' = HeardBytes PROVE tx1 = tx0
    BY <2>3
  <2>4. ASSUME received' = received PROVE rx1 = rx0
    BY <2>4
  <2> QED
    BY <2>1, <2>2, <2>3, <2>4, Zenon
<1> HIDE DEF tx0, rx0, tx1, rx1
<1>5. AbsJob \in Jobs /\ AbsJob' \in Jobs
  BY <1>1, <1>2, <1>3 DEF Jobs
<1>6. /\ (AbsJob').busy = AbsJob.busy /\ AbsJob.tx = tx0 /\ AbsJob.rx = rx0
      /\ (AbsJob').tx = tx1 /\ (AbsJob').rx = rx1
  BY <1>1, <1>2
<1>7. ASSUME tx1 = tx0 - 1, rx1 = rx0
      PROVE  AbsJob' = [AbsJob EXCEPT !.tx = @ - 1]
  BY <1>5, <1>6, <1>7, OneFewer
<1>8. ASSUME tx1 = tx0, rx1 = rx0 - 1
      PROVE  AbsJob' = [AbsJob EXCEPT !.rx = @ - 1]
  BY <1>5, <1>6, <1>8, OneFewer
<1>9. ASSUME tx1 = tx0, rx1 = rx0
      PROVE  AbsJob' = AbsJob
  BY <1>1, <1>2, <1>9
<1> QED
  BY <1>4, <1>7, <1>8, <1>9, Zenon

LEMMA IdleRecord == o_spi_idle => AbsJob = Stand!NoJob
BY DEF AbsJob, Stand!NoJob

(* A clock enable while the master is idle starts a transfer, or does not. *)
LEMMA IdleClock ==
    ASSUME SpiInv, SpiInv', WayInv, WayInv', Tick, o_spi_idle,
           NEW enq, NEW go, NEW deq \in BOOLEAN, Drives(enq, go), Clock(enq, go, deq)
    PROVE  Stand!SpiStep(Bytes, Transfers, Answer)
<1>1. FsmTypes /\ RestTypes /\ Timed /\ Holding /\ Driven /\ Heard /\ Deselected /\ Receiving
  BY DEF SpiInv, WayInv
<1>2. /\ st' = "IDLE" /\ go.busy \in BOOLEAN
      /\ ~go.busy => o_spi_idle' /\ txLen' = txLen /\ rxLen' = rxLen
      /\ go.busy => /\ ~o_spi_idle' /\ txLen' = go.tx /\ rxLen' = go.rx
                    /\ go.tx \in TxLens /\ go.rx \in RxLens
  BY <1>1, IdleStep
<1>3. (SpiInv /\ Deselected => HeardWhole)' /\ HeardWhole /\ Deselected'
  BY <1>1, HeardNow, PTL DEF WayInv
<1>4. AbsTx' = AbsTx \o enq
  <2>1. ~ByteDone
    BY DEF ByteDone, o_spi_idle
  <2> QED
    BY <2>1, AbsTxStep
<1>5. enq \in {<< >>} \cup {<<b>> : b \in Bytes}
  BY DEF Drives
<1>6. Takes(<< >>, deq)
  <2>1. ~rxWe
    BY <1>1 DEF Receiving, o_spi_idle
  <2>2. rxQueue(deq, go)
    BY TxStep
  <2> QED
    BY <2>1, <2>2, TakesStep
<1>7. CASE ~go.busy
  <2>1. AbsJob' = AbsJob
    <3>1. AbsJob' = Stand!NoJob
      BY <1>2, <1>7 DEF AbsJob, Stand!NoJob
    <3> QED
      BY <3>1, IdleRecord
  <2>2. AbsFrame' = AbsFrame
    <3>1. heard' = heard
      BY <1>1, HeardStep DEF o_spi_idle
    <3>2. HeardBytes' = HeardBytes
      BY <1>2, <1>3, <1>7 DEF HeardWhole
    <3> QED
      BY <3>1, <3>2 DEF AbsFrame
  <2> DEFINE job == Stand!NoJob
  <2>3. ~job.busy
    BY DEF Stand!NoJob
  <2>4. job \in {Stand!NoJob} \cup Transfers
    OBVIOUS
  <2> HIDE DEF job
  <2> QED
    BY <1>4, <1>5, <1>6, <2>1, <2>2, <2>3, <2>4, AbsHold
<1>8. CASE go.busy
  <2> DEFINE job == Stand!Transfer(go.tx, go.rx)
  <2>1. HeardBytes' = 0 /\ received' = 0 /\ txLen' \in Nat /\ rxLen' \in Nat
    <3>1. HeardBytes' = 0
      BY <1>1, <1>2, <1>3, <1>8 DEF HeardWhole
    <3>2. received' = 0
      BY <1>8, TxStep DEF rxQueue
    <3>3. txLen' \in Nat /\ rxLen' \in Nat
      BY <1>1, LengthTypesAfter DEF Tick
    <3> QED
      BY <3>1, <3>2, <3>3
  <2>2. AbsJob' = [busy |-> TRUE, tx |-> txLen' - HeardBytes', rx |-> rxLen' - received']
    BY <1>2, <1>8 DEF AbsJob
  <2>3. AbsJob' = job /\ job.busy
    <3>1. job = [busy |-> TRUE, tx |-> go.tx, rx |-> go.rx]
      BY DEF Stand!Transfer
    <3>2. txLen' - HeardBytes' = go.tx /\ rxLen' - received' = go.rx
      BY <1>2, <1>8, <2>1
    <3> HIDE DEF job
    <3> QED
      BY <2>2, <3>1, <3>2
  <2>4. AbsFrame' = << >>
    BY <2>1 DEF AbsFrame
  <2>5. job \in {Stand!NoJob} \cup Transfers
    BY <1>2, <1>8 DEF Transfers
  <2> HIDE DEF job
  <2> QED
    BY <1>4, <1>5, <1>6, <2>3, <2>4, <2>5, AbsHold
<1> QED
  BY <1>2, <1>7, <1>8

(* One during a transfer ends a byte sent, or a byte received, or the      *)
(* transfer, or none of them.                                              *)
LEMMA BusyClock ==
    ASSUME SpiInv, SpiInv', WayInv, WayInv', Tick, ~o_spi_idle,
           NEW enq, NEW go, NEW deq \in BOOLEAN, Drives(enq, go), Clock(enq, go, deq)
    PROVE  Stand!SpiStep(Bytes, Transfers, Answer)
<1>1. FsmTypes /\ RestTypes /\ Timed /\ Holding /\ Behind /\ Deselected /\ Deselected' /\ Receiving
  BY DEF SpiInv, WayInv
<1>2. HeardWhole
  BY <1>1, HeardNow
<1>3. /\ HeardBytes \in Nat /\ HeardBytes <= txLen /\ txLen \in Nat /\ rxLen \in Nat
      /\ received \in Nat /\ t \in Nat
  BY <1>1, <1>2, LengthTypes DEF HeardWhole, RestTypes, FsmTypes
<1>4. enq = << >> /\ go = NoGo /\ ~go.busy
  BY Alone DEF NoGo
<1>5. rxCapture /\ rxQueue(deq, go)
  BY TxStep
<1>6. Takes(IF rxWe THEN <<ByteOf(rxIn)>> ELSE << >>, deq)
  BY <1>5, TakesStep
<1>7. received' = received + (IF rxWe THEN 1 ELSE 0)
  BY <1>1, <1>4, <1>5, RxStep
<1>8. HeardBytes' = HeardBytes + (IF ByteDone THEN 1 ELSE 0)
  BY <1>1, HeardByByte
<1>9. received' \in Nat /\ HeardBytes' \in Nat /\ txLen' = txLen /\ rxLen' = rxLen
  BY <1>3, <1>7, <1>8, LengthsHeld
<1>10. ~o_spi_idle' => /\ ByteDone /\ ~rxWe => AbsJob' = [AbsJob EXCEPT !.tx = @ - 1]
                       /\ ~ByteDone /\ rxWe => AbsJob' = [AbsJob EXCEPT !.rx = @ - 1]
                       /\ ~ByteDone /\ ~rxWe => AbsJob' = AbsJob
  <2>1. /\ ByteDone => HeardBytes' = HeardBytes + 1
        /\ ~ByteDone => HeardBytes' = HeardBytes
        /\ rxWe => received' = received + 1
        /\ ~rxWe => received' = received
    BY <1>3, <1>7, <1>8
  <2> QED
    BY <1>3, <1>9, <2>1, JobStep
<1>11. /\ ~ByteDone => AbsFrame' = AbsFrame /\ AbsTx' = AbsTx \o << >>
       /\ AbsTx \in Seq(Sent)
       /\ ByteDone => /\ AbsFrame' = Append(AbsFrame, Head(AbsTx))
                      /\ AbsTx # << >> /\ AbsTx' = Tail(AbsTx)
  BY <1>4, AbsTxStep, AbsFrameStep
<1>12. o_spi_idle' => st = "STOP_D"
  BY Ends
<1>13. rxWe => st \in {"RX", "STOP_S"} /\ ~ByteDone /\ ~o_spi_idle'
  BY <1>1, <1>12 DEF Receiving, ByteDone
<1>14. CASE ByteDone
  <2>1. ~o_spi_idle' /\ ~rxWe
    BY <1>12, <1>13, <1>14 DEF ByteDone
  <2>2. HeardBytes < txLen
    <3>1. HeardBytes = t \div 8 /\ t < 8 * txLen
      BY <1>1, <1>2, <1>14, Lengths DEF ByteDone, HeardWhole, Ticked, Timed
    <3> QED
      BY <1>3, <3>1
  <2>3. AbsJob' = [AbsJob EXCEPT !.tx = @ - 1]
    BY <1>10, <1>14, <2>1
  <2>4. Takes(<< >>, deq)
    BY <1>6, <2>1
  <2> QED
    BY <1>3, <1>11, <1>14, <2>2, <2>3, <2>4, AbsSend
<1>15. CASE rxWe
  <2>1. ~o_spi_idle' /\ ~ByteDone /\ HeardBytes = txLen
    BY <1>2, <1>13, <1>15 DEF HeardWhole
  <2>2. received < rxLen
    <3>1. received = Captured \div 8 - 1 /\ Captured \in 0..8 * rxLen
      BY <1>1, <1>15, CapturedStep DEF Receiving
    <3> QED
      BY <1>3, <3>1
  <2>3. Takes(<<Answer(rxLen - received)>>, deq)
    BY <1>1, <1>6, <1>15, ByteWritten
  <2>4. AbsJob' = [AbsJob EXCEPT !.rx = @ - 1]
    BY <1>10, <1>15, <2>1
  <2> QED
    BY <1>3, <1>11, <2>1, <2>2, <2>3, <2>4, AbsReceive
<1>16. CASE o_spi_idle'
  <2>1. st = "STOP_D" /\ ~ByteDone /\ ~rxWe /\ HeardBytes = txLen
    BY <1>2, <1>12, <1>13, <1>16 DEF HeardWhole, ByteDone
  <2>2. received = rxLen
    <3>1. received = Captured \div 8 /\ Captured = 8 * rxLen
      BY <1>1, <1>3, <2>1 DEF Receiving, Captured
    <3> QED
      BY <1>3, <3>1
  <2>3. Takes(<< >>, deq)
    BY <1>6, <2>1
  <2> QED
    BY <1>3, <1>11, <1>16, <2>1, <2>2, <2>3, AbsStop
<1>17. CASE ~ByteDone /\ ~rxWe /\ ~o_spi_idle'
  <2> DEFINE job == Stand!NoJob
             none == << >>
  <2>1. ~job.busy /\ job \in {Stand!NoJob} \cup Transfers /\ none \in {<< >>} \cup {<<b>> : b \in Bytes}
    BY DEF Stand!NoJob
  <2>2. AbsJob' = AbsJob
    BY <1>10, <1>17
  <2>3. AbsTx' = AbsTx \o none /\ AbsFrame' = AbsFrame
    BY <1>11, <1>17
  <2>4. Takes(<< >>, deq)
    BY <1>6, <1>17
  <2> HIDE DEF job, none
  <2> QED
    BY <2>1, <2>2, <2>3, <2>4, AbsHold
<1> QED
  BY <1>14, <1>15, <1>16, <1>17

LEMMA ResetRestarts == Reset => Stand!SpiReset
<1> SUFFICES ASSUME Reset PROVE Stand!SpiReset
  OBVIOUS
<1>1. /\ st' = "IDLE" /\ dat' = "WAIT" /\ txLen' = 0 /\ txFifo' = << >> /\ rxFifo' = << >> /\ ~rxValid'
      /\ heard' = << >>
  BY DEF Reset
<1>2. o_spi_idle'
  BY <1>1 DEF o_spi_idle
<1>3. HeardBytes' = 0
  BY <1>1, <1>2 DEF HeardBytes
<1>4. AbsJob' = Stand!NoJob
  BY <1>2 DEF AbsJob, Stand!NoJob
<1>5. AbsTx' = << >> /\ AbsData' = << >> /\ AbsFrame' = << >>
  BY <1>1, <1>2, <1>3 DEF AbsTx, Pending, AbsData, AbsFrame
<1> QED
  BY <1>1, <1>4, <1>5 DEF Stand!SpiReset, AbsTx, Pending, AbsData, AbsFrame, AbsJob

LEMMA InitStarts == Init => Stand!SpiInit
<1> SUFFICES ASSUME Init PROVE Stand!SpiInit
  OBVIOUS
<1>1. /\ st = "IDLE" /\ dat = "WAIT" /\ txLen = 0 /\ txFifo = << >> /\ rxFifo = << >> /\ ~rxValid
      /\ heard = << >>
  BY DEF Init
<1>2. o_spi_idle
  BY <1>1 DEF o_spi_idle
<1>3. HeardBytes = 0
  BY <1>1, <1>2 DEF HeardBytes
<1>4. AbsJob = Stand!NoJob
  BY <1>2, IdleRecord
<1>5. AbsTx = << >> /\ AbsData = << >> /\ AbsFrame = << >>
  BY <1>1, <1>2, <1>3 DEF AbsTx, Pending, AbsData, AbsFrame
<1> QED
  BY <1>1, <1>4, <1>5 DEF Stand!SpiInit, AbsTx, Pending, AbsData, AbsFrame, AbsJob

(* Every clock enable is a step of StandSpi, or changes nothing of it.     *)
LEMMA StandStep ==
    SpiInv /\ SpiInv' /\ WayInv /\ WayInv' /\ [Next]_vars
        => [Stand!SpiStep(Bytes, Transfers, Answer)]_(Stand!spiVars)
<1> SUFFICES ASSUME SpiInv, SpiInv', WayInv, WayInv', [Next]_vars
             PROVE  [Stand!SpiStep(Bytes, Transfers, Answer)]_(Stand!spiVars)
  OBVIOUS
<1>1. CASE Reset
  <2>1. Stand!SpiReset
    BY <1>1, ResetRestarts
  <2> QED
    BY <2>1, Zenon DEF Stand!SpiStep
<1>2. CASE Next /\ ~Reset
  <2>1. FsmTypes
    BY DEF SpiInv
  <2>2. Tick
    BY <1>2, <2>1, Ticks
  <2>3. PICK enq, go : \E deq \in BOOLEAN : Drives(enq, go) /\ Clock(enq, go, deq)
    BY <1>2, <2>1, Driving
  <2>4. PICK deq \in BOOLEAN : Drives(enq, go) /\ Clock(enq, go, deq)
    BY <2>3
  <2>5. Stand!SpiStep(Bytes, Transfers, Answer)
    BY <2>2, <2>4, IdleClock, BusyClock
  <2> QED
    BY <2>5
<1>3. CASE UNCHANGED vars
  <2>1. UNCHANGED <<st, dat, txLen, rxLen, txFifo, txOut, rxFifo, rxOut, rxValid, fetched, received, csn, heard>>
    BY <1>3 DEF vars, fsmVars, fifoVars, pinVars
  <2>2. HeardBytes' = HeardBytes /\ o_spi_idle' = o_spi_idle
    BY <2>1 DEF HeardBytes, Selected, o_spi_idle
  <2>3. UNCHANGED Stand!spiVars
    BY <2>1, <2>2 DEF Stand!spiVars
  <2> QED
    BY <2>3
<1> QED
  BY <1>1, <1>2, <1>3

(* For all lengths of the transfers, waits and queues, the master          *)
(* implements StandSpi: whatever clock of the four phases a go comes in,   *)
(* exactly the bytes of the TX queue reach the peripheral whole and in     *)
(* order, exactly the bytes of its answer get into the RX queue, and all   *)
(* of this is over before o_spi_idle tells the driver so.                  *)
THEOREM MasterImplementsStandSpi == Spec => Implements
<1>1. Init => Stand!SpiInit
  BY InitStarts
<1>2. SpiInv /\ WayInv /\ (SpiInv /\ WayInv)' /\ [Next]_vars
         => [Stand!SpiStep(Bytes, Transfers, Answer)]_(Stand!spiVars)
  BY StandStep
<1> QED
  BY <1>1, <1>2, WayInvariance, PTL DEF Spec, Implements
=============================================================================
