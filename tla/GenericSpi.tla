----------------------------- MODULE GenericSpi ----------------------------
(***************************************************************************)
(* The stand-alone SPI master pmod_generic_spi_solo with the registers at  *)
(* its pins and a peripheral, bit by bit.                                  *)
(*                                                                         *)
(* A step is one clock enable i_spi_ce_4x, a quarter of a bit: every clock *)
(* in the driver of the Pmod ACL2, every eighth one in the driver of the   *)
(* Pmod CLS.  All registers take their new values together, computed from  *)
(* the present ones.                                                       *)
(*                                                                         *)
(* A byte is a value, its bits are pairs <<byte, place>>, so that a byte   *)
(* arrives only when its eight bits do, in their order.                    *)
(***************************************************************************)
EXTENDS Naturals, Sequences

CONSTANTS Bytes,         \* what the driver sends
          Answers,       \* what the peripheral sends, in reverse
          TxLens,        \* lengths of the transfers
          RxLens,
          WaitCycs,
          Depth,         \* of the two queues, 2048 in the code
          TMax           \* where the bit timer stops counting, 4144 in the code

ASSUME LengthAssumption ==
    /\ Depth \in Nat /\ TMax \in Nat /\ Len(Answers) \in Nat
    /\ TxLens \subseteq 1..Depth /\ RxLens \subseteq 0..Depth
    /\ WaitCycs \subseteq 0..3
    /\ \A n \in TxLens \cup RxLens : 8 * n <= TMax
    /\ TMax >= 4
    /\ \A n \in RxLens : n <= Len(Answers)

VARIABLES
    phase,                  \* v_phase_counter in quarters of a bit
    st, t,                  \* the FSM of the bus and its timer
    delayed,                \* st and t one, two and three clock enables ago
    dat, goAux,             \* the FSM that stretches go
    txLen, rxLen, waitCyc,  \* the lengths it holds
    txFifo, txOut,          \* the TX queue and its output register
    rxIn, rxWe,             \* the RX shift register and its write enable
    rxFifo, rxOut, rxValid, \* the RX queue and its output register
    sck, csn, copi,         \* the registers at the pins
    cipoMeta, cipoSync,     \* the synchronizer of the input
    heard, cipo,            \* the peripheral: bits received, bit sent
    fetched, received       \* history: bytes out of and into the queues in this transfer

fsmVars  == <<st, t, delayed, dat, goAux, txLen, rxLen, waitCyc>>
fifoVars == <<txFifo, txOut, rxIn, rxWe, rxFifo, rxOut, rxValid, fetched, received>>
pinVars  == <<sck, csn, copi, cipoMeta, cipoSync, heard, cipo>>
vars == <<phase, fsmVars, fifoVars, pinVars>>

WaitSs == 4             \* c_t_stand_wait_ss
Zero == <<"zero", 0>>   \* a bit of no byte
Bit(byte, n) == <<byte, 7 - (n % 8)>>

(* The answer of the peripheral: its bytes are told apart by how many are  *)
(* still to come.                                                          *)
Answer(left) == Answers[left]

-----------------------------------------------------------------------------
(* Outputs to the driver.                                                  *)

o_spi_idle == st = "IDLE" /\ dat = "WAIT"
o_rx_avail == rxFifo # << >>

-----------------------------------------------------------------------------
(* The FSM of the bus changes state at the falling edge of the bit clock.  *)

Elapsed(n) == t + 1 = n

AfterTx == IF rxLen = 0 THEN "STOP_S" ELSE IF waitCyc > 0 THEN "WAIT" ELSE "RX"

(* Mutant: one clock too many for the answer.                              *)
LengthOneMore ==
    [IDLE |-> 0, START_D |-> WaitSs, START_S |-> WaitSs, TX |-> 8 * txLen, WAIT |-> waitCyc,
     RX |-> 8 * rxLen + 1, STOP_S |-> WaitSs, STOP_D |-> WaitSs]

(* How long the bus stays in each state, in bits, and where it goes then.  *)
Length ==
    [IDLE |-> 0, START_D |-> WaitSs, START_S |-> WaitSs, TX |-> 8 * txLen, WAIT |-> waitCyc,
     RX |-> 8 * rxLen, STOP_S |-> WaitSs, STOP_D |-> WaitSs]

Following ==
    [IDLE |-> "START_D", START_D |-> "START_S", START_S |-> "TX", TX |-> AfterTx,
     WAIT |-> "RX", RX |-> "STOP_S", STOP_S |-> "STOP_D", STOP_D |-> "IDLE"]

nxState == IF (st = "IDLE" /\ goAux) \/ (st # "IDLE" /\ Elapsed(Length[st]))
           THEN Following[st] ELSE st

(* Mutant: the timer runs on from one state to the next.                   *)
TimerRunsOn ==
    /\ st' = IF phase = 2 THEN nxState ELSE st
    /\ t' = IF phase = 2 /\ t < TMax THEN t + 1 ELSE t
    /\ delayed' = <<[st |-> st, t |-> t], delayed[1], delayed[2]>>

spiFsm ==
    /\ st' = IF phase = 2 THEN nxState ELSE st
    /\ t' = IF phase # 2 THEN t ELSE IF nxState # st THEN 0 ELSE IF t < TMax THEN t + 1 ELSE t
    /\ delayed' = <<[st |-> st, t |-> t], delayed[1], delayed[2]>>

-----------------------------------------------------------------------------
(* The FSM that holds a go and its lengths for four clock enables.         *)

NextHold == [HOLD_0 |-> "HOLD_1", HOLD_1 |-> "HOLD_2", HOLD_2 |-> "HOLD_3", HOLD_3 |-> "WAIT"]

datFsm(go) ==
    IF dat # "WAIT" THEN /\ dat' = NextHold[dat]
                         /\ goAux' = (goAux /\ dat # "HOLD_3")
                         /\ UNCHANGED <<txLen, rxLen, waitCyc>>
    ELSE IF go.busy THEN /\ dat' = "HOLD_0" /\ goAux' = TRUE
                         /\ txLen' = go.tx /\ rxLen' = go.rx /\ waitCyc' = go.wait
    ELSE UNCHANGED <<dat, goAux, txLen, rxLen, waitCyc>>

-----------------------------------------------------------------------------
(* The queues.                                                             *)

(* The first byte is fetched before the FSM enters TX, every other one     *)
(* with the last bit of the one before.                                    *)
s_data_fifo_tx_re ==
    /\ txFifo # << >>
    /\ \/ st = "START_S" /\ phase = 3 /\ Elapsed(WaitSs)
       \/ st = "TX" /\ phase = 2 /\ t % 8 = 7 /\ ~Elapsed(8 * txLen)

txQueue(enq, go) ==
    /\ txFifo' = (IF s_data_fifo_tx_re THEN Tail(txFifo) ELSE txFifo) \o enq
    /\ txOut' = IF s_data_fifo_tx_re THEN Head(txFifo) ELSE txOut
    /\ fetched' = IF go.busy THEN 0 ELSE IF s_data_fifo_tx_re THEN fetched + 1 ELSE fetched

(* Bits are captured as late as they come in through the registers at the  *)
(* pins: three clock enables after the FSM was in the bit.                 *)
Shifted == [i \in 1..8 |-> IF i = 8 THEN cipoSync ELSE rxIn[i + 1]]

(* Mutant: the present state decides, one bit too early.                   *)
CaptureEarly ==
    /\ rxWe' = (phase = 3 /\ st = "RX" /\ t % 8 = 7 /\ Len(rxFifo) < Depth)
    /\ rxIn' = IF phase # 3 THEN rxIn
               ELSE IF st = "RX" /\ t < 8 * rxLen THEN Shifted ELSE [i \in 1..8 |-> Zero]

rxCapture ==
    LET capturing == delayed[3].st = "RX"
    IN  /\ rxWe' = (phase = 3 /\ capturing /\ delayed[3].t % 8 = 7 /\ Len(rxFifo) < Depth)
        /\ rxIn' = IF phase # 3 THEN rxIn
                   ELSE IF capturing /\ delayed[3].t < 8 * rxLen THEN Shifted
                   ELSE [i \in 1..8 |-> Zero]

(* The byte eight bits make, if they are the bits of one byte in order.    *)
ByteOf(bits) == IF bits = [i \in 1..8 |-> Bit(bits[1][1], i - 1)] THEN bits[1][1] ELSE "garbled"

rxQueue(deq, go) ==
    LET taken == deq /\ o_rx_avail
        written == IF rxWe THEN <<ByteOf(rxIn)>> ELSE << >>
    IN  /\ rxFifo' = (IF taken THEN Tail(rxFifo) ELSE rxFifo) \o written
        /\ rxOut' = IF taken THEN Head(rxFifo) ELSE rxOut
        /\ rxValid' = taken
        /\ received' = IF go.busy THEN 0 ELSE received + Len(written)

-----------------------------------------------------------------------------
(* The pins, and the synchronizer.  The bit clock is high in the phases 1  *)
(* and 2.                                                                  *)

Clocking == st \in {"TX", "WAIT", "RX"}

(* Mutant: the bit is put on the bus half a bit late.                      *)
HalfBitLate ==
    /\ sck' = (Clocking /\ phase \in {1, 2})
    /\ csn' = (~Clocking /\ st \notin {"START_S", "STOP_S"})
    /\ copi' = IF st = "TX" /\ phase \in {1, 2} THEN Bit(txOut, t) ELSE Zero
    /\ cipoMeta' = cipo /\ cipoSync' = cipoMeta

pins ==
    /\ sck' = (Clocking /\ phase \in {1, 2})
    /\ csn' = (~Clocking /\ st \notin {"START_S", "STOP_S"})
    /\ copi' = IF st = "TX" /\ t < 8 * txLen THEN Bit(txOut, t) ELSE Zero
    /\ cipoMeta' = cipo /\ cipoSync' = cipoMeta

(* The peripheral (external), in mode 0: while it is selected it takes a   *)
(* bit at each rising edge and presents the next bit of its answer at each *)
(* falling edge; the answer begins when the command and the wait are over. *)
AnswerFrom == 8 * txLen + waitCyc

peripheral ==
    /\ heard' = IF csn /\ ~csn' THEN << >>
                ELSE IF ~csn' /\ sck' /\ ~sck THEN Append(heard, copi') ELSE heard
    /\ cipo' = IF sck /\ ~sck' /\ ~csn'
               THEN LET n == Len(heard) - AnswerFrom
                    IN  IF Len(heard) >= AnswerFrom /\ n < 8 * rxLen
                        THEN Bit(Answer(rxLen - n \div 8), n) ELSE Zero
               ELSE cipo

-----------------------------------------------------------------------------
NoGo == [busy |-> FALSE, tx |-> 0, rx |-> 0, wait |-> 0]

Init ==
    /\ phase = 0
    /\ st = "IDLE" /\ t = 0 /\ delayed = [i \in 1..3 |-> [st |-> "IDLE", t |-> 0]]
    /\ dat = "WAIT" /\ goAux = FALSE /\ txLen = 0 /\ rxLen = 0 /\ waitCyc = 0
    /\ txFifo = << >> /\ txOut = "none" /\ fetched = 0
    /\ rxIn = [i \in 1..8 |-> Zero] /\ rxWe = FALSE
    /\ rxFifo = << >> /\ rxOut = "none" /\ rxValid = FALSE /\ received = 0
    /\ sck = FALSE /\ csn = TRUE /\ copi = Zero /\ cipoMeta = Zero /\ cipoSync = Zero
    /\ heard = << >> /\ cipo = Zero

Clock(enq, go, deq) ==
    /\ phase' = (phase + 1) % 4
    /\ spiFsm /\ datFsm(go)
    /\ txQueue(enq, go) /\ rxCapture /\ rxQueue(deq, go)
    /\ pins /\ peripheral

(* What the drivers do, as their runs establish: bytes are put in the TX   *)
(* queue while the master is idle, the go comes with the last of them, and *)
(* the RX queue has been emptied by then.                                  *)
Enqueue(b) == /\ o_spi_idle /\ \E n \in TxLens : Len(txFifo) + 1 < n
              /\ Clock(<<b>>, NoGo, FALSE)
Go(b) == /\ o_spi_idle /\ Len(txFifo) + 1 \in TxLens /\ rxFifo = << >>
         /\ \E rx \in RxLens, wait \in WaitCycs :
               Clock(<<b>>, [busy |-> TRUE, tx |-> Len(txFifo) + 1, rx |-> rx, wait |-> wait], FALSE)
Dequeue == o_rx_avail /\ Clock(<< >>, NoGo, TRUE)
Wait == Clock(<< >>, NoGo, FALSE)

(* The reset button, held until the registers at the pins have followed: a *)
(* transfer is cut off and the peripheral, deselected, starts over.  What   *)
(* the output registers of the queues hold then is not specified.          *)
Reset ==
    /\ phase' = 0
    /\ st' = "IDLE" /\ t' = 0 /\ delayed' = [i \in 1..3 |-> [st |-> "IDLE", t |-> 0]]
    /\ dat' = "WAIT" /\ goAux' = FALSE /\ txLen' = 0 /\ rxLen' = 0 /\ waitCyc' = 0
    /\ txFifo' = << >> /\ txOut' = "none" /\ fetched' = 0
    /\ rxIn' = [i \in 1..8 |-> Zero] /\ rxWe' = FALSE
    /\ rxFifo' = << >> /\ rxOut' = "none" /\ rxValid' = FALSE /\ received' = 0
    /\ sck' = FALSE /\ csn' = TRUE /\ copi' = Zero /\ cipoMeta' = Zero /\ cipoSync' = Zero
    /\ heard' = << >> /\ cipo' = Zero

Next == (\E b \in Bytes : Enqueue(b) \/ Go(b)) \/ Dequeue \/ Wait \/ Reset

(* The clock runs; the driver need not do anything.                        *)
Spec == Init /\ [][Next]_vars /\ WF_vars(Next)

-----------------------------------------------------------------------------
(* What the master promises: module StandSpi.                              *)

Selected == ~csn \/ st \in {"TX", "WAIT", "RX", "STOP_S", "STOP_D"}

(* Whole bytes of the command the peripheral heard in this transfer, or in *)
(* the last one while the master is idle.                                  *)
HeardBytes == IF ~o_spi_idle /\ ~Selected THEN 0
              ELSE IF Len(heard) >= 8 * txLen THEN txLen ELSE Len(heard) \div 8

Stand == INSTANCE StandSpi WITH
    NoByte <- "zero",
    txFifo <- (IF ~o_spi_idle /\ fetched > HeardBytes THEN <<txOut>> ELSE << >>) \o txFifo,
    rxFifo <- rxFifo,
    rxData <- IF rxValid THEN <<rxOut>> ELSE << >>,
    job    <- [busy |-> ~o_spi_idle,
               tx   |-> IF o_spi_idle THEN 0 ELSE txLen - HeardBytes,
               rx   |-> IF o_spi_idle THEN 0 ELSE rxLen - received],
    frame  <- [i \in 1..HeardBytes |-> ByteOf(SubSeq(heard, 8 * i - 7, 8 * i))]

Transfers == {Stand!Transfer(tx, rx) : tx \in TxLens, rx \in RxLens}

-----------------------------------------------------------------------------
(* Properties.                                                             *)

States == {"IDLE", "START_D", "START_S", "TX", "WAIT", "RX", "STOP_S", "STOP_D"}
Sent == Bytes \cup {"none"}
Got == {Answers[i] : i \in 1..Len(Answers)} \cup {"garbled"}
SentBits == {Zero} \cup {<<b, n>> : b \in Sent, n \in 0..7}
GotBits == {Zero} \cup {<<b, n>> : b \in Got, n \in 0..7}

(* Every register stays in the range declared for it; in particular the    *)
(* timer stops at its maximum and no queue overflows.                      *)
TypeOK ==
    /\ phase \in 0..3 /\ st \in States /\ t \in 0..TMax
    /\ delayed \in [1..3 -> [st : States, t : 0..TMax]]
    /\ dat \in {"WAIT", "HOLD_0", "HOLD_1", "HOLD_2", "HOLD_3"} /\ goAux \in BOOLEAN
    /\ txLen \in TxLens \cup {0} /\ rxLen \in RxLens \cup {0} /\ waitCyc \in WaitCycs \cup {0}
    /\ txFifo \in Seq(Bytes) /\ Len(txFifo) <= Depth /\ txOut \in Sent
    /\ rxFifo \in Seq(Got) /\ Len(rxFifo) <= Depth /\ rxOut \in Got \cup {"none"}
    /\ rxIn \in [1..8 -> GotBits] /\ {rxWe, rxValid, sck, csn} \subseteq BOOLEAN
    /\ {cipo, cipoMeta, cipoSync} \subseteq GotBits /\ copi \in SentBits /\ heard \in Seq(SentBits)
    /\ fetched \in Nat /\ received \in Nat

(* The master implements StandSpi: whatever clock of the four phases a go  *)
(* comes in, exactly the bytes of the TX queue reach the peripheral whole  *)
(* and in order, exactly the bytes of its answer get into the RX queue     *)
(* although they arrive late through the registers at the pins, and all of *)
(* this is over before o_spi_idle tells the driver so.                     *)
Implements ==
    /\ Stand!SpiInit
    /\ [][Stand!SpiStep(Bytes, Transfers, Answer)]_(Stand!spiVars)

(* The peripheral was given exactly the clocks of the command, the wait    *)
(* and the answer by the time it was deselected (p_spi_fsm_comb): one more *)
(* would shift the next byte of a peripheral that counts them.             *)
ClocksCounted ==
    csn /\ (o_spi_idle \/ st = "STOP_D") => Len(heard) = 8 * (txLen + rxLen) + IF rxLen = 0 THEN 0 ELSE waitCyc

(* SPI mode 0 at the pins (p_reg_spi_fsm_out): but for a reset, the clock  *)
(* toggles only while the peripheral is selected before and after, and the *)
(* data line moves only while the clock is low or falls.                   *)
BusProtocol ==
    [][\/ Reset
       \/ /\ sck' # sck => ~csn /\ ~csn'
          /\ copi' # copi => ~sck']_vars

(* Every transfer comes to an end, whatever its lengths: each of the six   *)
(* timed states meets its one comparison with the timer.                   *)
TransferEnds == ~o_spi_idle ~> o_spi_idle
=============================================================================
