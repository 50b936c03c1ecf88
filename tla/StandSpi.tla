----------------------------- MODULE StandSpi -----------------------------
(***************************************************************************)
(* What the stand-alone SPI master (pmod_generic_spi_solo) promises to the *)
(* driver above it, one step per clock of the system.                      *)
(*                                                                         *)
(* The driver puts bytes in the TX queue and pulses go with two lengths.   *)
(* The master then selects the peripheral, sends that many bytes of the    *)
(* queue, receives that many bytes into the RX queue, deselects the        *)
(* peripheral and is idle again.  How many clocks each byte takes is left  *)
(* open.  In every clock the driver may also put a byte in the TX queue    *)
(* (enq, a sequence of at most one byte) and take one from the RX queue    *)
(* (deq), which is presented in the next clock (rxData).                   *)
(***************************************************************************)
EXTENDS Naturals, Sequences

CONSTANT NoByte     \* what an empty TX queue sends

VARIABLES txFifo,   \* bytes to send
          rxFifo,   \* bytes received
          rxData,   \* the byte taken from the RX queue, valid in this clock, if any
          job,      \* the transfer under way
          frame     \* what the peripheral received since it was selected

spiVars == <<txFifo, rxFifo, rxData, job, frame>>

NoJob == [busy |-> FALSE, tx |-> 0, rx |-> 0]
Transfer(txLen, rxLen) == [busy |-> TRUE, tx |-> txLen, rx |-> rxLen]

o_spi_idle == ~job.busy
o_rx_avail == rxFifo # << >>

SpiInit == /\ txFifo = << >> /\ rxFifo = << >> /\ rxData = << >>
           /\ job = NoJob /\ frame = << >>

SpiReset == /\ txFifo' = << >> /\ rxFifo' = << >> /\ rxData' = << >>
            /\ job' = NoJob /\ frame' = << >>

(* The driver's side of both queues.                                       *)
Dequeue(received, deq) ==
    /\ rxFifo' = (IF deq /\ o_rx_avail THEN Tail(rxFifo) ELSE rxFifo) \o received
    /\ rxData' = IF deq /\ o_rx_avail THEN <<Head(rxFifo)>> ELSE << >>

(* The master is idle, or the bus is between two bytes.  A go starts a     *)
(* transfer; in the middle of one it overwrites the lengths.               *)
SpiHold(enq, go, deq) ==
    /\ txFifo' = txFifo \o enq
    /\ job' = IF go.busy THEN go ELSE job
    /\ frame' = IF go.busy /\ ~job.busy THEN << >> ELSE frame
    /\ Dequeue(<< >>, deq)

(* A byte was sent; from an empty queue it is not a byte of the driver.    *)
SpiSend(enq, deq) ==
    /\ job.busy /\ job.tx > 0
    /\ frame' = Append(frame, IF txFifo = << >> THEN NoByte ELSE Head(txFifo))
    /\ txFifo' = (IF txFifo = << >> THEN << >> ELSE Tail(txFifo)) \o enq
    /\ job' = [job EXCEPT !.tx = @ - 1]
    /\ Dequeue(<< >>, deq)

(* The byte b was received.                                                *)
SpiReceive(b, enq, deq) ==
    /\ job.busy /\ job.tx = 0 /\ job.rx > 0
    /\ job' = [job EXCEPT !.rx = @ - 1]
    /\ txFifo' = txFifo \o enq
    /\ Dequeue(<<b>>, deq)
    /\ UNCHANGED frame

(* The peripheral is deselected.                                           *)
SpiStop(enq, deq) ==
    /\ job.busy /\ job.tx = 0 /\ job.rx = 0
    /\ job' = NoJob
    /\ txFifo' = txFifo \o enq
    /\ Dequeue(<< >>, deq)
    /\ UNCHANGED frame

(* All a driver may see when it starts transfers only while the master is  *)
(* idle: bytes are those it enqueues, transfers those it starts, answer    *)
(* the byte with the given number of bytes still to come.                  *)
SpiStep(bytes, transfers, answer(_)) ==
    \/ SpiReset
    \/ \E enq \in {<< >>} \cup {<<b>> : b \in bytes}, deq \in BOOLEAN :
          \/ \E go \in {NoJob} \cup transfers :
                (go.busy => o_spi_idle) /\ SpiHold(enq, go, deq)
          \/ SpiSend(enq, deq)
          \/ SpiReceive(answer(job.rx), enq, deq)
          \/ SpiStop(enq, deq)
=============================================================================
