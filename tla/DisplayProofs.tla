--------------------------- MODULE DisplayProofs ----------------------------
(***************************************************************************)
(* Proofs about Display: first the way to the terminal, then the way to    *)
(* the Pmod CLS.                                                           *)
(*                                                                         *)
(* The way to the terminal is proved for every length of a line, every     *)
(* depth and threshold of the queue and every pace of the transmitter,     *)
(* with a reset of the logic in any clock.                                 *)
(*                                                                         *)
(* That the terminal shows a whole line needs to know of the whole way:    *)
(* each byte in the queue follows the one before it (Chained), the first   *)
(* one follows what the terminal has (Fronted), and what the feed appends  *)
(* next follows the last one (Backed).  Nothing is lost because a line     *)
(* under way still finds room (Roomy).                                     *)
(***************************************************************************)
EXTENDS Display, SequenceTheorems, TLAPS

UartByte == [of : {"uart"}, n : 1..LineLength, text : TextType]

UartTypes ==
    /\ held \in Values \cup {"zero"} /\ value \in Values \cup {"zero", "inactive"}
    /\ ufeed \in {"IDLE", "CAPT", "DATA", "WAIT"} /\ k \in 0..LineLength
    /\ uartLine \in TextType
    /\ fifo \in Seq(UartByte) /\ typed \in Seq(UartByte)

(* Byte b may come after byte a.                                           *)
Follows(a, b) == IF a.n = 1 THEN b.n = LineLength
                 ELSE b.n = a.n - 1 /\ b.text = a.text

Chained == \A i \in 1..Len(fifo) : i < Len(fifo) => Follows(fifo[i], fifo[i + 1])

Fronted == fifo # << >> => IF typed = << >> THEN fifo[1].n = LineLength
                           ELSE Follows(typed[Len(typed)], fifo[1])

Begun == /\ Len(typed) < LineLength
         /\ \A i \in 1..Len(typed) : typed[i] = Byte("uart", LineLength + 1 - i, typed[1].text)

(* The last byte on its way ends a line, or is the one before byte k of    *)
(* the line of the feed.                                                   *)
Ended == IF fifo # << >> THEN fifo[Len(fifo)].n = 1 ELSE typed = << >>

Continued == IF fifo # << >> THEN fifo[Len(fifo)] = Byte("uart", k + 1, uartLine)
             ELSE typed # << >> /\ typed[Len(typed)] = Byte("uart", k + 1, uartLine)

Backed == /\ ufeed # "DATA" => Ended
          /\ ufeed = "DATA" => k # 0 /\ (IF k = LineLength THEN Ended ELSE Continued)

Roomy == /\ Len(fifo) <= UartDepth
         /\ ufeed = "DATA" => Len(fifo) + k <= UartDepth

UartInv == UartTypes /\ Chained /\ Fronted /\ Begun /\ Backed /\ Roomy

(* A line that has been counted is not counted again while the go lasts,   *)
(* and a feed that was ready at the beginning of the go takes the line at  *)
(* once.                                                                   *)
HistoryInv ==
    /\ onTime \in BOOLEAN /\ lines \in {0, 1}
    /\ lines = 1 => ufeed # "CAPT" /\ (feed = "CLEAR_RUN" => ufeed # "IDLE")
    /\ onTime /\ lines = 0
       => /\ o_tx_ready
          /\ \/ feed = "CLEAR_RUN" /\ ufeed \in {"IDLE", "CAPT"}
             \/ feed = "CLEAR_DLY" /\ ufeed = "CAPT"

-----------------------------------------------------------------------------
LEMMA LineLengths == LineLength \in Nat /\ LineLength >= 4
BY DisplayAssumption DEF LineLength

(* What a clock and the other steps do to the UART.                        *)
LEMMA TopStep ==
    ASSUME UartTypes, Next
    PROVE  /\ held' \in Values \cup {"zero"}
           /\ value' \in Values \cup {"zero", "inactive"}
<1>1. CASE Clock
  BY <1>1 DEF UartTypes, Clock, p_hold_measurements, textRegisters
<1>2. CASE uartTransmit
  BY <1>2 DEF UartTypes, uartTransmit, topVars
<1>3. CASE Reset
  BY <1>3 DEF UartTypes, Reset, textRegisters
<1> QED
  BY <1>1, <1>2, <1>3 DEF Next

LEMMA InitUart == Init => UartInv
<1> SUFFICES ASSUME Init PROVE UartInv
  OBVIOUS
<1> USE LineLengths, DisplayAssumption
<1>1. UartTypes
  BY DEF Init, UartTypes, TextType, NoText, Text
<1>2. Chained /\ Fronted /\ Begun /\ Backed /\ Roomy
  BY DEF Init, Chained, Fronted, Begun, Backed, Ended, Roomy
<1> QED
  BY <1>1, <1>2 DEF UartInv

LEMMA ResetUart ==
    ASSUME UartInv, Reset
    PROVE  UartInv'
<1> USE LineLengths, DisplayAssumption
<1>1. UartTypes'
  <2>1. NoText \in TextType
    BY DEF TextType, NoText, Text
  <2>2. /\ held' \in Values \cup {"zero"}
        /\ value' \in Values \cup {"zero", "inactive"}
    BY TopStep DEF UartInv, Next
  <2>3. /\ ufeed' = "IDLE" /\ k' = 0 /\ uartLine' = NoText
        /\ fifo' = << >> /\ typed' = << >>
    BY DEF Reset
  <2> QED
    BY <2>1, <2>2, <2>3 DEF UartTypes
<1>2. fifo' = << >> /\ typed' = << >> /\ ufeed' = "IDLE"
  BY DEF Reset
<1>3. Chained' /\ Fronted' /\ Begun' /\ Backed' /\ Roomy'
  BY <1>2 DEF Chained, Fronted, Begun, Backed, Ended, Roomy
<1> QED
  BY <1>1, <1>3 DEF UartInv

(* A clock in which the feed appends nothing.                              *)
LEMMA QuietUart ==
    ASSUME UartInv, Clock, uartIdle \/ uartCapture \/ uartWait
    PROVE  UartInv'
<1> USE LineLengths, DisplayAssumption
<1>1. fifo' = fifo /\ typed' = typed /\ ufeed # "DATA"
  BY DEF Clock, uartIdle, uartCapture, uartWait
<1>2. /\ k' \in 0..LineLength /\ uartLine' \in TextType
      /\ ufeed' \in {"IDLE", "CAPT", "DATA", "WAIT"}
  <2>1. Text(0, value) \in TextType
    BY DEF UartInv, UartTypes, TextType, Text
  <2> QED
    BY <2>1 DEF UartInv, UartTypes, uartIdle, uartCapture, uartWait
<1>3. UartTypes'
  BY <1>1, <1>2, TopStep DEF UartInv, UartTypes, Next
<1>4. Chained' /\ Fronted' /\ Begun'
  BY <1>1 DEF UartInv, Chained, Fronted, Begun
<1>5. Ended /\ (Ended' <=> Ended)
  BY <1>1 DEF UartInv, Backed, Ended
<1>6. ufeed' = "DATA" => k' = LineLength /\ Len(fifo) < AlmostFull
  BY <1>1 DEF uartIdle, uartCapture, uartWait, o_tx_ready
<1>7. Backed' /\ Roomy'
  <2>1. Len(fifo) \in Nat
    BY DEF UartInv, UartTypes
  <2> QED
    BY <1>1, <1>5, <1>6, <2>1 DEF UartInv, Backed, Roomy
<1> QED
  BY <1>3, <1>4, <1>7 DEF UartInv

(* A clock in which the feed appends a byte.                               *)
LEMMA DataUart ==
    ASSUME UartInv, Clock, uartData
    PROVE  UartInv'
<1> USE LineLengths, DisplayAssumption
<1> DEFINE b == Byte("uart", k, uartLine)
<1>1. /\ ufeed = "DATA" /\ k' = k - 1 /\ uartLine' = uartLine /\ typed' = typed
      /\ ufeed' = IF k = 1 THEN "WAIT" ELSE "DATA"
  BY DEF uartData, Clock
<1>2. /\ k \in 1..LineLength /\ Len(fifo) \in Nat /\ Len(fifo) + k <= UartDepth
      /\ fifo \in Seq(UartByte) /\ uartLine \in TextType
  BY <1>1 DEF UartInv, UartTypes, Backed, Roomy
<1>3. fifo' = Append(fifo, b)
  BY <1>2 DEF uartData
<1>4. b \in UartByte /\ b.n = k /\ b.text = uartLine
  BY <1>2 DEF UartByte, Byte
<1>5. /\ Len(fifo') = Len(fifo) + 1 /\ fifo' # << >> /\ fifo'[Len(fifo) + 1] = b
      /\ \A i \in 1..Len(fifo) : fifo'[i] = fifo[i]
  BY <1>2, <1>3, <1>4
<1>6. UartTypes'
  <2>1. fifo' \in Seq(UartByte)
    BY <1>2, <1>3, <1>4
  <2>2. k' \in 0..LineLength /\ ufeed' \in {"IDLE", "CAPT", "DATA", "WAIT"}
    BY <1>1, <1>2
  <2> QED
    BY <1>1, <2>1, <2>2, TopStep DEF UartInv, UartTypes, Next
<1>7. fifo # << >> => Follows(fifo[Len(fifo)], b)
  <2>1. CASE k = LineLength
    BY <1>1, <1>4, <2>1 DEF UartInv, Backed, Ended, Follows
  <2>2. CASE k # LineLength
    <3> SUFFICES ASSUME fifo # << >> PROVE Follows(fifo[Len(fifo)], b)
      OBVIOUS
    <3>1. fifo[Len(fifo)] = Byte("uart", k + 1, uartLine)
      BY <1>1, <2>2 DEF UartInv, Backed, Continued
    <3>2. fifo[Len(fifo)].n = k + 1 /\ fifo[Len(fifo)].text = uartLine
      BY <3>1 DEF Byte
    <3> QED
      BY <1>2, <1>4, <3>2 DEF Follows
  <2> QED
    BY <2>1, <2>2
<1>8. Chained'
  <2> SUFFICES ASSUME NEW i \in 1..Len(fifo), TRUE
               PROVE  Follows(fifo'[i], fifo'[i + 1])
    BY <1>2, <1>5 DEF Chained
  <2>1. CASE i < Len(fifo)
    BY <1>2, <1>5, <2>1 DEF UartInv, Chained
  <2>2. CASE i = Len(fifo)
    BY <1>2, <1>5, <1>7, <2>2
  <2> QED
    BY <1>2, <2>1, <2>2
<1>9. Fronted'
  <2>1. CASE fifo # << >>
    <3>1. fifo'[1] = fifo[1]
      BY <1>2, <1>5, <2>1
    <3> QED
      BY <1>1, <2>1, <3>1 DEF UartInv, Fronted
  <2>2. CASE fifo = << >>
    <3>1. fifo'[1] = b
      BY <1>5, <2>2
    <3>2. CASE k = LineLength
      BY <1>1, <1>4, <2>2, <3>1, <3>2 DEF UartInv, Backed, Ended, Fronted
    <3>3. CASE k # LineLength
      <4>1. typed # << >> /\ typed[Len(typed)] = Byte("uart", k + 1, uartLine)
        BY <1>1, <2>2, <3>3 DEF UartInv, Backed, Continued
      <4>2. typed[Len(typed)].n = k + 1 /\ typed[Len(typed)].text = uartLine
        BY <4>1 DEF Byte
      <4> QED
        BY <1>1, <1>2, <1>4, <3>1, <4>1, <4>2 DEF Fronted, Follows
    <3> QED
      BY <3>2, <3>3
  <2> QED
    BY <2>1, <2>2
<1>10. Begun'
  BY <1>1 DEF UartInv, Begun
<1>11. Backed' /\ Roomy'
  <2>1. CASE k = 1
    BY <1>1, <1>2, <1>4, <1>5, <2>1 DEF Backed, Ended, Roomy
  <2>2. CASE k # 1
    <3>1. Continued'
      <4>1. k' + 1 = k
        BY <1>1, <1>2
      <4> QED
        BY <1>1, <1>5, <4>1 DEF Continued
    <3> QED
      BY <1>1, <1>2, <1>5, <2>2, <3>1 DEF Backed, Roomy
  <2> QED
    BY <2>1, <2>2
<1> QED
  BY <1>6, <1>8, <1>9, <1>10, <1>11 DEF UartInv

(* The terminal gets a byte.                                               *)
LEMMA TransmitUart ==
    ASSUME UartInv, uartTransmit
    PROVE  UartInv'
<1> USE LineLengths, DisplayAssumption
<1> DEFINE h == Head(fifo)
<1>1. /\ fifo # << >> /\ fifo' = Tail(fifo)
      /\ typed' = IF h.n = 1 THEN << >> ELSE Append(typed, h)
      /\ ufeed' = ufeed /\ k' = k /\ uartLine' = uartLine
      /\ held' = held /\ value' = value
  BY DEF uartTransmit, uartVars, topVars
<1>2. fifo \in Seq(UartByte) /\ typed \in Seq(UartByte) /\ h = fifo[1] /\ h \in UartByte
  BY <1>1 DEF UartInv, UartTypes
<1>3. /\ Len(fifo) \in Nat /\ Len(fifo) >= 1 /\ Len(fifo') = Len(fifo) - 1
      /\ fifo' \in Seq(UartByte)
      /\ \A i \in 1..(Len(fifo) - 1) : fifo'[i] = fifo[i + 1]
  BY <1>1, <1>2
<1>4. h.n \in 1..LineLength /\ h = Byte("uart", h.n, h.text)
  BY <1>2 DEF UartByte, Byte
<1>5. UartTypes'
  <2>1. typed' \in Seq(UartByte)
    BY <1>1, <1>2
  <2> QED
    BY <1>1, <1>3, <2>1 DEF UartInv, UartTypes
<1>6. Chained'
  <2> SUFFICES ASSUME NEW i \in 1..(Len(fifo) - 1), i < Len(fifo) - 1
               PROVE  Follows(fifo'[i], fifo'[i + 1])
    BY <1>3 DEF Chained
  <2>1. fifo'[i] = fifo[i + 1] /\ fifo'[i + 1] = fifo[i + 2]
    BY <1>3
  <2>2. i + 1 \in 1..Len(fifo) /\ i + 1 < Len(fifo) /\ (i + 1) + 1 = i + 2
    BY <1>3
  <2> QED
    BY <2>1, <2>2 DEF UartInv, Chained
<1>7. /\ typed = << >> => h.n = LineLength
      /\ typed # << >> => h.n = LineLength - Len(typed) /\ h.text = typed[1].text
  <2>1. typed = << >> => h.n = LineLength
    BY <1>1, <1>2 DEF UartInv, Fronted
  <2>2. ASSUME typed # << >> PROVE h.n = LineLength - Len(typed) /\ h.text = typed[1].text
    <3>1. Len(typed) \in 1..(LineLength - 1)
      BY <1>2, <2>2 DEF UartInv, Begun
    <3>2. typed[Len(typed)] = Byte("uart", LineLength + 1 - Len(typed), typed[1].text)
      BY <3>1 DEF UartInv, Begun
    <3>3. /\ typed[Len(typed)].n = LineLength + 1 - Len(typed)
          /\ typed[Len(typed)].text = typed[1].text
      BY <3>2 DEF Byte
    <3> QED
      BY <1>1, <1>2, <2>2, <3>1, <3>3 DEF UartInv, Fronted, Follows
  <2> QED
    BY <2>1, <2>2
<1>8. Len(typed) \in Nat /\ h.n = LineLength - Len(typed)
  BY <1>2, <1>7
<1>9. CASE h.n = 1
  <2>1. typed' = << >>
    BY <1>1, <1>9
  <2>2. fifo' # << >> => fifo'[1].n = LineLength
    <3> SUFFICES ASSUME fifo' # << >> PROVE fifo'[1].n = LineLength
      OBVIOUS
    <3>1. Len(fifo) >= 2 /\ fifo'[1] = fifo[2]
      BY <1>3
    <3>2. Follows(fifo[1], fifo[2])
      BY <1>3, <3>1 DEF UartInv, Chained
    <3> QED
      BY <1>2, <1>9, <3>1, <3>2 DEF Follows
  <2>3. Fronted' /\ Begun'
    BY <2>1, <2>2 DEF Fronted, Begun
  <2>4. Ended => Ended'
    <3>1. fifo' # << >> => fifo'[Len(fifo')] = fifo[Len(fifo)]
      BY <1>3
    <3> QED
      BY <1>1, <2>1, <3>1 DEF Ended
  <2>5. ASSUME Continued, k # 0 PROVE Continued'
    <3>1. fifo[Len(fifo)] = Byte("uart", k + 1, uartLine)
      BY <1>1, <2>5 DEF Continued
    <3>2. fifo[Len(fifo)].n = k + 1 /\ k \in Nat
      BY <3>1 DEF Byte, UartInv, UartTypes
    <3>3. Len(fifo) # 1
      BY <1>2, <1>9, <2>5, <3>2
    <3>4. fifo' # << >> /\ fifo'[Len(fifo')] = fifo[Len(fifo)]
      BY <1>3, <3>3
    <3> QED
      BY <1>1, <3>1, <3>4 DEF Continued
  <2>6. Backed'
    BY <1>1, <2>4, <2>5 DEF UartInv, Backed
  <2>7. Roomy'
    BY <1>1, <1>3, <1>5 DEF UartInv, Roomy, UartTypes
  <2> QED
    BY <1>5, <1>6, <2>3, <2>6, <2>7 DEF UartInv
<1>10. CASE h.n # 1
  <2> DEFINE m == Len(typed)
  <2>1. typed' = Append(typed, h)
    BY <1>1, <1>10
  <2>2. /\ Len(typed') = m + 1 /\ typed' # << >> /\ typed'[m + 1] = h
        /\ \A i \in 1..m : typed'[i] = typed[i]
    BY <1>2, <2>1
  <2>3. m + 1 < LineLength
    BY <1>4, <1>8, <1>10
  <2>4. typed'[1].text = h.text /\ \A i \in 1..m : typed'[1] = typed[1]
    BY <1>2, <1>7, <2>2
  <2>5. Begun'
    <3> SUFFICES ASSUME NEW i \in 1..(m + 1)
                 PROVE  typed'[i] = Byte("uart", LineLength + 1 - i, typed'[1].text)
      BY <2>2, <2>3 DEF Begun
    <3>1. CASE i = m + 1
      BY <1>4, <1>8, <2>2, <2>4, <3>1
    <3>2. CASE i # m + 1
      <4>1. i \in 1..m
        BY <1>8, <3>2
      <4> QED
        BY <2>2, <2>4, <4>1 DEF UartInv, Begun
    <3> QED
      BY <3>1, <3>2
  <2>6. Fronted'
    <3> SUFFICES ASSUME fifo' # << >> PROVE Follows(h, fifo'[1])
      BY <2>2 DEF Fronted
    <3>1. Len(fifo) >= 2 /\ fifo'[1] = fifo[2]
      BY <1>3
    <3>2. Follows(fifo[1], fifo[2])
      BY <1>3, <3>1 DEF UartInv, Chained
    <3> QED
      BY <1>2, <3>1, <3>2
  <2>7. fifo' # << >> => fifo'[Len(fifo')] = fifo[Len(fifo)]
    BY <1>3
  <2>8. fifo' = << >> => h = fifo[Len(fifo)]
    <3> SUFFICES ASSUME fifo' = << >> PROVE h = fifo[Len(fifo)]
      OBVIOUS
    <3>1. Len(fifo') = 0
      OBVIOUS
    <3>2. Len(fifo) = 1
      BY <1>3, <3>1
    <3> QED
      BY <1>2, <3>2
  <2>9. Ended => Ended'
    BY <1>1, <1>10, <2>7, <2>8 DEF Ended
  <2>10. Continued => Continued'
    BY <1>1, <2>2, <2>7, <2>8 DEF Continued
  <2>11. Backed'
    BY <1>1, <2>9, <2>10 DEF UartInv, Backed
  <2>12. Roomy'
    BY <1>1, <1>3, <1>5 DEF UartInv, Roomy, UartTypes
  <2> QED
    BY <1>5, <1>6, <2>5, <2>6, <2>11, <2>12 DEF UartInv
<1> QED
  BY <1>9, <1>10

(* The way to the terminal in every state.                                 *)
THEOREM UartInvariance == Spec => []UartInv
<1>1. Init => UartInv
  BY InitUart
<1>2. UartInv /\ [Next]_vars => UartInv'
  <2> SUFFICES ASSUME UartInv, [Next]_vars PROVE UartInv'
    OBVIOUS
  <2>1. CASE Clock
    BY <2>1, QuietUart, DataUart DEF Clock, uartFeed
  <2>2. CASE uartTransmit
    BY <2>2, TransmitUart
  <2>3. CASE Reset
    BY <2>3, ResetUart
  <2>4. CASE UNCHANGED vars
    BY <2>4 DEF UartInv, UartTypes, Chained, Fronted, Begun, Backed, Ended, Continued, Roomy,
                vars, topVars, uartVars
  <2> QED
    BY <2>1, <2>2, <2>3, <2>4 DEF Next
<1> QED
  BY <1>1, <1>2, PTL DEF Spec

(* What was sent to the terminal since the end of a line, or since a       *)
(* reset, is always the beginning of one line, with nothing lost and       *)
(* nothing of another line in it.                                          *)
THEOREM TerminalShowsLines == Spec => []LineWhole
<1>1. UartInv => LineWhole
  <2> SUFFICES ASSUME UartInv PROVE LineWhole
    OBVIOUS
  <2>1. typed \in Seq(UartByte)
    BY DEF UartInv, UartTypes
  <2> DEFINE line == [i \in 1..Len(typed) |-> Byte("uart", LineLength + 1 - i, typed[1].text)]
  <2>2. Len(typed) \in Nat /\ DOMAIN typed = 1..Len(typed) /\ typed = [i \in 1..Len(typed) |-> typed[i]]
    BY <2>1
  <2>3. \A i \in 1..Len(typed) : typed[i] = line[i]
    BY DEF UartInv, Begun
  <2> QED
    BY <2>2, <2>3 DEF LineWhole
<1> QED
  BY <1>1, UartInvariance, PTL

-----------------------------------------------------------------------------
LEMMA InitHistory == Init => HistoryInv
BY DEF Init, HistoryInv

LEMMA ClockHistory ==
    ASSUME UartInv, HistoryInv, Clock
    PROVE  HistoryInv'
<1>1. /\ ufeed \in {"IDLE", "CAPT", "DATA", "WAIT"}
      /\ history /\ uartFeed /\ onTime \in BOOLEAN /\ lines \in {0, 1}
  BY DEF UartInv, UartTypes, HistoryInv, Clock
<1>2. /\ feed = "CLEAR_RUN" => feed' \in {"CLEAR_RUN", "CLEAR_DLY"}
      /\ feed' = "CLEAR_RUN" => feed \in {"PAUSE", "CLEAR_RUN"}
      /\ feed = "CLEAR_RUN" /\ feed' # feed => feed' = "CLEAR_DLY"
  BY DEF Clock, lcdFeed, feedVars, nxFeed, feedMoves, Following
<1>3. CASE feed = "PAUSE" /\ feed' = "CLEAR_RUN"
  <2>1. lines' = 0 /\ onTime' = (ufeed = "IDLE" /\ o_tx_ready)
    BY <1>1, <1>3 DEF history
  <2>2. onTime' => ufeed' = "IDLE" /\ fifo' = fifo
    BY <1>1, <1>3, <2>1 DEF uartFeed, uartIdle, uartCapture, uartData, uartWait,
                            i_tx_go, o_lcd_wr_clear_display
  <2>3. onTime' => o_tx_ready'
    BY <2>1, <2>2 DEF o_tx_ready
  <2>4. onTime' \in BOOLEAN
    BY <2>1
  <2> QED
    BY <1>3, <2>1, <2>2, <2>3, <2>4 DEF HistoryInv
<1>4. CASE ~(feed = "PAUSE" /\ feed' = "CLEAR_RUN")
  <2>1. /\ onTime' = onTime
        /\ lines' = IF ufeed = "CAPT" /\ ufeed' = "DATA" /\ lines < 2
                    THEN lines + 1 ELSE lines
    BY <1>1, <1>4 DEF history
  <2>2. CASE uartIdle
    <3>1. ufeed = "IDLE" /\ fifo' = fifo /\ lines' = lines
          /\ ufeed' = IF feed = "CLEAR_RUN" THEN "CAPT" ELSE "IDLE"
      BY <2>1, <2>2 DEF uartIdle, i_tx_go, o_lcd_wr_clear_display
    <3>2. o_tx_ready' <=> o_tx_ready
      BY <3>1 DEF o_tx_ready
    <3> QED
      BY <1>1, <1>2, <1>4, <2>1, <3>1, <3>2 DEF HistoryInv
  <2>3. CASE uartCapture
    <3>1. ufeed = "CAPT" /\ fifo' = fifo /\ lines = 0
          /\ ufeed' = IF o_tx_ready THEN "DATA" ELSE "CAPT"
      BY <1>1, <2>3 DEF uartCapture, HistoryInv
    <3> QED
      BY <1>1, <2>1, <3>1 DEF HistoryInv
  <2>4. CASE uartData
    <3>1. ufeed = "DATA" /\ ufeed' \in {"DATA", "WAIT"} /\ lines' = lines
      BY <2>1, <2>4 DEF uartData
    <3> QED
      BY <1>1, <2>1, <3>1 DEF HistoryInv
  <2>5. CASE uartWait
    <3>1. ufeed = "WAIT" /\ lines' = lines
          /\ ufeed' = IF feed = "CLEAR_RUN" THEN "WAIT" ELSE "IDLE"
      BY <2>1, <2>5 DEF uartWait, i_tx_go, o_lcd_wr_clear_display
    <3> QED
      BY <1>1, <1>2, <1>4, <2>1, <3>1 DEF HistoryInv
  <2> QED
    BY <1>1, <2>2, <2>3, <2>4, <2>5 DEF uartFeed
<1> QED
  BY <1>3, <1>4

LEMMA StepHistory ==
    ASSUME UartInv, HistoryInv, [Next]_vars
    PROVE  HistoryInv'
<1>1. CASE Clock
  BY <1>1, ClockHistory
<1>2. CASE uartTransmit
  <2>1. /\ ufeed' = ufeed /\ feed' = feed /\ onTime' = onTime /\ lines' = lines
        /\ fifo # << >> /\ fifo' = Tail(fifo)
    BY <1>2 DEF uartTransmit, uartVars, feedVars
  <2>2. fifo \in Seq(UartByte)
    BY DEF UartInv, UartTypes
  <2>3. o_tx_ready => o_tx_ready'
    <3>1. Len(fifo) \in Nat /\ Len(fifo') = Len(fifo) - 1
      BY <2>1, <2>2
    <3> QED
      BY <3>1, DisplayAssumption DEF o_tx_ready
  <2> QED
    BY <2>1, <2>3 DEF HistoryInv
<1>3. CASE Reset
  BY <1>3 DEF Reset, HistoryInv
<1>4. CASE UNCHANGED vars
  BY <1>4 DEF vars, uartVars, feedVars, HistoryInv, o_tx_ready
<1> QED
  BY <1>1, <1>2, <1>3, <1>4 DEF Next

THEOREM HistoryInvariance == Spec => []HistoryInv
<1>1. UartInv /\ HistoryInv /\ [Next]_vars => HistoryInv'
  BY StepHistory
<1> QED
  BY InitHistory, UartInvariance, <1>1, PTL DEF Spec

(* Each refresh sends at most one line to the terminal, and exactly one    *)
(* when the UART was ready at its beginning.                               *)
THEOREM OneLineEach == Spec => OneLinePerRefresh
<1>1. HistoryInv /\ HistoryInv' /\ [Next]_vars =>
        [/\ lines' <= 1
         /\ feed = "PAUSE" /\ feed' = "CLEAR_RUN" /\ onTime => lines = 1]_vars
  BY DEF HistoryInv
<1> QED
  BY HistoryInvariance, <1>1, PTL DEF Spec, OneLinePerRefresh

-----------------------------------------------------------------------------
(***************************************************************************)
(* The way to the Pmod CLS, proved for every length of the commands and    *)
(* the texts, all delays, every pace of the bus and any set of             *)
(* measurements, with a reset of the logic in any clock.                   *)
(*                                                                         *)
(* The inductive invariant follows a byte from the driver to the display:  *)
(* the TX queue and the frame together are the command or the text of the  *)
(* driver (Transfers), the refresh FSM and the driver know each other's    *)
(* state though one tells the other only a level (Interlock), the cursor   *)
(* and both lines of the display are what the two have got to (Aimed,      *)
(* Written), and each line was taken from the measurement held still since *)
(* the refresh began (Still).                                              *)
(***************************************************************************)

SpiByte == [of : {"clear", "line1", "line2", "text"}, n : Nat, text : TextType]

FeedTypes == /\ inactive \in BOOLEAN /\ refreshed \in BOOLEAN
             /\ feed \in Feeds /\ timer \in 0..SubSecond

DriverTypes ==
    /\ cls \in {"BOOT0", "IDLE", "LOAD_CLEAR", "LOAD_LINE1", "LOAD_LINE2", "CMD_RUN", "CMD_WAIT",
                 "DAT_RUN", "DAT_WAIT"}
    /\ bootTimer \in 0..BootTime - 1 /\ cmd \in {"clear", "line1", "line2"}
    /\ cmdLen \in 0..CmdLen(cmd) /\ datLen \in 0..TextLen /\ txt \in TextType

BusTypes == /\ txFifo \in Seq(SpiByte) /\ frame \in Seq(SpiByte)
            /\ job \in [busy : BOOLEAN, tx : Nat, rx : {0}]

ClsTypes == FeedTypes /\ DriverTypes /\ BusTypes

ScreenTypes == screen \in [1..2 -> TextType] /\ cursor \in 1..2

(* A queue of the bytes of a command or text before the n-th last.         *)
Loaded(q, of, n, all, text) ==
    /\ q \in Seq(SpiByte) /\ Len(q) = all - n
    /\ \A i \in 1..Len(q) : q[i] = Byte(of, all + 1 - i, text)

(* The first bytes of a command or text in f, the rest in q.               *)
Divided(f, q, of, all, text) ==
    /\ f \in Seq(SpiByte) /\ q \in Seq(SpiByte) /\ Len(f) + Len(q) = all
    /\ \A i \in 1..Len(f) : f[i] = Byte(of, all + 1 - i, text)
    /\ \A i \in 1..Len(q) : q[i] = Byte(of, Len(q) + 1 - i, text)

Queued(of, n, all, text) == ~job.busy /\ n # 0 /\ Loaded(txFifo, of, n, all, text)

Underway(of, all, text) == job.tx = Len(txFifo) /\ Divided(frame, txFifo, of, all, text)

Transfers ==
    /\ cls \in {"BOOT0", "IDLE", "LOAD_CLEAR", "LOAD_LINE1", "LOAD_LINE2"}
       => ~job.busy /\ txFifo = << >>
    /\ cls = "CMD_RUN" => Queued(cmd, cmdLen, CmdLen(cmd), NoText)
    /\ cls = "DAT_RUN" => Queued("text", datLen, TextLen, txt)
    /\ cls = "CMD_WAIT" => IF job.busy THEN Underway(cmd, CmdLen(cmd), NoText) ELSE txFifo = << >>
    /\ cls = "DAT_WAIT" => IF job.busy THEN Underway("text", TextLen, txt) ELSE txFifo = << >>
    /\ cls \in {"CMD_RUN", "CMD_WAIT"} /\ cmd # "clear" => datLen = TextLen

Working == {"CMD_RUN", "CMD_WAIT", "DAT_RUN", "DAT_WAIT"}

(* The second line of this refresh has been begun.                         *)
Second == feed = "LINE2_DLY" \/ (feed = "PAUSE" /\ refreshed)

Interlock ==
    /\ feed = "CLEAR_RUN" => cls \in {"IDLE", "LOAD_CLEAR"}
    /\ feed = "LINE1_RUN" => cls \in {"IDLE", "LOAD_LINE1"}
    /\ feed = "LINE2_RUN" => cls \in {"IDLE", "LOAD_LINE2"}
    /\ feed \in {"CLEAR_DLY", "CLEAR_WAIT"} => cmd = "clear" /\ cls \in {"IDLE", "CMD_RUN", "CMD_WAIT"}
    /\ feed \in {"LINE1_DLY", "LINE1_WAIT"} => cmd = "line1" /\ cls \in Working \cup {"IDLE"}
    /\ Second => cmd = "line2" /\ cls \in Working \cup {"IDLE"}
    /\ feed = "PAUSE" /\ ~refreshed => cls \in {"BOOT0", "IDLE"}

(* The display has heard of the line that the driver writes next.          *)
Aimed ==
    \/ cls \in {"DAT_RUN", "DAT_WAIT"}
    \/ cls = "CMD_WAIT" /\ ~job.busy /\ cmd # "clear"
    => cursor = IF cmd = "line1" THEN 1 ELSE 2

Cleared == cls = "IDLE" \/ (cls = "CMD_WAIT" /\ ~job.busy)
Arrived == cls = "IDLE" \/ (cls = "DAT_WAIT" /\ ~job.busy)

Written ==
    /\ feed \in {"CLEAR_DLY", "CLEAR_WAIT"} /\ Cleared => screen[1] = NoText /\ screen[2] = NoText
    /\ feed = "LINE1_RUN" => screen[1] = NoText /\ screen[2] = NoText
    /\ feed \in {"LINE1_DLY", "LINE1_WAIT"}
       => txt.line = 1 /\ screen[2] = NoText /\ screen[1] = IF Arrived THEN txt ELSE NoText
    /\ feed = "LINE2_RUN" => screen[1].line = 1 /\ screen[2] = NoText
    /\ Second => txt.line = 2 /\ screen[1].line = 1 /\ screen[2] = IF Arrived THEN txt ELSE NoText

Writing == {"CLEAR_RUN", "CLEAR_DLY", "CLEAR_WAIT", "LINE1_RUN", "LINE1_DLY", "LINE1_WAIT",
            "LINE2_RUN"}

Fresh(u) == u = held \/ u = "inactive"
Agree(u, v) == u = v \/ u = "inactive" \/ v = "inactive"

Still ==
    /\ feed \in Writing => Fresh(value)
    /\ feed \in {"LINE1_DLY", "LINE1_WAIT"} => Fresh(txt.value)
    /\ feed = "LINE2_RUN" => Fresh(screen[1].value)
    /\ feed \in Writing /\ onTime /\ lines = 1 => Fresh(uartLine.value)
    /\ Second => Agree(screen[1].value, txt.value)
    /\ Second /\ onTime => Agree(uartLine.value, screen[1].value) /\ Agree(uartLine.value, txt.value)

ClsInv == ClsTypes /\ ScreenTypes /\ Transfers /\ Interlock /\ Aimed /\ Written /\ Still

-----------------------------------------------------------------------------
LEMMA Lengths ==
    /\ OneMs \in Nat /\ SubSecond \in Nat /\ BootTime \in Nat /\ BootTime >= 1
    /\ TextLen \in Nat /\ TextLen >= 1
    /\ \A c \in {"clear", "line1", "line2"} : CmdLen(c) \in Nat /\ CmdLen(c) >= 1
BY DisplayAssumption DEF CmdLen

LEMMA Texts ==
    /\ NoText \in TextType /\ Text(0, "garbled") \in TextType
    /\ NoText.line = 0
    /\ \A n \in 0..2, v \in Values \cup {"none", "zero", "inactive"} :
          Text(n, v) \in TextType /\ Text(n, v).line = n /\ Text(n, v).value = v
BY DEF TextType, NoText, Text

LEMMA InitCls == Init => ClsInv
<1> SUFFICES ASSUME Init PROVE ClsInv
  OBVIOUS
<1> USE Lengths, Texts
<1>1. feed = "PAUSE" /\ cls = "BOOT0" /\ refreshed = FALSE /\ onTime = FALSE
  BY DEF Init
<1>2. ClsTypes
  <2>1. /\ inactive \in BOOLEAN /\ refreshed \in BOOLEAN /\ feed \in Feeds
        /\ timer = 0 /\ bootTimer = 0 /\ cmd = "clear" /\ cmdLen = 0 /\ datLen = 0 /\ txt = NoText
    BY DEF Init, Feeds
  <2>2. /\ txFifo \in Seq(SpiByte) /\ frame \in Seq(SpiByte)
        /\ job \in [busy : BOOLEAN, tx : Nat, rx : {0}]
    BY DEF Init, SpiInit, NoJob
  <2>3. cmdLen \in 0..CmdLen(cmd)
    BY <2>1
  <2> QED
    BY <1>1, <2>1, <2>2, <2>3 DEF ClsTypes, FeedTypes, DriverTypes, BusTypes
<1>3. ScreenTypes
  BY DEF Init, ScreenTypes, Both
<1>4. Transfers
  BY <1>1 DEF Transfers, Init, SpiInit, NoJob
<1>5. Interlock /\ Aimed /\ Written /\ Still
  BY <1>1 DEF Interlock, Aimed, Written, Still, Second, Writing
<1> QED
  BY <1>2, <1>3, <1>4, <1>5 DEF ClsInv

(* What a frame does leaves the display a display.                         *)
LEMMA FrameTypes ==
    ASSUME ScreenTypes, AfterFrame, frame \in Seq(SpiByte), frame # << >>
    PROVE  ScreenTypes'
<1>1. frame[1].text \in TextType
  <2>1. frame[1] \in SpiByte
    OBVIOUS
  <2> QED
    BY <2>1 DEF SpiByte
<1>2. Both(NoText) \in [1..2 -> TextType] /\ Both(Text(0, "garbled")) \in [1..2 -> TextType]
  BY Texts DEF Both
<1> QED
  BY <1>1, <1>2 DEF ScreenTypes, AfterFrame

LEMMA ResetCls ==
    ASSUME UartInv, ClsInv, Reset
    PROVE  ClsInv'
<1> USE Lengths, Texts
<1>1. feed' = "PAUSE" /\ cls' = "BOOT0" /\ refreshed' = FALSE /\ onTime' = FALSE
  BY DEF Reset
<1>2. ClsTypes'
  <2>1. /\ inactive' \in BOOLEAN /\ refreshed' \in BOOLEAN /\ feed' \in Feeds
        /\ timer' = 0 /\ bootTimer' = 0 /\ cmd' = "clear" /\ cmdLen' = 0 /\ datLen' = 0 /\ txt' = NoText
    BY DEF Reset, Feeds
  <2>2. /\ txFifo' \in Seq(SpiByte) /\ frame' \in Seq(SpiByte)
        /\ job' \in [busy : BOOLEAN, tx : Nat, rx : {0}]
    BY DEF Reset, SpiReset, NoJob
  <2>3. cmdLen' \in 0..CmdLen(cmd')
    BY <2>1
  <2> QED
    BY <1>1, <2>1, <2>2, <2>3 DEF ClsTypes, FeedTypes, DriverTypes, BusTypes, CmdLen
<1>3. ScreenTypes'
  <2>1. CASE job.busy /\ frame # << >>
    BY <2>1, FrameTypes DEF Reset, ClsInv, ClsTypes, FeedTypes, DriverTypes, BusTypes
  <2>2. CASE ~(job.busy /\ frame # << >>)
    BY <2>2 DEF Reset, ClsInv, ScreenTypes
  <2> QED
    BY <2>1, <2>2
<1>4. Transfers'
  BY <1>1 DEF Transfers, Reset, SpiReset, NoJob
<1>5. Interlock' /\ Aimed' /\ Written' /\ Still'
  BY <1>1 DEF Interlock, Aimed, Written, Still, Second, Writing
<1> QED
  BY <1>2, <1>3, <1>4, <1>5 DEF ClsInv

-----------------------------------------------------------------------------
(* The refresh FSM.                                                        *)
LEMMA FeedKeepsTypes ==
    ASSUME ClsTypes, lcdFeed
    PROVE  feed' \in Feeds /\ timer' \in 0..SubSecond
<1>1. nxFeed \in Feeds
  BY DEF ClsTypes, FeedTypes, DriverTypes, BusTypes, nxFeed, Following, Feeds
<1> QED
  BY <1>1, Lengths DEF ClsTypes, FeedTypes, DriverTypes, BusTypes, lcdFeed

(* Where the refresh FSM goes.                                             *)
LEMMA FeedStep ==
    ASSUME ClsTypes, lcdFeed
    PROVE  /\ feed = "PAUSE"      => feed' = IF cls = "IDLE" THEN "CLEAR_RUN" ELSE "PAUSE"
           /\ feed = "CLEAR_RUN"  => feed' = IF cls # "IDLE" THEN "CLEAR_DLY" ELSE "CLEAR_RUN"
           /\ feed = "CLEAR_DLY"  => feed' \in {"CLEAR_DLY", "CLEAR_WAIT"}
           /\ feed = "CLEAR_WAIT" => feed' = IF cls = "IDLE" THEN "LINE1_RUN" ELSE "CLEAR_WAIT"
           /\ feed = "LINE1_RUN"  => feed' = IF cls # "IDLE" THEN "LINE1_DLY" ELSE "LINE1_RUN"
           /\ feed = "LINE1_DLY"  => feed' \in {"LINE1_DLY", "LINE1_WAIT"}
           /\ feed = "LINE1_WAIT" => feed' = IF cls = "IDLE" THEN "LINE2_RUN" ELSE "LINE1_WAIT"
           /\ feed = "LINE2_RUN"  => feed' = IF cls # "IDLE" THEN "LINE2_DLY" ELSE "LINE2_RUN"
           /\ feed = "LINE2_DLY"  => feed' \in {"LINE2_DLY", "PAUSE"}
BY DEF lcdFeed, nxFeed, feedMoves, Following, o_command_ready

-----------------------------------------------------------------------------
(* The bytes on their way.                                                 *)
LEMMA AppendByte ==
    ASSUME NEW of \in {"clear", "line1", "line2", "text"}, NEW text \in TextType,
           NEW n \in Nat \ {0}, NEW all \in Nat, NEW q, Loaded(q, of, n, all, text)
    PROVE  Loaded(q \o <<Byte(of, n, text)>>, of, n - 1, all, text)
<1> DEFINE r == q \o <<Byte(of, n, text)>>
<1>1. Byte(of, n, text) \in SpiByte
  BY DEF Byte, SpiByte
<1>2. /\ q \in Seq(SpiByte) /\ Len(q) = all - n /\ Len(q) \in Nat
      /\ \A i \in 1..Len(q) : q[i] = Byte(of, all + 1 - i, text)
  BY DEF Loaded
<1>3. /\ r \in Seq(SpiByte) /\ Len(r) = Len(q) + 1 /\ r[Len(q) + 1] = Byte(of, n, text)
      /\ \A i \in 1..Len(q) : r[i] = q[i]
  BY <1>1, <1>2
<1> HIDE DEF r
<1>4. all + 1 - (Len(q) + 1) = n /\ Len(r) = all - (n - 1)
  BY <1>2, <1>3
<1>5. ASSUME NEW i \in 1..Len(r) PROVE r[i] = Byte(of, all + 1 - i, text)
  <2>1. CASE i = Len(q) + 1
    BY <1>3, <1>4, <2>1
  <2>2. CASE i # Len(q) + 1
    <3>1. i \in 1..Len(q)
      BY <1>2, <1>3, <2>2
    <3> QED
      BY <1>2, <1>3, <3>1
  <2> QED
    BY <2>1, <2>2
<1>6. Loaded(r, of, n - 1, all, text)
  BY <1>3, <1>4, <1>5 DEF Loaded
<1> QED
  BY <1>6 DEF r

(* When all bytes are in the queue, none is in the frame.                  *)
LEMMA AllLoaded ==
    ASSUME NEW of, NEW text, NEW all \in Nat, NEW q, Loaded(q, of, 0, all, text)
    PROVE  Len(q) = all /\ Divided(<< >>, q, of, all, text)
BY DEF Loaded, Divided

LEMMA SendByte ==
    ASSUME NEW of, NEW text, NEW all \in Nat, NEW f, NEW q, q # << >>, Divided(f, q, of, all, text)
    PROVE  Len(Tail(q)) = Len(q) - 1 /\ Divided(Append(f, Head(q)), Tail(q), of, all, text)
<1> DEFINE g == Append(f, Head(q))
           r == Tail(q)
<1>1. /\ f \in Seq(SpiByte) /\ q \in Seq(SpiByte) /\ Len(f) + Len(q) = all
      /\ \A i \in 1..Len(f) : f[i] = Byte(of, all + 1 - i, text)
      /\ \A i \in 1..Len(q) : q[i] = Byte(of, Len(q) + 1 - i, text)
  BY DEF Divided
<1>2. /\ q[1] \in SpiByte /\ Len(q) \in Nat /\ Len(q) >= 1 /\ Len(f) \in Nat
      /\ r \in Seq(SpiByte) /\ Len(r) = Len(q) - 1
      /\ \A i \in 1..Len(r) : r[i] = q[i + 1]
  BY <1>1
<1>3. /\ g \in Seq(SpiByte) /\ Len(g) = Len(f) + 1 /\ g[Len(f) + 1] = q[1]
      /\ \A i \in 1..Len(f) : g[i] = f[i]
  <2>1. g = Append(f, q[1])
    BY <1>1
  <2> QED
    BY <1>1, <1>2, <2>1
<1> HIDE DEF g, r
<1>4. /\ Len(f) \in Nat /\ Len(q) \in Nat /\ all \in Nat /\ Len(f) + Len(q) = all
      /\ Len(g) = Len(f) + 1 /\ Len(r) = Len(q) - 1
  BY <1>1, <1>2, <1>3
<1>5. ASSUME NEW i \in 1..Len(g) PROVE g[i] = Byte(of, all + 1 - i, text)
  <2>1. CASE i = Len(f) + 1
    <3>1. q[1] = Byte(of, Len(q) + 1 - 1, text)
      BY <1>1, <1>2
    <3>2. Len(q) + 1 - 1 = all + 1 - i
      BY ONLY <1>4, <2>1
    <3> QED
      BY ONLY <1>3, <2>1, <3>1, <3>2
  <2>2. CASE i # Len(f) + 1
    <3>1. i \in 1..Len(f)
      BY <1>4, <2>2
    <3> QED
      BY <1>1, <1>3, <3>1
  <2> QED
    BY <2>1, <2>2
<1>6. ASSUME NEW i \in 1..Len(r) PROVE r[i] = Byte(of, Len(r) + 1 - i, text)
  <2>1. i + 1 \in 1..Len(q) /\ Len(q) + 1 - (i + 1) = Len(r) + 1 - i
    BY <1>4
  <2> QED
    BY <1>1, <1>2, <2>1
<1>7. Len(g) + Len(r) = all
  BY ONLY <1>4
<1>8. Len(r) = Len(q) - 1 /\ Divided(g, r, of, all, text)
  BY <1>2, <1>3, <1>5, <1>6, <1>7 DEF Divided
<1> QED
  BY <1>8 DEF g, r

(* The bus while the driver is neither enqueuing nor starting a transfer.  *)
LEMMA QuietBus ==
    ASSUME ClsTypes, BusHold \/ BusMoves, cls \notin {"CMD_RUN", "DAT_RUN"}
    PROVE  \/ /\ txFifo' = txFifo /\ job' = job /\ frame' = frame
              /\ UNCHANGED <<screen, cursor>>
           \/ /\ job.busy /\ job.tx > 0 /\ job' = [job EXCEPT !.tx = @ - 1]
              /\ txFifo # << >> => frame' = Append(frame, Head(txFifo)) /\ txFifo' = Tail(txFifo)
              /\ UNCHANGED <<screen, cursor>>
           \/ /\ job.busy /\ job.tx = 0 /\ job' = NoJob /\ frame' = frame /\ txFifo' = txFifo
              /\ AfterFrame
<1>1. o_tx_enqueue = << >> /\ o_go_stand = NoJob /\ NoJob.busy = FALSE
  BY DEF o_tx_enqueue, o_go_stand, NoJob
<1>2. txFifo \in Seq(SpiByte)
  BY DEF ClsTypes, FeedTypes, DriverTypes, BusTypes
<1>3. txFifo \o << >> = txFifo /\ (txFifo # << >> => Tail(txFifo) \o << >> = Tail(txFifo))
  BY <1>2
<1>4. CASE BusHold
  <2>1. SpiHold(<< >>, NoJob, FALSE) /\ UNCHANGED <<screen, cursor>>
    BY <1>1, <1>4 DEF BusHold
  <2> QED
    BY <1>1, <1>3, <2>1 DEF SpiHold
<1>5. CASE BusSend
  <2>1. SpiSend(<< >>, FALSE) /\ UNCHANGED <<screen, cursor>>
    BY <1>1, <1>5 DEF BusSend
  <2> QED
    BY <1>3, <2>1 DEF SpiSend
<1>6. CASE BusStop
  <2>1. SpiStop(<< >>, FALSE) /\ AfterFrame
    BY <1>1, <1>6 DEF BusStop
  <2> QED
    BY <1>3, <2>1 DEF SpiStop
<1> QED
  BY <1>4, <1>5, <1>6 DEF BusMoves

(* The idle bus takes what the driver enqueues and starts.                 *)
LEMMA IdleBus ==
    ASSUME ClsTypes, BusHold \/ BusMoves, ~job.busy
    PROVE  /\ txFifo' = txFifo \o o_tx_enqueue
           /\ job' = IF o_go_stand.busy THEN o_go_stand ELSE job
           /\ frame' = IF o_go_stand.busy THEN << >> ELSE frame
           /\ UNCHANGED <<screen, cursor>>
BY DEF BusMoves, BusHold, BusSend, BusStop, SpiHold, SpiSend, SpiStop

(* A frame that is on the bus to its end is a whole command or text.       *)
LEMMA WholeFrame ==
    ASSUME NEW of, NEW text, NEW all \in Nat, job.tx = 0, Underway(of, all, text)
    PROVE  txFifo = << >> /\ Len(frame) = all /\ frame = Bytes(of, all, text)
<1>1. Len(txFifo) = 0 /\ txFifo = << >> /\ frame \in Seq(SpiByte)
  BY DEF Underway, Divided
<1>2. Len(frame) = all /\ \A i \in 1..all : frame[i] = Byte(of, all + 1 - i, text)
  BY <1>1 DEF Underway, Divided
<1>3. frame = [i \in 1..Len(frame) |-> frame[i]]
  BY <1>1
<1> QED
  BY <1>1, <1>2, <1>3 DEF Bytes

(* What the display makes of a whole frame.                                *)
LEMMA FrameShown ==
    ASSUME NEW of \in {"clear", "line1", "line2", "text"}, NEW text, NEW all \in Nat, all >= 1,
           frame = Bytes(of, all, text), AfterFrame, ScreenTypes,
           of # "text" => all = CmdLen(of) /\ text = NoText, of = "text" => all = TextLen
    PROVE  /\ of = "clear" => screen' = Both(NoText) /\ cursor' = cursor
           /\ of = "line1" => cursor' = 1 /\ screen' = screen
           /\ of = "line2" => cursor' = 2 /\ screen' = screen
           /\ of = "text" => screen' = [screen EXCEPT ![cursor] = text] /\ cursor' = cursor
<1>1. ASSUME NEW o, NEW n \in Nat, NEW t, n >= 1, frame = Bytes(o, n, t) PROVE o = of /\ frame[1].text = t
  <2>1. frame[1] = Byte(o, n + 1 - 1, t) /\ frame[1] = Byte(of, all + 1 - 1, text)
    BY <1>1 DEF Bytes
  <2> QED
    BY <2>1 DEF Byte
<1>2. frame[1].text = text
  BY <1>1
<1>3. ClearLen >= 1 /\ ClearLen \in Nat /\ CursorLen >= 1 /\ CursorLen \in Nat /\ TextLen >= 1 /\ TextLen \in Nat
  BY DisplayAssumption
<1>4. /\ frame = Bytes("clear", ClearLen, NoText) => of = "clear"
      /\ frame = Bytes("line1", CursorLen, NoText) => of = "line1"
      /\ frame = Bytes("line2", CursorLen, NoText) => of = "line2"
      /\ frame = Bytes("text", TextLen, frame[1].text) => of = "text"
  BY <1>1, <1>3
<1>5. CASE of = "clear"
  <2>1. frame = Bytes("clear", ClearLen, NoText)
    BY <1>5 DEF CmdLen
  <2> QED
    BY <1>4, <1>5, <2>1 DEF AfterFrame
<1>6. CASE of = "line1"
  <2>1. frame = Bytes("line1", CursorLen, NoText)
    BY <1>6 DEF CmdLen
  <2>2. \A n \in 1..2 : frame = Bytes(<<"line1", "line2">>[n], CursorLen, NoText) => n = 1
    BY <1>4, <1>6
  <2> QED
    BY <1>4, <1>6, <2>1, <2>2 DEF AfterFrame
<1>7. CASE of = "line2"
  <2>1. frame = Bytes("line2", CursorLen, NoText)
    BY <1>7 DEF CmdLen
  <2>2. \A n \in 1..2 : frame = Bytes(<<"line1", "line2">>[n], CursorLen, NoText) => n = 2
    BY <1>4, <1>7
  <2> QED
    BY <1>4, <1>7, <2>1, <2>2 DEF AfterFrame
<1>8. CASE of = "text"
  <2>1. frame = Bytes("text", TextLen, frame[1].text)
    BY <1>2, <1>8
  <2>2. \A n \in 1..2 : frame # Bytes(<<"line1", "line2">>[n], CursorLen, NoText)
    BY <1>4, <1>8
  <2> QED
    BY <1>2, <1>4, <1>8, <2>1, <2>2 DEF AfterFrame
<1> QED
  BY <1>5, <1>6, <1>7, <1>8

-----------------------------------------------------------------------------
(* A clock with a clock enable.                                            *)
EnabledClock == lcdFeed /\ clsDriver /\ (BusHold \/ BusMoves)

LEMMA DriverKeepsTypes ==
    ASSUME ClsTypes, Transfers, UartTypes, clsDriver
    PROVE  DriverTypes'
<1> USE Lengths, Texts
<1>1. /\ cmd \in {"clear", "line1", "line2"} /\ bootTimer \in 0..BootTime - 1
      /\ cmdLen \in 0..CmdLen(cmd) /\ datLen \in 0..TextLen /\ txt \in TextType
      /\ value \in Values \cup {"zero", "inactive"}
  BY DEF ClsTypes, DriverTypes, UartTypes
<1>2. CASE clsBoot \/ clsIdle \/ clsAwaitCommand \/ clsAwaitText
  BY <1>1, <1>2 DEF DriverTypes, clsBoot, clsIdle, clsAwaitCommand, clsAwaitText
<1>3. ASSUME NEW state, NEW c \in {"clear", "line1", "line2"}, NEW text \in TextType,
             NEW len \in 0..TextLen, clsLoad(state, c, text, len)
      PROVE  DriverTypes'
  BY <1>1, <1>3 DEF DriverTypes, clsLoad
<1>4. CASE clsRunCommand
  <2>1. cmdLen # 0
    BY <1>4 DEF clsRunCommand, Transfers, Queued
  <2> QED
    BY <1>1, <1>4, <2>1 DEF DriverTypes, clsRunCommand
<1>5. CASE clsRunText
  <2>1. datLen # 0
    BY <1>5 DEF clsRunText, Transfers, Queued
  <2> QED
    BY <1>1, <1>5, <2>1 DEF DriverTypes, clsRunText
<1>6. CASE clsLoad("LOAD_CLEAR", "clear", NoText, 0)
  BY <1>3, <1>6
<1>7. CASE clsLoad("LOAD_LINE1", "line1", Text(1, value), TextLen)
  BY <1>1, <1>3, <1>7
<1>8. CASE clsLoad("LOAD_LINE2", "line2", Text(2, value), TextLen)
  BY <1>1, <1>3, <1>8
<1> QED
  BY <1>2, <1>4, <1>5, <1>6, <1>7, <1>8 DEF clsDriver

Resting == {"BOOT0", "IDLE", "LOAD_CLEAR", "LOAD_LINE1", "LOAD_LINE2"}

(* The driver at rest or about to begin: the bus does not move.            *)
LEMMA RestingStep ==
    ASSUME ClsTypes, ScreenTypes, Transfers, UartTypes, clsDriver, BusHold \/ BusMoves, cls \in Resting
    PROVE  BusTypes' /\ Transfers' /\ UNCHANGED <<screen, cursor>>
<1> USE Lengths
<1>1. ~job.busy /\ txFifo = << >> /\ cls \notin {"CMD_RUN", "DAT_RUN"}
  BY DEF Transfers, Resting
<1>2. txFifo' = << >> /\ job' = job /\ frame' = frame /\ UNCHANGED <<screen, cursor>>
  BY <1>1, QuietBus
<1>3. BusTypes'
  BY <1>2 DEF ClsTypes, BusTypes
<1>4. CASE cls' \in Resting
  <2>1. cls' \notin {"CMD_RUN", "CMD_WAIT", "DAT_RUN", "DAT_WAIT"}
    BY <1>4 DEF Resting
  <2> QED
    BY <1>1, <1>2, <1>3, <2>1 DEF Transfers
<1>5. CASE cls' \notin Resting
  <2>1. PICK state \in Resting, c \in {"clear", "line1", "line2"}, text \in {NoText, Text(1, value), Text(2, value)} :
            /\ cls' = "CMD_RUN" /\ cmd' = c /\ cmdLen' = CmdLen(c)
            /\ datLen' = IF c = "clear" THEN 0 ELSE TextLen
    BY <1>1, <1>5 DEF clsDriver, clsBoot, clsIdle, clsLoad, clsRunCommand, clsAwaitCommand,
                      clsRunText, clsAwaitText, Resting
  <2>2. Queued(cmd, cmdLen, CmdLen(cmd), NoText)'
    <3>1. cmdLen' = CmdLen(cmd') /\ CmdLen(cmd') \in Nat /\ CmdLen(cmd') >= 1 /\ ~job'.busy
      BY <1>1, <1>2, <2>1
    <3> QED
      BY <1>2, <3>1 DEF Queued, Loaded, CmdLen
  <2> QED
    BY <1>2, <1>3, <2>1, <2>2 DEF Transfers
<1> QED
  BY <1>4, <1>5

(* The driver enqueues a command.                                          *)
LEMMA CommandStep ==
    ASSUME ClsTypes, Transfers, clsDriver, BusHold \/ BusMoves, cls = "CMD_RUN"
    PROVE  BusTypes' /\ Transfers' /\ UNCHANGED <<screen, cursor>> /\ (cls' = "CMD_WAIT" => job'.busy)
<1>1. /\ Queued(cmd, cmdLen, CmdLen(cmd), NoText) /\ frame \in Seq(SpiByte)
      /\ cmd # "clear" => datLen = TextLen
      /\ cmd \in {"clear", "line1", "line2"} /\ cmdLen \in 0..CmdLen(cmd) /\ cmdLen # 0
      /\ CmdLen(cmd) \in Nat /\ NoText \in TextType
  BY Lengths, Texts DEF Transfers, ClsTypes, DriverTypes, BusTypes, Queued
<1>2. /\ cls' = IF cmdLen <= 1 THEN "CMD_WAIT" ELSE "CMD_RUN"
      /\ cmdLen' = cmdLen - 1 /\ cmd' = cmd /\ datLen' = datLen
  BY DEF clsDriver, clsBoot, clsIdle, clsLoad, clsRunCommand, clsAwaitCommand, clsRunText, clsAwaitText
<1>3. /\ ~job.busy /\ txFifo' = txFifo \o <<Byte(cmd, cmdLen, NoText)>>
      /\ job' = IF cmdLen <= 1 THEN Transfer(CmdLen(cmd), 0) ELSE job
      /\ frame' = IF cmdLen <= 1 THEN << >> ELSE frame
      /\ UNCHANGED <<screen, cursor>>
  <2>1. ~job.busy /\ o_tx_enqueue = <<Byte(cmd, cmdLen, NoText)>>
    BY <1>1 DEF Queued, o_tx_enqueue
  <2>2. /\ o_go_stand = IF cmdLen <= 1 THEN Transfer(CmdLen(cmd), 0) ELSE NoJob
        /\ o_go_stand.busy <=> cmdLen <= 1
    BY DEF o_go_stand, Transfer, NoJob
  <2> QED
    BY <2>1, <2>2, IdleBus
<1>4. Loaded(txFifo', cmd, cmdLen - 1, CmdLen(cmd), NoText)
  <2>1. Loaded(txFifo, cmd, cmdLen, CmdLen(cmd), NoText) /\ cmdLen \in Nat \ {0}
        /\ cmd \in {"clear", "line1", "line2", "text"}
    BY <1>1 DEF Queued
  <2>2. Loaded(txFifo \o <<Byte(cmd, cmdLen, NoText)>>, cmd, cmdLen - 1, CmdLen(cmd), NoText)
    BY <1>1, <2>1, AppendByte
  <2> QED
    BY <1>3, <2>2, Zenon
<1>5. txFifo' \in Seq(SpiByte)
  BY <1>4 DEF Loaded
<1>6. CmdLen(cmd)' = CmdLen(cmd)
  BY <1>2 DEF CmdLen
<1>7. CASE cmdLen = 1
  <2>1. cls' = "CMD_WAIT" /\ job' = Transfer(CmdLen(cmd), 0) /\ frame' = << >>
    BY <1>2, <1>3, <1>7
  <2>2. job'.busy = TRUE /\ job'.tx = CmdLen(cmd) /\ job' \in [busy : BOOLEAN, tx : Nat, rx : {0}]
    BY <1>1, <2>1 DEF Transfer
  <2>3. Len(txFifo') = CmdLen(cmd) /\ Divided(frame', txFifo', cmd, CmdLen(cmd), NoText)
    <3>1. Loaded(txFifo', cmd, 0, CmdLen(cmd), NoText)
      BY <1>4, <1>7
    <3>2. Len(txFifo') = CmdLen(cmd) /\ Divided(<< >>, txFifo', cmd, CmdLen(cmd), NoText)
      BY <1>1, <3>1, AllLoaded
    <3> QED
      BY <2>1, <3>2
  <2>4. Underway(cmd, CmdLen(cmd), NoText)'
    BY <1>2, <1>6, <2>2, <2>3 DEF Underway
  <2>5. BusTypes'
    <3>1. << >> \in Seq(SpiByte)
      OBVIOUS
    <3> QED
      BY <1>5, <2>1, <2>2, <3>1, Zenon DEF BusTypes
  <2> QED
    BY <1>1, <1>2, <1>3, <2>1, <2>2, <2>4, <2>5 DEF Transfers
<1>8. CASE cmdLen # 1
  <2>1. cls' = "CMD_RUN" /\ job' = job /\ frame' = frame /\ cmdLen' # 0
    BY <1>1, <1>2, <1>3, <1>8
  <2>2. Queued(cmd, cmdLen, CmdLen(cmd), NoText)'
    BY <1>2, <1>3, <1>4, <1>6, <2>1 DEF Queued
  <2>3. BusTypes'
    BY <1>5, <2>1 DEF ClsTypes, BusTypes
  <2> QED
    BY <1>1, <1>2, <1>3, <2>1, <2>2, <2>3 DEF Transfers
<1> QED
  BY <1>7, <1>8

(* The driver enqueues a text.                                             *)
LEMMA TextStep ==
    ASSUME ClsTypes, Transfers, clsDriver, BusHold \/ BusMoves, cls = "DAT_RUN"
    PROVE  BusTypes' /\ Transfers' /\ UNCHANGED <<screen, cursor>> /\ (cls' = "DAT_WAIT" => job'.busy)
<1>1. /\ Queued("text", datLen, TextLen, txt) /\ frame \in Seq(SpiByte)
      /\ datLen \in 0..TextLen /\ datLen # 0 /\ txt \in TextType /\ TextLen \in Nat
  BY Lengths, Texts DEF Transfers, ClsTypes, DriverTypes, BusTypes, Queued
<1>2. /\ cls' = IF datLen <= 1 THEN "DAT_WAIT" ELSE "DAT_RUN"
      /\ datLen' = datLen - 1 /\ cmd' = cmd /\ txt' = txt
  BY DEF clsDriver, clsBoot, clsIdle, clsLoad, clsRunCommand, clsAwaitCommand, clsRunText, clsAwaitText
<1>3. /\ ~job.busy /\ txFifo' = txFifo \o <<Byte("text", datLen, txt)>>
      /\ job' = IF datLen <= 1 THEN Transfer(TextLen, 0) ELSE job
      /\ frame' = IF datLen <= 1 THEN << >> ELSE frame
      /\ UNCHANGED <<screen, cursor>>
  <2>1. ~job.busy /\ o_tx_enqueue = <<Byte("text", datLen, txt)>>
    BY <1>1 DEF Queued, o_tx_enqueue
  <2>2. /\ o_go_stand = IF datLen <= 1 THEN Transfer(TextLen, 0) ELSE NoJob
        /\ o_go_stand.busy <=> datLen <= 1
    BY DEF o_go_stand, Transfer, NoJob
  <2> QED
    BY <2>1, <2>2, IdleBus
<1>4. Loaded(txFifo', "text", datLen - 1, TextLen, txt)
  <2>1. Loaded(txFifo, "text", datLen, TextLen, txt) /\ datLen \in Nat \ {0}
        /\ "text" \in {"clear", "line1", "line2", "text"}
    BY <1>1 DEF Queued
  <2>2. Loaded(txFifo \o <<Byte("text", datLen, txt)>>, "text", datLen - 1, TextLen, txt)
    BY <1>1, <2>1, AppendByte
  <2> QED
    BY <1>3, <2>2, Zenon
<1>5. txFifo' \in Seq(SpiByte)
  BY <1>4 DEF Loaded
<1>7. CASE datLen = 1
  <2>1. cls' = "DAT_WAIT" /\ job' = Transfer(TextLen, 0) /\ frame' = << >>
    BY <1>2, <1>3, <1>7
  <2>2. job'.busy = TRUE /\ job'.tx = TextLen /\ job' \in [busy : BOOLEAN, tx : Nat, rx : {0}]
    BY <1>1, <2>1 DEF Transfer
  <2>3. Len(txFifo') = TextLen /\ Divided(frame', txFifo', "text", TextLen, txt)
    <3>1. Loaded(txFifo', "text", 0, TextLen, txt)
      BY <1>4, <1>7
    <3>2. Len(txFifo') = TextLen /\ Divided(<< >>, txFifo', "text", TextLen, txt)
      BY <1>1, <3>1, AllLoaded
    <3> QED
      BY <2>1, <3>2
  <2>4. Underway("text", TextLen, txt)'
    BY <1>2, <2>2, <2>3, Zenon DEF Underway
  <2>5. BusTypes'
    <3>1. << >> \in Seq(SpiByte)
      OBVIOUS
    <3> QED
      BY <1>5, <2>1, <2>2, <3>1, Zenon DEF BusTypes
  <2> QED
    BY <1>1, <1>2, <1>3, <2>1, <2>2, <2>4, <2>5 DEF Transfers
<1>8. CASE datLen # 1
  <2>1. cls' = "DAT_RUN" /\ job' = job /\ frame' = frame /\ datLen' # 0
    BY <1>1, <1>2, <1>3, <1>8
  <2>2. Queued("text", datLen, TextLen, txt)'
    BY <1>2, <1>3, <1>4, <2>1 DEF Queued
  <2>3. BusTypes'
    BY <1>5, <2>1 DEF ClsTypes, BusTypes
  <2> QED
    BY <1>1, <1>2, <1>3, <2>1, <2>2, <2>3 DEF Transfers
<1> QED
  BY <1>7, <1>8

(* A step of the bus with a command or text under way.                     *)
LEMMA UnderwayStep ==
    ASSUME ClsTypes, ScreenTypes, BusHold \/ BusMoves, cls \in {"CMD_WAIT", "DAT_WAIT"}, job.busy,
           NEW of \in {"clear", "line1", "line2", "text"}, NEW text, NEW all \in Nat, all >= 1,
           Underway(of, all, text),
           of # "text" => all = CmdLen(of) /\ text = NoText, of = "text" => all = TextLen
    PROVE  /\ BusTypes' /\ ScreenTypes'
           /\ \/ /\ job'.busy /\ UNCHANGED <<screen, cursor>>
                 /\ job'.tx = Len(txFifo') /\ Divided(frame', txFifo', of, all, text)
              \/ /\ ~job'.busy /\ txFifo' = << >>
                 /\ of = "clear" => screen' = Both(NoText) /\ cursor' = cursor
                 /\ of = "line1" => cursor' = 1 /\ screen' = screen
                 /\ of = "line2" => cursor' = 2 /\ screen' = screen
                 /\ of = "text" => screen' = [screen EXCEPT ![cursor] = text] /\ cursor' = cursor
<1>1. /\ txFifo \in Seq(SpiByte) /\ frame \in Seq(SpiByte)
      /\ job \in [busy : BOOLEAN, tx : Nat, rx : {0}]
  BY DEF ClsTypes, BusTypes
<1>2. CASE txFifo' = txFifo /\ job' = job /\ frame' = frame /\ UNCHANGED <<screen, cursor>>
  BY <1>1, <1>2 DEF BusTypes, ScreenTypes, Underway
<1>3. CASE /\ job.tx > 0 /\ job' = [job EXCEPT !.tx = @ - 1]
           /\ txFifo # << >> => frame' = Append(frame, Head(txFifo)) /\ txFifo' = Tail(txFifo)
           /\ UNCHANGED <<screen, cursor>>
  <2>1. txFifo # << >> /\ job.tx = Len(txFifo) /\ Divided(frame, txFifo, of, all, text)
    BY <1>1, <1>3 DEF Underway
  <2>2. frame' = Append(frame, Head(txFifo)) /\ txFifo' = Tail(txFifo)
    BY <1>3, <2>1
  <2>3. /\ Len(Tail(txFifo)) = Len(txFifo) - 1
        /\ Divided(Append(frame, Head(txFifo)), Tail(txFifo), of, all, text)
    BY <2>1, SendByte
  <2>4. Len(txFifo') = Len(txFifo) - 1 /\ Divided(frame', txFifo', of, all, text)
    BY <2>2, <2>3, Zenon
  <2>5. frame' \in Seq(SpiByte) /\ txFifo' \in Seq(SpiByte)
    BY <2>4 DEF Divided
  <2>6. job'.busy = job.busy /\ job'.tx = job.tx - 1 /\ job' \in [busy : BOOLEAN, tx : Nat, rx : {0}]
    <3>1. job.tx - 1 \in Nat /\ job.busy \in BOOLEAN /\ job.rx = 0
      BY <1>1, <1>3
    <3>2. job' = [busy |-> job.busy, tx |-> job.tx - 1, rx |-> job.rx]
      BY <1>1, <1>3
    <3> QED
      BY ONLY <3>1, <3>2
  <2>7. job'.tx = Len(txFifo')
    BY <2>1, <2>4, <2>6
  <2>8. BusTypes' /\ ScreenTypes'
    BY <1>1, <1>3, <2>5, <2>6, <2>7 DEF BusTypes, ScreenTypes
  <2> QED
    BY <1>3, <2>4, <2>6, <2>7, <2>8
<1>4. CASE /\ job.tx = 0 /\ job' = NoJob /\ frame' = frame /\ txFifo' = txFifo
           /\ AfterFrame
  <2>1. txFifo = << >> /\ Len(frame) = all /\ frame = Bytes(of, all, text)
    BY <1>4, WholeFrame
  <2>2. frame # << >>
    BY <2>1
  <2>3. ScreenTypes'
    BY <1>1, <1>4, <2>2, FrameTypes
  <2>4. BusTypes' /\ ~job'.busy /\ txFifo' = << >>
    BY <1>1, <1>4, <2>1 DEF BusTypes, NoJob
  <2>5. /\ of = "clear" => screen' = Both(NoText) /\ cursor' = cursor
        /\ of = "line1" => cursor' = 1 /\ screen' = screen
        /\ of = "line2" => cursor' = 2 /\ screen' = screen
        /\ of = "text" => screen' = [screen EXCEPT ![cursor] = text] /\ cursor' = cursor
    BY <1>4, <2>1, FrameShown
  <2> QED
    BY <2>3, <2>4, <2>5
<1> QED
  BY <1>2, <1>3, <1>4, QuietBus

(* What the end of a frame does to the display.                            *)
FrameEffect ==
    IF job.busy /\ ~job'.busy
    THEN /\ cls = "CMD_WAIT" /\ cmd = "clear" => screen' = Both(NoText) /\ cursor' = cursor
         /\ cls = "CMD_WAIT" /\ cmd = "line1" => cursor' = 1 /\ screen' = screen
         /\ cls = "CMD_WAIT" /\ cmd = "line2" => cursor' = 2 /\ screen' = screen
         /\ cls = "DAT_WAIT" => screen' = [screen EXCEPT ![cursor] = txt] /\ cursor' = cursor
    ELSE screen' = screen /\ cursor' = cursor

LEMMA CommandWait ==
    ASSUME ClsTypes, ScreenTypes, Transfers, clsDriver, BusHold \/ BusMoves, cls = "CMD_WAIT"
    PROVE  BusTypes' /\ ScreenTypes' /\ Transfers' /\ FrameEffect
<1>1. /\ cls' = IF job.busy THEN "CMD_WAIT" ELSE IF cmd # "clear" THEN "DAT_RUN" ELSE "IDLE"
      /\ cmd' = cmd /\ cmdLen' = cmdLen /\ datLen' = datLen /\ txt' = txt
  BY DEF clsDriver, clsBoot, clsIdle, clsLoad, clsRunCommand, clsAwaitCommand, clsRunText, clsAwaitText,
         o_spi_idle
<1>2. /\ cmd \in {"clear", "line1", "line2"} /\ CmdLen(cmd) \in Nat /\ CmdLen(cmd) >= 1
      /\ cmd # "clear" => datLen = TextLen
      /\ TextLen \in Nat /\ TextLen >= 1
  BY Lengths DEF ClsTypes, DriverTypes, Transfers
<1>3. CASE ~job.busy
  <2>1. /\ txFifo' = txFifo /\ job' = job /\ frame' = frame /\ UNCHANGED <<screen, cursor>>
        /\ txFifo = << >>
    BY <1>3, QuietBus DEF Transfers
  <2>2. BusTypes' /\ ScreenTypes' /\ FrameEffect
    BY <1>3, <2>1 DEF ClsTypes, BusTypes, ScreenTypes, FrameEffect
  <2>3. CASE cmd = "clear"
    BY <1>1, <1>3, <2>1, <2>2, <2>3 DEF Transfers
  <2>4. CASE cmd # "clear"
    <3>1. Loaded(<< >>, "text", TextLen, TextLen, txt)
      BY <1>2 DEF Loaded
    <3>2. Queued("text", datLen, TextLen, txt)'
      BY <1>1, <1>2, <1>3, <2>1, <2>4, <3>1 DEF Queued
    <3> QED
      BY <1>1, <1>3, <2>2, <2>4, <3>2 DEF Transfers
  <2> QED
    BY <2>3, <2>4
<1>4. CASE job.busy
  <2>1. Underway(cmd, CmdLen(cmd), NoText) /\ cls \in {"CMD_WAIT", "DAT_WAIT"}
        /\ cmd \in {"clear", "line1", "line2", "text"} /\ cmd # "text"
    BY <1>2, <1>4 DEF Transfers
  <2>2. /\ BusTypes' /\ ScreenTypes'
        /\ \/ /\ job'.busy /\ UNCHANGED <<screen, cursor>>
              /\ job'.tx = Len(txFifo') /\ Divided(frame', txFifo', cmd, CmdLen(cmd), NoText)
           \/ /\ ~job'.busy /\ txFifo' = << >>
              /\ cmd = "clear" => screen' = Both(NoText) /\ cursor' = cursor
              /\ cmd = "line1" => cursor' = 1 /\ screen' = screen
              /\ cmd = "line2" => cursor' = 2 /\ screen' = screen
    BY <1>2, <1>4, <2>1, UnderwayStep
  <2>3. CmdLen(cmd)' = CmdLen(cmd)
    BY <1>1 DEF CmdLen
  <2>4. job'.busy => Underway(cmd, CmdLen(cmd), NoText)'
    BY <1>1, <2>2, <2>3 DEF Underway
  <2>5. ~job'.busy => txFifo' = << >>
    BY <2>2
  <2>6. FrameEffect
    BY <1>4, <2>2 DEF FrameEffect
  <2> QED
    BY <1>1, <1>2, <1>4, <2>2, <2>4, <2>5, <2>6 DEF Transfers
<1> QED
  BY <1>3, <1>4

LEMMA TextWait ==
    ASSUME ClsTypes, ScreenTypes, Transfers, clsDriver, BusHold \/ BusMoves, cls = "DAT_WAIT"
    PROVE  BusTypes' /\ ScreenTypes' /\ Transfers' /\ FrameEffect
<1>1. /\ cls' = IF job.busy THEN "DAT_WAIT" ELSE "IDLE"
      /\ cmd' = cmd /\ cmdLen' = cmdLen /\ datLen' = datLen /\ txt' = txt
  BY DEF clsDriver, clsBoot, clsIdle, clsLoad, clsRunCommand, clsAwaitCommand, clsRunText, clsAwaitText,
         o_spi_idle
<1>2. TextLen \in Nat /\ TextLen >= 1
  BY Lengths
<1>3. CASE ~job.busy
  <2>1. /\ txFifo' = txFifo /\ job' = job /\ frame' = frame /\ UNCHANGED <<screen, cursor>>
        /\ txFifo = << >>
    BY <1>3, QuietBus DEF Transfers
  <2>2. BusTypes' /\ ScreenTypes' /\ FrameEffect
    BY <1>3, <2>1 DEF ClsTypes, BusTypes, ScreenTypes, FrameEffect
  <2> QED
    BY <1>1, <1>3, <2>1, <2>2 DEF Transfers
<1>4. CASE job.busy
  <2>1. Underway("text", TextLen, txt) /\ cls \in {"CMD_WAIT", "DAT_WAIT"}
        /\ "text" \in {"clear", "line1", "line2", "text"}
    BY <1>4 DEF Transfers
  <2>2. /\ BusTypes' /\ ScreenTypes'
        /\ \/ /\ job'.busy /\ UNCHANGED <<screen, cursor>>
              /\ job'.tx = Len(txFifo') /\ Divided(frame', txFifo', "text", TextLen, txt)
           \/ /\ ~job'.busy /\ txFifo' = << >>
              /\ screen' = [screen EXCEPT ![cursor] = txt] /\ cursor' = cursor
    BY <1>2, <1>4, <2>1, UnderwayStep
  <2>3. job'.busy => Underway("text", TextLen, txt)'
    BY <1>1, <2>2 DEF Underway
  <2>4. ~job'.busy => txFifo' = << >>
    BY <2>2
  <2>5. FrameEffect
    BY <1>4, <2>2 DEF FrameEffect
  <2> QED
    BY <1>1, <1>4, <2>2, <2>3, <2>4, <2>5 DEF Transfers
<1> QED
  BY <1>3, <1>4

(* The driver and the bus in a clock with a clock enable.                  *)
LEMMA DriverStep ==
    ASSUME ClsTypes, ScreenTypes, Transfers, UartTypes, clsDriver, BusHold \/ BusMoves
    PROVE  /\ DriverTypes' /\ BusTypes' /\ ScreenTypes' /\ Transfers'
           /\ IF cls \in {"CMD_WAIT", "DAT_WAIT"} THEN FrameEffect ELSE screen' = screen /\ cursor' = cursor
           /\ cls = "CMD_RUN" /\ cls' = "CMD_WAIT" => job'.busy
           /\ cls = "DAT_RUN" /\ cls' = "DAT_WAIT" => job'.busy
<1>1. DriverTypes'
  BY DriverKeepsTypes
<1>2. cls \in Resting \cup {"CMD_RUN", "CMD_WAIT", "DAT_RUN", "DAT_WAIT"}
  BY DEF ClsTypes, DriverTypes, Resting
<1>3. CASE cls \in Resting
  <2>1. BusTypes' /\ Transfers' /\ screen' = screen /\ cursor' = cursor
    BY <1>3, RestingStep
  <2>2. ScreenTypes'
    BY <2>1 DEF ScreenTypes
  <2> QED
    BY <1>1, <1>3, <2>1, <2>2 DEF Resting
<1>4. CASE cls = "CMD_RUN"
  <2>1. BusTypes' /\ Transfers' /\ screen' = screen /\ cursor' = cursor /\ (cls' = "CMD_WAIT" => job'.busy)
    BY <1>4, CommandStep
  <2>2. ScreenTypes'
    BY <2>1 DEF ScreenTypes
  <2> QED
    BY <1>1, <1>4, <2>1, <2>2
<1>5. CASE cls = "DAT_RUN"
  <2>1. BusTypes' /\ Transfers' /\ screen' = screen /\ cursor' = cursor /\ (cls' = "DAT_WAIT" => job'.busy)
    BY <1>5, TextStep
  <2>2. ScreenTypes'
    BY <2>1 DEF ScreenTypes
  <2> QED
    BY <1>1, <1>5, <2>1, <2>2
<1>6. CASE cls = "CMD_WAIT"
  BY <1>1, <1>6, CommandWait
<1>7. CASE cls = "DAT_WAIT"
  BY <1>1, <1>7, TextWait
<1> QED
  BY <1>2, <1>3, <1>4, <1>5, <1>6, <1>7

(* Where the driver goes.                                                  *)
LEMMA DriverPath ==
    ASSUME clsDriver
    PROVE  /\ cls \in {"BOOT0"} => cls' \in {"BOOT0", "IDLE"}
           /\ cls = "IDLE" => cls' = IF feed = "CLEAR_RUN" THEN "LOAD_CLEAR"
                                     ELSE IF feed = "LINE1_RUN" THEN "LOAD_LINE1"
                                     ELSE IF feed = "LINE2_RUN" THEN "LOAD_LINE2" ELSE "IDLE"
           /\ cls = "LOAD_CLEAR" => cls' = "CMD_RUN" /\ cmd' = "clear"
           /\ cls = "LOAD_LINE1" => cls' = "CMD_RUN" /\ cmd' = "line1" /\ txt' = Text(1, value)
           /\ cls = "LOAD_LINE2" => cls' = "CMD_RUN" /\ cmd' = "line2" /\ txt' = Text(2, value)
           /\ cls \notin {"LOAD_CLEAR", "LOAD_LINE1", "LOAD_LINE2"} => cmd' = cmd /\ txt' = txt
           /\ cls = "CMD_RUN" => cls' \in {"CMD_RUN", "CMD_WAIT"}
           /\ cls = "CMD_WAIT" => cls' = IF job.busy THEN "CMD_WAIT"
                                         ELSE IF cmd # "clear" THEN "DAT_RUN" ELSE "IDLE"
           /\ cls = "DAT_RUN" => cls' \in {"DAT_RUN", "DAT_WAIT"}
           /\ cls = "DAT_WAIT" => cls' = IF job.busy THEN "DAT_WAIT" ELSE "IDLE"
BY DEF clsDriver, clsBoot, clsIdle, clsLoad, clsRunCommand, clsAwaitCommand, clsRunText, clsAwaitText,
       o_spi_idle, o_lcd_wr_clear_display, o_lcd_wr_text_line1, o_lcd_wr_text_line2

(* The top level, the UART and the history in any clock.                   *)
LEMMA AroundStep ==
    ASSUME UartInv, HistoryInv, ClsTypes, Clock
    PROVE  /\ feed # "LINE2_DLY" => held' = held
           /\ value' = held \/ value' = "inactive"
           /\ inactive' \in BOOLEAN /\ refreshed' \in BOOLEAN
           /\ refreshed' = (refreshed \/ (feed = "LINE2_DLY" /\ feed' = "PAUSE"))
           /\ feed = "PAUSE" /\ feed' = "CLEAR_RUN" => lines' = 0
           /\ ~(feed = "PAUSE" /\ feed' = "CLEAR_RUN") => onTime' = onTime
           /\ lines = 1 => uartLine' = uartLine
           /\ lines = 0 /\ lines' = 1 => uartLine' = Text(0, value)
           /\ lines \in {0, 1}
<1>1. feed # "LINE2_DLY" => held' = held
  BY DEF Clock, p_hold_measurements, o_lcd_feed_is_idle
<1>2. value' = held \/ value' = "inactive"
  BY DEF Clock, textRegisters
<1>3. inactive' \in BOOLEAN
  BY DEF Clock
<1>4. uartFeed /\ history /\ lines \in {0, 1} /\ (lines = 1 => ufeed # "CAPT") /\ refreshed \in BOOLEAN
  BY DEF Clock, HistoryInv, ClsTypes, FeedTypes
<1>5. /\ refreshed' = (refreshed \/ (feed = "LINE2_DLY" /\ feed' = "PAUSE"))
      /\ feed = "PAUSE" /\ feed' = "CLEAR_RUN" => lines' = 0
      /\ ~(feed = "PAUSE" /\ feed' = "CLEAR_RUN") => onTime' = onTime
      /\ lines = 0 /\ lines' = 1 => ufeed = "CAPT"
  BY <1>4 DEF history
<1>6. /\ ufeed = "CAPT" => uartLine' = Text(0, value)
      /\ ufeed # "CAPT" => uartLine' = uartLine
  BY <1>4 DEF uartFeed, uartIdle, uartCapture, uartData, uartWait
<1>7. refreshed' \in BOOLEAN
  BY <1>4, <1>5
<1> QED
  BY <1>1, <1>2, <1>3, <1>4, <1>5, <1>6, <1>7

(* A clock with a clock enable, one part of the invariant at a time.       *)
LEMMA EnabledInterlock ==
    ASSUME UartInv, HistoryInv, ClsInv, Clock, EnabledClock
    PROVE  Interlock'
<1>1. ClsTypes /\ lcdFeed /\ clsDriver /\ feed \in Feeds
      /\ cls \in {"BOOT0", "IDLE", "LOAD_CLEAR", "LOAD_LINE1", "LOAD_LINE2", "CMD_RUN", "CMD_WAIT",
                 "DAT_RUN", "DAT_WAIT"}
      /\ Interlock
  BY DEF ClsInv, EnabledClock, ClsTypes, FeedTypes, DriverTypes
<1>2. refreshed' = (refreshed \/ (feed = "LINE2_DLY" /\ feed' = "PAUSE")) /\ refreshed \in BOOLEAN
  BY AroundStep DEF ClsInv, ClsTypes, FeedTypes
<1>3. CASE feed \in {"PAUSE", "CLEAR_RUN"}
  BY <1>1, <1>2, <1>3, FeedStep, DriverPath DEF Interlock, Second, Working
<1>4. CASE feed \in {"CLEAR_DLY", "CLEAR_WAIT"}
  BY <1>1, <1>2, <1>4, FeedStep, DriverPath DEF Interlock, Second, Working
<1>5. CASE feed \in {"LINE1_RUN", "LINE1_DLY", "LINE1_WAIT"}
  BY <1>1, <1>2, <1>5, FeedStep, DriverPath DEF Interlock, Second, Working
<1>6. CASE feed \in {"LINE2_RUN", "LINE2_DLY"}
  BY <1>1, <1>2, <1>6, FeedStep, DriverPath DEF Interlock, Second, Working
<1> QED
  BY <1>1, <1>3, <1>4, <1>5, <1>6 DEF Feeds

LEMMA EnabledAimed ==
    ASSUME UartInv, ClsInv, EnabledClock
    PROVE  Aimed'
<1>1. /\ clsDriver /\ Aimed /\ cmd \in {"clear", "line1", "line2"} /\ job.busy \in BOOLEAN
      /\ cls \in {"BOOT0", "IDLE", "LOAD_CLEAR", "LOAD_LINE1", "LOAD_LINE2", "CMD_RUN", "CMD_WAIT",
                 "DAT_RUN", "DAT_WAIT"}
  BY DEF ClsInv, EnabledClock, ClsTypes, DriverTypes, BusTypes
<1>2. /\ IF cls \in {"CMD_WAIT", "DAT_WAIT"} THEN FrameEffect ELSE screen' = screen /\ cursor' = cursor
      /\ cls = "CMD_RUN" /\ cls' = "CMD_WAIT" => job'.busy
  BY DriverStep DEF ClsInv, UartInv, EnabledClock
<1> QED
  BY <1>1, <1>2, DriverPath DEF Aimed, FrameEffect

LEMMA EnabledWritten ==
    ASSUME UartInv, HistoryInv, ClsInv, Clock, EnabledClock
    PROVE  Written'
<1>1. /\ ClsTypes /\ lcdFeed /\ clsDriver /\ feed \in Feeds /\ job.busy \in BOOLEAN
      /\ cls \in {"BOOT0", "IDLE", "LOAD_CLEAR", "LOAD_LINE1", "LOAD_LINE2", "CMD_RUN", "CMD_WAIT",
                 "DAT_RUN", "DAT_WAIT"}
      /\ cmd \in {"clear", "line1", "line2"} /\ screen \in [1..2 -> TextType] /\ cursor \in 1..2
      /\ Interlock /\ Aimed /\ Written
  BY DEF ClsInv, EnabledClock, ClsTypes, FeedTypes, DriverTypes, BusTypes, ScreenTypes
<1>2. refreshed' = (refreshed \/ (feed = "LINE2_DLY" /\ feed' = "PAUSE")) /\ refreshed \in BOOLEAN
  BY AroundStep DEF ClsInv, ClsTypes, FeedTypes
<1>3. /\ IF cls \in {"CMD_WAIT", "DAT_WAIT"} THEN FrameEffect ELSE screen' = screen /\ cursor' = cursor
      /\ cls = "CMD_RUN" /\ cls' = "CMD_WAIT" => job'.busy
      /\ cls = "DAT_RUN" /\ cls' = "DAT_WAIT" => job'.busy
  BY DriverStep DEF ClsInv, UartInv, EnabledClock
<1>4. /\ cls = "LOAD_LINE1" => txt'.line = 1
      /\ cls = "LOAD_LINE2" => txt'.line = 2
  BY <1>1, DriverPath DEF Text
<1>5. CASE feed \in {"PAUSE", "CLEAR_RUN", "CLEAR_DLY", "CLEAR_WAIT"} /\ ~Second
  <2>1. feed \in {"CLEAR_RUN", "CLEAR_DLY", "CLEAR_WAIT"} => feed' \in {"CLEAR_RUN", "CLEAR_DLY", "CLEAR_WAIT", "LINE1_RUN"}
    BY <1>1, FeedStep
  <2>2. feed = "PAUSE" => feed' \in {"PAUSE", "CLEAR_RUN"}
    BY <1>1, FeedStep
  <2>3. Both(NoText)[1] = NoText /\ Both(NoText)[2] = NoText
    BY DEF Both
  <2>4. feed' \in {"CLEAR_DLY", "CLEAR_WAIT"} /\ Cleared' => screen'[1] = NoText /\ screen'[2] = NoText
    BY <1>1, <1>3, <1>5, <2>1, <2>2, <2>3, FeedStep, DriverPath DEF Interlock, Written, Cleared, FrameEffect
  <2>5. feed' = "LINE1_RUN" => screen'[1] = NoText /\ screen'[2] = NoText
    BY <1>1, <1>3, <1>5, <2>1, <2>2, FeedStep DEF Written, Cleared
  <2> QED
    BY <1>2, <1>5, <2>1, <2>2, <2>4, <2>5 DEF Written, Second
<1>6. CASE feed \in {"LINE1_RUN", "LINE1_DLY", "LINE1_WAIT"}
  <2>1. feed' \in {"LINE1_RUN", "LINE1_DLY", "LINE1_WAIT", "LINE2_RUN"}
    BY <1>1, <1>6, FeedStep
  <2>2. feed' = "LINE1_RUN" => screen'[1] = NoText /\ screen'[2] = NoText
    BY <1>1, <1>3, <1>6, FeedStep DEF Interlock, Written
  <2>3. feed' \in {"LINE1_DLY", "LINE1_WAIT"}
        => txt'.line = 1 /\ screen'[2] = NoText /\ screen'[1] = IF Arrived' THEN txt' ELSE NoText
    <3>1. CASE feed = "LINE1_RUN"
      BY <1>1, <1>3, <1>4, <3>1, FeedStep, DriverPath DEF Interlock, Written, Arrived
    <3>2. CASE feed # "LINE1_RUN"
      <4>1. cmd = "line1" /\ cls \in Working \cup {"IDLE"} /\ txt.line = 1 /\ screen[2] = NoText
            /\ screen[1] = IF Arrived THEN txt ELSE NoText
        BY <1>1, <1>6, <3>2 DEF Interlock, Written
      <4>2. txt' = txt
        BY <1>1, <4>1, DriverPath DEF Working
      <4>3. cls \in {"DAT_RUN", "DAT_WAIT"} => cursor = 1
        BY <1>1, <4>1 DEF Aimed
      <4>4. CASE cls = "DAT_WAIT"
        BY <1>1, <1>3, <4>1, <4>2, <4>3, <4>4, DriverPath DEF FrameEffect, Arrived
      <4>5. CASE cls # "DAT_WAIT"
        <5>1. screen' = screen
          BY <1>3, <4>1, <4>5 DEF FrameEffect, Working
        <5>2. Arrived' <=> Arrived
          <6>1. cls' = "IDLE" <=> cls = "IDLE"
            BY <1>1, <1>6, <3>2, <4>1, <4>5, DriverPath DEF Working
          <6>2. ~(cls' = "DAT_WAIT" /\ ~job'.busy)
            BY <1>1, <1>3, <4>1, <4>5, DriverPath DEF Working
          <6> QED
            BY <4>5, <6>1, <6>2 DEF Arrived
        <5> QED
          BY <4>1, <4>2, <5>1, <5>2
      <4> QED
        BY <4>4, <4>5
    <3> QED
      BY <3>1, <3>2
  <2>4. feed' = "LINE2_RUN" => screen'[1].line = 1 /\ screen'[2] = NoText
    BY <1>1, <1>3, <1>6, FeedStep DEF Written, Arrived
  <2> QED
    BY <2>1, <2>2, <2>3, <2>4 DEF Written, Second
<1>7. CASE feed = "LINE2_RUN"
  <2>1. feed' = IF cls = "IDLE" THEN "LINE2_RUN" ELSE "LINE2_DLY"
    BY <1>1, <1>7, FeedStep
  <2>2. screen' = screen /\ screen[1].line = 1 /\ screen[2] = NoText /\ cls \in {"IDLE", "LOAD_LINE2"}
    BY <1>1, <1>3, <1>7 DEF Interlock, Written
  <2>3. cls = "LOAD_LINE2" => txt'.line = 2 /\ ~Arrived'
    BY <1>1, <1>4, DriverPath DEF Arrived
  <2> QED
    BY <2>1, <2>2, <2>3 DEF Written, Second
<1>8. CASE Second
  <2>1. cmd = "line2" /\ cls \in Working \cup {"IDLE"} /\ txt.line = 2 /\ screen[1].line = 1
        /\ screen[2] = IF Arrived THEN txt ELSE NoText
    BY <1>1, <1>8 DEF Interlock, Written
  <2>2. txt' = txt
    BY <1>1, <2>1, DriverPath DEF Working
  <2>3. cls \in {"DAT_RUN", "DAT_WAIT"} => cursor = 2
    BY <1>1, <2>1 DEF Aimed
  <2>4. screen'[1].line = 1 /\ screen'[2] = IF Arrived' THEN txt' ELSE NoText
    <3>1. CASE cls = "DAT_WAIT"
      BY <1>1, <1>3, <2>1, <2>2, <2>3, <3>1, DriverPath DEF FrameEffect, Arrived
    <3>2. CASE cls # "DAT_WAIT"
      <4>1. screen' = screen
        BY <1>3, <2>1, <3>2 DEF FrameEffect, Working
      <4>2. Arrived' <=> Arrived
        <5>1. cls' = "IDLE" <=> cls = "IDLE"
          BY <1>1, <1>8, <2>1, <3>2, DriverPath DEF Working, Second
        <5>2. ~(cls' = "DAT_WAIT" /\ ~job'.busy)
          BY <1>1, <1>3, <2>1, <3>2, DriverPath DEF Working
        <5> QED
          BY <3>2, <5>1, <5>2 DEF Arrived
      <4> QED
        BY <2>1, <2>2, <4>1, <4>2
    <3> QED
      BY <3>1, <3>2
  <2>5. feed' \in {"LINE2_DLY", "PAUSE", "CLEAR_RUN"}
    BY <1>1, <1>8, FeedStep DEF Second
  <2> QED
    BY <2>1, <2>2, <2>4, <2>5 DEF Written, Second
<1> QED
  BY <1>1, <1>5, <1>6, <1>7, <1>8 DEF Feeds, Second

(* The measurement held still: what is taken from it, and when.            *)
LEMMA EnabledStill ==
    ASSUME UartInv, HistoryInv, ClsInv, Clock, EnabledClock
    PROVE  Still'
<1>1. /\ ClsTypes /\ lcdFeed /\ clsDriver /\ feed \in Feeds
      /\ cls \in {"BOOT0", "IDLE", "LOAD_CLEAR", "LOAD_LINE1", "LOAD_LINE2", "CMD_RUN", "CMD_WAIT",
                 "DAT_RUN", "DAT_WAIT"}
      /\ cmd \in {"clear", "line1", "line2"} /\ screen \in [1..2 -> TextType] /\ cursor \in 1..2
      /\ Interlock /\ Aimed /\ Written /\ Still
  BY DEF ClsInv, EnabledClock, ClsTypes, FeedTypes, DriverTypes, BusTypes, ScreenTypes
<1>2. /\ feed # "LINE2_DLY" => held' = held
      /\ value' = held \/ value' = "inactive"
      /\ refreshed' = (refreshed \/ (feed = "LINE2_DLY" /\ feed' = "PAUSE"))
      /\ feed = "PAUSE" /\ feed' = "CLEAR_RUN" => lines' = 0
      /\ ~(feed = "PAUSE" /\ feed' = "CLEAR_RUN") => onTime' = onTime
      /\ lines = 1 => uartLine' = uartLine
      /\ lines = 0 /\ lines' = 1 => uartLine'.value = value
      /\ lines \in {0, 1} /\ refreshed \in BOOLEAN
  BY <1>1, AroundStep DEF Text, ClsInv, ClsTypes, FeedTypes
<1>3. onTime /\ feed \notin {"CLEAR_RUN", "CLEAR_DLY"} => lines = 1
  BY <1>2 DEF HistoryInv
<1>4. IF cls \in {"CMD_WAIT", "DAT_WAIT"} THEN FrameEffect ELSE screen' = screen /\ cursor' = cursor
  BY DriverStep DEF ClsInv, UartInv, EnabledClock
<1>5. feed' \in Writing => feed \in Writing \cup {"PAUSE"} /\ held' = held
  BY <1>1, <1>2, FeedStep DEF Writing, Feeds
<1>6. feed' \in Writing => Fresh(value)'
  BY <1>2, <1>5 DEF Fresh
<1>7. feed' \in {"LINE1_DLY", "LINE1_WAIT"} => Fresh(txt.value)'
  <2>1. CASE feed = "LINE1_RUN"
    <3>1. feed' # "LINE1_RUN" => txt'.value = value
      BY <1>1, <2>1, FeedStep, DriverPath DEF Interlock, Text
    <3>2. Fresh(value) /\ held' = held
      BY <1>1, <1>2, <2>1 DEF Still, Writing
    <3> QED
      BY <3>1, <3>2 DEF Fresh
  <2>2. CASE feed \in {"LINE1_DLY", "LINE1_WAIT"}
    <3>1. txt' = txt /\ held' = held
      BY <1>1, <1>2, <2>2, DriverPath DEF Interlock, Working
    <3> QED
      BY <1>1, <2>2, <3>1 DEF Still, Fresh
  <2>3. feed' \in {"LINE1_DLY", "LINE1_WAIT"} => feed \in {"LINE1_RUN", "LINE1_DLY", "LINE1_WAIT"}
    BY <1>1, FeedStep DEF Feeds
  <2> QED
    BY <2>1, <2>2, <2>3
<1>8. feed' = "LINE2_RUN" => Fresh(screen[1].value)'
  <2>1. CASE feed = "LINE1_WAIT" /\ cls = "IDLE"
    BY <1>1, <1>2, <1>4, <2>1 DEF Written, Arrived, Still, Fresh
  <2>2. CASE feed = "LINE2_RUN"
    <3>1. screen' = screen /\ held' = held
      BY <1>1, <1>2, <1>4, <2>2 DEF Interlock
    <3> QED
      BY <1>1, <2>2, <3>1 DEF Still, Fresh
  <2>3. feed' = "LINE2_RUN" => (feed = "LINE1_WAIT" /\ cls = "IDLE") \/ feed = "LINE2_RUN"
    BY <1>1, FeedStep DEF Feeds
  <2> QED
    BY <2>1, <2>2, <2>3
<1>9. feed' \in Writing /\ onTime' /\ lines' = 1 => Fresh(uartLine.value)'
  <2> SUFFICES ASSUME feed' \in Writing, onTime', lines' = 1 PROVE Fresh(uartLine.value)'
    OBVIOUS
  <2>1. feed \in Writing /\ held' = held /\ onTime
    <3>1. feed = "PAUSE" => feed' = "CLEAR_RUN"
      BY <1>1, FeedStep DEF Writing
    <3>2. feed # "PAUSE"
      BY <1>2, <3>1
    <3>3. feed \in Writing /\ held' = held
      BY <1>5, <3>2
    <3>4. onTime' = onTime
      BY <1>2, <3>2
    <3> QED
      BY <3>3, <3>4
  <2>2. CASE lines = 1
    BY <1>1, <1>2, <2>1, <2>2 DEF Still, Fresh
  <2>3. CASE lines = 0
    BY <1>1, <1>2, <2>1, <2>3 DEF Still, Fresh
  <2> QED
    BY <1>2, <2>2, <2>3
<1>10. CASE Second'
  <2>1. (feed = "LINE2_RUN" /\ cls = "LOAD_LINE2") \/ Second
    BY <1>1, <1>2, <1>10, FeedStep DEF Second, Feeds, Interlock
  <2>2. onTime' = onTime /\ (onTime => lines = 1 /\ uartLine' = uartLine)
    BY <1>2, <1>3, <1>10, <2>1 DEF Second
  <2>3. CASE feed = "LINE2_RUN" /\ cls = "LOAD_LINE2"
    <3>1. screen' = screen /\ txt'.value = value
      BY <1>1, <1>4, <2>3, DriverPath DEF Text
    <3>2. Fresh(value) /\ Fresh(screen[1].value) /\ (onTime => Fresh(uartLine.value))
      BY <1>1, <2>2, <2>3 DEF Still, Writing
    <3>3. /\ Agree(screen[1].value, txt.value)'
          /\ onTime' => Agree(uartLine.value, screen[1].value)' /\ Agree(uartLine.value, txt.value)'
      BY <2>2, <3>1, <3>2 DEF Fresh, Agree
    <3> QED
      BY <1>6, <1>7, <1>8, <1>9, <3>3 DEF Still
  <2>4. CASE Second
    <3>1. txt' = txt /\ cmd = "line2" /\ cls \in Working \cup {"IDLE"}
      BY <1>1, <2>4, DriverPath DEF Interlock, Working
    <3>2. cls = "DAT_WAIT" => cursor = 2
      BY <1>1, <3>1 DEF Aimed
    <3>3. screen'[1] = screen[1]
      BY <1>1, <1>4, <3>1, <3>2 DEF FrameEffect, Working
    <3>4. /\ Agree(screen[1].value, txt.value)'
          /\ onTime' => Agree(uartLine.value, screen[1].value)' /\ Agree(uartLine.value, txt.value)'
      BY <1>1, <2>2, <2>4, <3>1, <3>3 DEF Still, Agree
    <3> QED
      BY <1>6, <1>7, <1>8, <1>9, <3>4 DEF Still
  <2> QED
    BY <2>1, <2>3, <2>4
<1>11. CASE ~Second'
  BY <1>6, <1>7, <1>8, <1>9, <1>11 DEF Still
<1> QED
  BY <1>10, <1>11

LEMMA EnabledCls ==
    ASSUME UartInv, HistoryInv, ClsInv, Clock, EnabledClock
    PROVE  ClsInv'
<1>1. DriverTypes' /\ BusTypes' /\ ScreenTypes' /\ Transfers'
  BY DriverStep DEF ClsInv, UartInv, EnabledClock
<1>2. FeedTypes'
  <2>1. feed' \in Feeds /\ timer' \in 0..SubSecond
    BY FeedKeepsTypes DEF ClsInv, EnabledClock
  <2>2. inactive' \in BOOLEAN /\ refreshed' \in BOOLEAN
    BY AroundStep DEF ClsInv
  <2> QED
    BY <2>1, <2>2 DEF FeedTypes
<1> QED
  BY <1>1, <1>2, EnabledInterlock, EnabledAimed, EnabledWritten, EnabledStill DEF ClsInv, ClsTypes

-----------------------------------------------------------------------------
(* A clock without a clock enable, and the other steps.                    *)
LEMMA SameCls ==
    ASSUME ClsInv, UNCHANGED <<inactive, refreshed, feedVars, clsVars, spiVars, screen, cursor>>
    PROVE  /\ ClsTypes' /\ ScreenTypes' /\ Transfers' /\ Interlock' /\ Aimed' /\ Written'
<1>1. /\ inactive' = inactive /\ refreshed' = refreshed /\ feed' = feed /\ timer' = timer
      /\ cls' = cls /\ bootTimer' = bootTimer /\ cmd' = cmd /\ cmdLen' = cmdLen /\ txt' = txt
      /\ datLen' = datLen /\ txFifo' = txFifo /\ job' = job /\ frame' = frame
      /\ screen' = screen /\ cursor' = cursor
  BY DEF feedVars, clsVars, spiVars
<1> QED
  BY <1>1 DEF ClsInv, ClsTypes, FeedTypes, DriverTypes, BusTypes, ScreenTypes, Transfers, Queued, Underway,
              CmdLen, Interlock, Second, Aimed, Written, Cleared, Arrived

LEMMA SlowClock ==
    ASSUME UartInv, HistoryInv, ClsInv, Clock, UNCHANGED <<feedVars, clsVars, spiVars, screen, cursor>>
    PROVE  ClsInv'
<1>1. /\ feed' = feed /\ cls' = cls /\ txt' = txt /\ screen' = screen
      /\ refreshed \in BOOLEAN /\ inactive \in BOOLEAN /\ Still
  BY DEF feedVars, clsVars, ClsInv, ClsTypes, FeedTypes
<1>2. /\ feed # "LINE2_DLY" => held' = held
      /\ value' = held \/ value' = "inactive"
      /\ inactive' \in BOOLEAN /\ refreshed' = refreshed
      /\ onTime' = onTime
      /\ lines = 1 => uartLine' = uartLine
      /\ lines = 0 /\ lines' = 1 => uartLine'.value = value
      /\ lines \in {0, 1}
  BY <1>1, AroundStep DEF Text, ClsInv
<1>3. ClsTypes' /\ ScreenTypes' /\ Transfers' /\ Interlock' /\ Aimed' /\ Written'
  <2>1. /\ feed' = feed /\ timer' = timer
        /\ cls' = cls /\ bootTimer' = bootTimer /\ cmd' = cmd /\ cmdLen' = cmdLen /\ txt' = txt
        /\ datLen' = datLen /\ txFifo' = txFifo /\ job' = job /\ frame' = frame
        /\ screen' = screen /\ cursor' = cursor
    BY DEF feedVars, clsVars, spiVars
  <2> QED
    BY <1>2, <2>1 DEF ClsInv, ClsTypes, FeedTypes, DriverTypes, BusTypes, ScreenTypes, Transfers, Queued,
                      Underway, CmdLen, Interlock, Second, Aimed, Written, Cleared, Arrived
<1>4. Still'
  <2>1. feed \in Writing => held' = held /\ Fresh(value)'
    BY <1>2 DEF Writing, Fresh
  <2>2. feed \in Writing /\ onTime /\ lines' = 1 => Fresh(uartLine.value)'
    <3>1. CASE lines = 1
      BY <1>1, <1>2, <2>1, <3>1 DEF Still, Fresh
    <3>2. CASE lines = 0
      BY <1>1, <1>2, <2>1, <3>2 DEF Still, Fresh
    <3> QED
      BY <1>2, <3>1, <3>2
  <2>3. Second /\ onTime => lines = 1
    BY <1>2 DEF HistoryInv, Second
  <2>4. Second' <=> Second
    BY <1>1, <1>2 DEF Second
  <2>5. /\ feed \in {"LINE1_DLY", "LINE1_WAIT"} => Fresh(txt.value)'
        /\ feed = "LINE2_RUN" => Fresh(screen[1].value)'
    BY <1>1, <2>1 DEF Still, Fresh, Writing
  <2>6. /\ Second => Agree(screen[1].value, txt.value)'
        /\ Second /\ onTime => Agree(uartLine.value, screen[1].value)' /\ Agree(uartLine.value, txt.value)'
    BY <1>1, <1>2, <2>3 DEF Still, Agree
  <2> QED
    BY <1>1, <1>2, <2>1, <2>2, <2>4, <2>5, <2>6 DEF Still
<1> QED
  BY <1>3, <1>4 DEF ClsInv

LEMMA OtherSteps ==
    ASSUME UartInv, ClsInv, uartTransmit \/ UNCHANGED vars
    PROVE  ClsInv'
<1>1. UNCHANGED <<topVars, feedVars, clsVars, spiVars, uartVars, screen, cursor, onTime, lines, refreshed>>
  BY DEF uartTransmit, vars
<1>2. /\ held' = held /\ value' = value /\ inactive' = inactive /\ refreshed' = refreshed
      /\ feed' = feed /\ txt' = txt /\ screen' = screen
      /\ onTime' = onTime /\ lines' = lines /\ uartLine' = uartLine
  BY <1>1 DEF topVars, feedVars, clsVars, uartVars
<1>3. Still'
  BY <1>2 DEF ClsInv, Still, Second, Fresh, Agree
<1> QED
  BY <1>1, <1>2, <1>3, SameCls DEF ClsInv

LEMMA ClsStep == UartInv /\ HistoryInv /\ ClsInv /\ [Next]_vars => ClsInv'
<1> SUFFICES ASSUME UartInv, HistoryInv, ClsInv, [Next]_vars PROVE ClsInv'
  OBVIOUS
<1>1. CASE Clock
  <2>1. CASE EnabledClock
    BY <1>1, <2>1, EnabledCls
  <2>2. CASE UNCHANGED <<feedVars, clsVars, spiVars, screen, cursor>>
    BY <1>1, <2>2, SlowClock
  <2> QED
    BY <1>1, <2>1, <2>2 DEF Clock, EnabledClock
<1>2. CASE Reset
  BY <1>2, ResetCls
<1>3. CASE uartTransmit \/ UNCHANGED vars
  BY <1>3, OtherSteps
<1> QED
  BY <1>1, <1>2, <1>3 DEF Next

(* The invariant of the way to the Pmod CLS, with those of the way to the  *)
(* terminal.                                                               *)
THEOREM ClsInvariance == Spec => [](UartInv /\ HistoryInv /\ ClsInv)
<1>1. Init => ClsInv
  BY InitCls
<1>2. UartInv /\ HistoryInv /\ ClsInv /\ [Next]_vars => ClsInv'
  BY ClsStep
<1> QED
  BY <1>1, <1>2, UartInvariance, HistoryInvariance, PTL DEF Spec

-----------------------------------------------------------------------------
(* Every register of the display logic stays in its range for every length *)
(* of its delays and queues: no timer, no byte count and no queue of       *)
(* lcd_text_feed, pmod_cls_stand_spi_solo and uart_tx_feed overflows.      *)
THEOREM RegistersInRange == Spec => []TypeOK
<1>1. UartInv /\ HistoryInv /\ ClsInv => TypeOK
  <2> SUFFICES ASSUME UartInv, HistoryInv, ClsInv PROVE TypeOK
    OBVIOUS
  <2>1. /\ held \in Values \cup {"zero"} /\ value \in Values \cup {"zero", "inactive"}
        /\ ufeed \in {"IDLE", "CAPT", "DATA", "WAIT"} /\ k \in 0..LineLength /\ uartLine \in TextType
        /\ Len(fifo) <= UartDepth /\ Len(typed) < LineLength
    BY DEF UartInv, UartTypes, Roomy, Begun
  <2>2. onTime \in BOOLEAN /\ lines \in 0..2
    BY DEF HistoryInv
  <2>3. FeedTypes /\ DriverTypes /\ ScreenTypes
    BY DEF ClsInv, ClsTypes
  <2> QED
    BY <2>1, <2>2, <2>3 DEF TypeOK, FeedTypes, DriverTypes, ScreenTypes
<1> QED
  BY <1>1, ClsInvariance, PTL

(* From the clearing on the Pmod CLS shows on each line only a whole text  *)
(* of that line, however long the commands and the texts are and whenever  *)
(* a reset cuts a frame off: commands and texts never meet on the bus.     *)
THEOREM FramesStayWhole == Spec => []FramesWhole
<1>1. ClsInv => FramesWhole
  <2> SUFFICES ASSUME ClsInv,
                      feed \in {"LINE1_RUN", "LINE1_DLY", "LINE1_WAIT", "LINE2_RUN", "LINE2_DLY"},
                      NEW n \in 1..2
               PROVE  screen[n] = NoText \/ screen[n].line = n
    BY DEF FramesWhole
  <2> QED
    BY DEF ClsInv, Written, Second
<1> QED
  BY <1>1, ClsInvariance, PTL

(* Between two refreshes the two lines of the display and the line on the  *)
(* terminal are of one measurement, for any measurements and any delays:   *)
(* the hold of p_hold_measurements lasts from the first latching to the    *)
(* last.                                                                   *)
THEOREM OneMeasurementIsShown == Spec => []OneMeasurement
<1>1. ClsInv => OneMeasurement
  <2> SUFFICES ASSUME ClsInv, refreshed, feed = "PAUSE", o_command_ready,
                      NEW u \in ({screen[1].value, screen[2].value} \cup
                                 (IF onTime THEN {uartLine.value} ELSE {})) \ {"inactive"},
                      NEW v \in ({screen[1].value, screen[2].value} \cup
                                 (IF onTime THEN {uartLine.value} ELSE {})) \ {"inactive"}
               PROVE  u = v
    BY DEF OneMeasurement
  <2>1. Second /\ Arrived /\ Written /\ Still
    BY DEF ClsInv, Second, Arrived, o_command_ready
  <2>2. screen[2] = txt
    BY <2>1 DEF Written
  <2>3. /\ Agree(screen[1].value, screen[2].value)
        /\ onTime => /\ Agree(uartLine.value, screen[1].value)
                     /\ Agree(uartLine.value, screen[2].value)
    BY <2>1, <2>2 DEF Still
  <2> QED
    BY <2>3 DEF Agree
<1> QED
  BY <1>1, ClsInvariance, PTL
=============================================================================
