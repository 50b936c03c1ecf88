------------------------------ MODULE Display ------------------------------
(***************************************************************************)
(* From a measurement to the Pmod CLS and the terminal in the hardware     *)
(* designs: the register that holds the measurement on display and the     *)
(* text registers (top level), the refresh FSM (lcd_text_feed), the driver *)
(* of the Pmod CLS (pmod_cls_stand_spi_solo) over an SPI master as in      *)
(* StandSpi, and the feed and the queue of the UART (uart_tx_feed,         *)
(* uart_tx_only).                                                          *)
(*                                                                         *)
(* A step Clock is one clock of 20 MHz.  The refresh FSM, the driver and   *)
(* the SPI master move only in the clocks with a clock enable ce, every    *)
(* eighth one in the code and any of them here.  The transmitter has a     *)
(* clock of its own.                                                       *)
(*                                                                         *)
(* A text is the line it is for and the value it was made from; its format *)
(* and its wording are left out.                                           *)
(***************************************************************************)
EXTENDS StandSpi

CONSTANTS Values,        \* measurements
          OneMs,         \* clock enables of a delay, 2500 in the code
          SubSecond,     \* of the pause between two refreshes, 495000 in the code
          BootTime,      \* of BOOT0, 2000000 in the code
          ClearLen,      \* bytes of the clear command, 4 in the code
          CursorLen,     \* of the cursor command, 7 in the code
          TextLen,       \* of a line, 16 in the code
          AlmostFull,    \* UART queue: ready below this number of bytes
          UartDepth      \* its depth, 2048 in the code

LineLength == 2 * TextLen + 2    \* parm_ascii_line_length: both lines, CR, LF

ASSUME DisplayAssumption ==
    /\ OneMs \in Nat \ {0} /\ SubSecond \in Nat \ {0} /\ OneMs <= SubSecond
    /\ BootTime \in Nat \ {0}
    /\ {ClearLen, CursorLen, TextLen} \subseteq Nat \ {0}
    /\ AlmostFull \in Nat \ {0} /\ UartDepth \in Nat /\ AlmostFull + LineLength <= UartDepth + 1

VARIABLES held, inactive, value,                     \* top level
          feed, timer,                               \* refresh FSM
          cls, bootTimer, cmd, cmdLen, txt, datLen,  \* driver of the Pmod CLS
          ufeed, k, uartLine, fifo,                  \* UART feed and queue
          screen, cursor, typed,                     \* Pmod CLS, and what was sent to the terminal
          onTime, lines, refreshed                   \* history, see below

topVars  == <<held, inactive, value>>
feedVars == <<feed, timer>>
clsVars  == <<cls, bootTimer, cmd, cmdLen, txt, datLen>>
uartVars == <<ufeed, k, uartLine>>
vars == <<topVars, feedVars, clsVars, spiVars, uartVars, fifo, screen, cursor, typed,
          onTime, lines, refreshed>>

Text(line, v) == [line |-> line, value |-> v]
NoText == Text(0, "none")
Byte(of, n, text) == [of |-> of, n |-> n, text |-> text]

(* The bytes of a command or of a text, counted down.                      *)
Bytes(of, n, text) == [i \in 1..n |-> Byte(of, n + 1 - i, text)]

-----------------------------------------------------------------------------
(* Outputs of the refresh FSM and of the driver.                           *)

o_lcd_wr_clear_display == feed = "CLEAR_RUN"
o_lcd_wr_text_line1    == feed = "LINE1_RUN"
o_lcd_wr_text_line2    == feed = "LINE2_RUN"
o_lcd_feed_is_idle     == feed = "LINE2_DLY"
o_command_ready        == cls = "IDLE"

-----------------------------------------------------------------------------
(* The top level.                                                          *)

(* Mutant: the measurement is taken at any time.                           *)
HoldAlways(valid, final) == held' = IF valid THEN final ELSE held

p_hold_measurements(valid, final) ==
    held' = IF valid /\ o_lcd_feed_is_idle THEN final ELSE held

(* Both text registers: what they show is computed from the held           *)
(* measurement, or is a line of dashes while the tester is inactive.       *)
textRegisters == value' = IF inactive THEN "inactive" ELSE held

-----------------------------------------------------------------------------
(* The refresh FSM.                                                        *)

Following == [PAUSE     |-> "CLEAR_RUN",
              CLEAR_RUN |-> "CLEAR_DLY", CLEAR_DLY |-> "CLEAR_WAIT", CLEAR_WAIT |-> "LINE1_RUN",
              LINE1_RUN |-> "LINE1_DLY", LINE1_DLY |-> "LINE1_WAIT", LINE1_WAIT |-> "LINE2_RUN",
              LINE2_RUN |-> "LINE2_DLY", LINE2_DLY |-> "PAUSE"]

feedMoves ==
    \/ feed \in {"PAUSE", "CLEAR_WAIT", "LINE1_WAIT"} /\ o_command_ready
    \/ feed \in {"CLEAR_RUN", "LINE1_RUN", "LINE2_RUN"} /\ ~o_command_ready
    \/ feed \in {"CLEAR_DLY", "LINE1_DLY"} /\ timer = OneMs - 1
    \/ feed = "LINE2_DLY" /\ timer = SubSecond - 1

nxFeed == IF feedMoves THEN Following[feed] ELSE feed

(* Mutant: the timer starts at zero only in the pause.                     *)
TimerKept == /\ feed' = nxFeed
             /\ timer' = IF nxFeed = "PAUSE" THEN 0 ELSE IF timer < SubSecond THEN timer + 1 ELSE timer

(* Mutant: the timer runs past its range.                                  *)
TimerRuns == /\ feed' = nxFeed
             /\ timer' = IF nxFeed # feed THEN 0 ELSE IF timer <= SubSecond THEN timer + 1 ELSE timer

lcdFeed == /\ feed' = nxFeed
           /\ timer' = IF nxFeed # feed THEN 0 ELSE IF timer < SubSecond THEN timer + 1 ELSE timer

-----------------------------------------------------------------------------
(* The driver of the Pmod CLS.  The TX queue of 2048 bytes is never full.  *)

o_tx_enqueue == IF cls = "CMD_RUN" THEN <<Byte(cmd, cmdLen, NoText)>>
                ELSE IF cls = "DAT_RUN" THEN <<Byte("text", datLen, txt)>> ELSE << >>

CmdLen(c) == IF c = "clear" THEN ClearLen ELSE CursorLen

o_go_stand == IF cls = "CMD_RUN" /\ cmdLen <= 1 THEN Transfer(CmdLen(cmd), 0)
              ELSE IF cls = "DAT_RUN" /\ datLen <= 1 THEN Transfer(TextLen, 0) ELSE NoJob

clsBoot == /\ cls = "BOOT0"
           /\ IF bootTimer = BootTime - 1 THEN cls' = "IDLE" /\ bootTimer' = 0
              ELSE bootTimer' = bootTimer + 1 /\ UNCHANGED cls
           /\ UNCHANGED <<cmd, cmdLen, txt, datLen>>

clsIdle == /\ cls = "IDLE"
           /\ cls' = IF o_lcd_wr_clear_display THEN "LOAD_CLEAR"
                     ELSE IF o_lcd_wr_text_line1 THEN "LOAD_LINE1"
                     ELSE IF o_lcd_wr_text_line2 THEN "LOAD_LINE2" ELSE "IDLE"
           /\ UNCHANGED <<bootTimer, cmd, cmdLen, txt, datLen>>

clsLoad(state, c, text, len) ==
    /\ cls = state /\ cls' = "CMD_RUN"
    /\ cmd' = c /\ cmdLen' = CmdLen(c)
    /\ txt' = text /\ datLen' = len
    /\ UNCHANGED bootTimer

clsRunCommand == /\ cls = "CMD_RUN"
                 /\ cls' = IF cmdLen <= 1 THEN "CMD_WAIT" ELSE "CMD_RUN"
                 /\ cmdLen' = cmdLen - 1
                 /\ UNCHANGED <<bootTimer, cmd, txt, datLen>>

(* Mutant: the text follows the command without waiting for the bus.       *)
NoWaitForCommand == /\ cls = "CMD_WAIT"
                    /\ cls' = IF cmd # "clear" THEN "DAT_RUN" ELSE "IDLE"
                    /\ UNCHANGED <<bootTimer, cmd, cmdLen, txt, datLen>>

clsAwaitCommand == /\ cls = "CMD_WAIT"
                   /\ cls' = IF ~o_spi_idle THEN "CMD_WAIT"
                             ELSE IF cmd # "clear" THEN "DAT_RUN" ELSE "IDLE"
                   /\ UNCHANGED <<bootTimer, cmd, cmdLen, txt, datLen>>

clsRunText == /\ cls = "DAT_RUN"
              /\ cls' = IF datLen <= 1 THEN "DAT_WAIT" ELSE "DAT_RUN"
              /\ datLen' = datLen - 1
              /\ UNCHANGED <<bootTimer, cmd, cmdLen, txt>>

clsAwaitText == /\ cls = "DAT_WAIT"
                /\ cls' = IF o_spi_idle THEN "IDLE" ELSE "DAT_WAIT"
                /\ UNCHANGED <<bootTimer, cmd, cmdLen, txt, datLen>>

clsDriver == \/ clsBoot \/ clsIdle
             \/ clsLoad("LOAD_CLEAR", "clear", NoText, 0)
             \/ clsLoad("LOAD_LINE1", "line1", Text(1, value), TextLen)
             \/ clsLoad("LOAD_LINE2", "line2", Text(2, value), TextLen)
             \/ clsRunCommand \/ clsAwaitCommand \/ clsRunText \/ clsAwaitText

-----------------------------------------------------------------------------
(* The Pmod CLS (external) does what a frame says; a frame that is none of *)
(* the three garbles it.                                                   *)

Both(text) == <<text, text>>

AfterFrame ==
    \/ /\ frame = Bytes("clear", ClearLen, NoText)
       /\ screen' = Both(NoText) /\ UNCHANGED cursor
    \/ \E n \in 1..2 :
          /\ frame = Bytes(<<"line1", "line2">>[n], CursorLen, NoText)
          /\ cursor' = n /\ UNCHANGED screen
    \/ /\ frame = Bytes("text", TextLen, frame[1].text)
       /\ screen' = [screen EXCEPT ![cursor] = frame[1].text] /\ UNCHANGED cursor
    \/ /\ frame \notin {Bytes("clear", ClearLen, NoText), Bytes("line1", CursorLen, NoText),
                        Bytes("line2", CursorLen, NoText), Bytes("text", TextLen, frame[1].text)}
       /\ screen' = Both(Text(0, "garbled")) /\ UNCHANGED cursor

BusHold  == SpiHold(o_tx_enqueue, o_go_stand, FALSE) /\ UNCHANGED <<screen, cursor>>
BusSend  == SpiSend(o_tx_enqueue, FALSE) /\ UNCHANGED <<screen, cursor>>
BusStop  == SpiStop(o_tx_enqueue, FALSE) /\ AfterFrame
BusMoves == BusSend \/ BusStop

-----------------------------------------------------------------------------
(* The feed of the UART and its queue.                                     *)

i_tx_go == o_lcd_wr_clear_display

(* Mutant: the queue is ready until it is full.                            *)
ReadyUntilFull == Len(fifo) < UartDepth

o_tx_ready == Len(fifo) < AlmostFull

uartIdle == /\ ufeed = "IDLE"
            /\ ufeed' = IF i_tx_go THEN "CAPT" ELSE "IDLE"
            /\ UNCHANGED <<k, uartLine, fifo>>

uartCapture == /\ ufeed = "CAPT"
               /\ ufeed' = IF o_tx_ready THEN "DATA" ELSE "CAPT"
               /\ k' = LineLength /\ uartLine' = Text(0, value)
               /\ UNCHANGED fifo

uartData == /\ ufeed = "DATA"
            /\ ufeed' = IF k = 1 THEN "WAIT" ELSE "DATA"
            /\ k' = k - 1
            /\ fifo' = IF Len(fifo) < UartDepth THEN Append(fifo, Byte("uart", k, uartLine)) ELSE fifo
            /\ UNCHANGED uartLine

(* Mutant: the end of the go is not awaited.                               *)
GoNotAwaited == /\ ufeed = "WAIT" /\ ufeed' = "IDLE"
                /\ UNCHANGED <<k, uartLine, fifo>>

uartWait == /\ ufeed = "WAIT"
            /\ ufeed' = IF i_tx_go THEN "WAIT" ELSE "IDLE"
            /\ UNCHANGED <<k, uartLine, fifo>>

uartFeed == uartIdle \/ uartCapture \/ uartData \/ uartWait

(* The transmitter takes a byte of the queue for each start bit and sends  *)
(* it.  After the last byte of a line the record of what was sent begins   *)
(* anew.                                                                   *)
uartTransmit ==
    /\ fifo # << >> /\ fifo' = Tail(fifo)
    /\ typed' = IF Head(fifo).n = 1 THEN << >> ELSE Append(typed, Head(fifo))
    /\ UNCHANGED <<topVars, feedVars, clsVars, spiVars, uartVars, screen, cursor,
                   onTime, lines, refreshed>>

-----------------------------------------------------------------------------
(* History: was the UART idle when this refresh began, how many lines (at  *)
(* most two are counted) did its feed begin, and has a refresh been        *)
(* completed since the logic was reset.                                    *)
history ==
    /\ IF feed = "PAUSE" /\ feed' = "CLEAR_RUN"
       THEN onTime' = (ufeed = "IDLE" /\ o_tx_ready) /\ lines' = 0
       ELSE /\ UNCHANGED onTime
            /\ lines' = IF ufeed = "CAPT" /\ ufeed' = "DATA" /\ lines < 2 THEN lines + 1 ELSE lines
    /\ refreshed' = (refreshed \/ (feed = "LINE2_DLY" /\ feed' = "PAUSE"))

Init ==
    /\ held = "zero" /\ inactive = TRUE /\ value = "zero"
    /\ feed = "PAUSE" /\ timer = 0
    /\ cls = "BOOT0" /\ bootTimer = 0 /\ cmd = "clear" /\ cmdLen = 0 /\ txt = NoText /\ datLen = 0
    /\ SpiInit
    /\ ufeed = "IDLE" /\ k = 0 /\ uartLine = NoText /\ fifo = << >>
    /\ screen = Both(NoText) /\ cursor = 1 /\ typed = << >>
    /\ onTime = FALSE /\ lines = 1 /\ refreshed = FALSE

(* A measurement may be completed in any clock, and the tester may become  *)
(* active or inactive.                                                     *)
Clock ==
    /\ \E final \in Values, valid \in BOOLEAN : p_hold_measurements(valid, final)
    /\ inactive' \in BOOLEAN /\ textRegisters
    /\ \/ lcdFeed /\ clsDriver /\ (BusHold \/ BusMoves)
       \/ UNCHANGED <<feedVars, clsVars, spiVars, screen, cursor>>
    /\ uartFeed /\ history /\ UNCHANGED typed

(* The reset button resets the logic, but not the text registers.  A frame *)
(* is cut off, and the display takes what it got of it for what it is.     *)
(* The record of the line being sent begins anew: the transmitter stops in *)
(* the middle of it, and the next line follows on the terminal.            *)
Reset ==
    /\ held' = "zero" /\ inactive' = TRUE /\ textRegisters
    /\ feed' = "PAUSE" /\ timer' = 0
    /\ cls' = "BOOT0" /\ bootTimer' = 0
    /\ cmd' = "clear" /\ cmdLen' = 0 /\ txt' = NoText /\ datLen' = 0
    /\ SpiReset
    /\ ufeed' = "IDLE" /\ k' = 0 /\ uartLine' = NoText /\ fifo' = << >>
    /\ IF job.busy /\ frame # << >> THEN AfterFrame ELSE UNCHANGED <<screen, cursor>>
    /\ typed' = << >>
    /\ onTime' = FALSE /\ lines' = 1 /\ refreshed' = FALSE

Next == Clock \/ uartTransmit \/ Reset

Spec == Init /\ [][Next]_vars

(* The clocks run: the state machines take the steps they have, transfers  *)
(* and the transmitter go on.  Nothing is assumed of the measurements.     *)
FairSpec == /\ Spec
            /\ WF_<<feedVars, clsVars>>(Clock)
            /\ WF_uartVars(Clock)
            /\ WF_vars(BusMoves /\ Clock)
            /\ WF_vars(uartTransmit)

-----------------------------------------------------------------------------
(* Properties.                                                             *)

TextType == [line : 0..2, value : Values \cup {"none", "zero", "inactive", "garbled"}]
Feeds == {"PAUSE", "CLEAR_RUN", "CLEAR_DLY", "CLEAR_WAIT", "LINE1_RUN", "LINE1_DLY", "LINE1_WAIT",
          "LINE2_RUN", "LINE2_DLY"}

(* Every register stays in its range: the timer stops at its maximum.      *)
TypeOK ==
    /\ held \in Values \cup {"zero"} /\ inactive \in BOOLEAN
    /\ value \in Values \cup {"zero", "inactive"}
    /\ feed \in Feeds /\ timer \in 0..SubSecond
    /\ cls \in {"BOOT0", "IDLE", "LOAD_CLEAR", "LOAD_LINE1", "LOAD_LINE2", "CMD_RUN", "CMD_WAIT",
                 "DAT_RUN", "DAT_WAIT"}
    /\ bootTimer \in 0..BootTime - 1 /\ cmd \in {"clear", "line1", "line2"}
    /\ cmdLen \in 0..CmdLen(cmd) /\ datLen \in 0..TextLen /\ txt \in TextType
    /\ ufeed \in {"IDLE", "CAPT", "DATA", "WAIT"} /\ k \in 0..LineLength /\ uartLine \in TextType
    /\ Len(fifo) <= UartDepth /\ Len(typed) < LineLength
    /\ screen \in [1..2 -> TextType] /\ cursor \in 1..2
    /\ onTime \in BOOLEAN /\ lines \in 0..2 /\ refreshed \in BOOLEAN

(* Between two refreshes both lines of the display and the line on the     *)
(* terminal, if the UART was ready for it, show the same measurement,      *)
(* though each was taken at another moment and measurements come at any    *)
(* time (p_hold_measurements, the latching of the lines in LOAD_LINE1 and  *)
(* LOAD_LINE2 and in ST_UARTFEED_CAPT).  Lines of dashes are left out: the *)
(* tester may become inactive in the middle of a refresh.                  *)
OneMeasurement ==
    refreshed /\ feed = "PAUSE" /\ o_command_ready
    => LET shown == {screen[1].value, screen[2].value} \cup (IF onTime THEN {uartLine.value} ELSE {})
       IN  \A u, v \in shown \ {"inactive"} : u = v

(* From the clearing on, the Pmod CLS gets whole commands and whole texts  *)
(* of one line, each text for the line the cursor is at: no command starts *)
(* while the bytes of another are on the bus (ST_CLS_CMD_WAIT,             *)
(* ST_CLS_DAT_WAIT), and what a reset cut off is wiped away.               *)
FramesWhole ==
    feed \in {"LINE1_RUN", "LINE1_DLY", "LINE1_WAIT", "LINE2_RUN", "LINE2_DLY"}
    => \A n \in 1..2 : screen[n] = NoText \/ screen[n].line = n

(* What was sent to the terminal since the end of a line, or since a       *)
(* reset, is the beginning of one line, nothing lost and nothing of        *)
(* another line in it, however slow the transmitter is (ST_UARTFEED_CAPT   *)
(* waits for the queue).                                                   *)
LineWhole == typed = [i \in 1..Len(typed) |-> Byte("uart", LineLength + 1 - i, typed[1].text)]

(* One line per refresh: the feed takes the level of the clear command for *)
(* one go, and takes it whenever the UART was ready at its beginning.      *)
OneLinePerRefresh ==
    [][/\ lines' <= 1
       /\ feed = "PAUSE" /\ feed' = "CLEAR_RUN" /\ onTime => lines = 1]_vars

(* Refreshes go on for ever, and each shows on both lines the measurement  *)
(* that was held when it began, unless the tester is inactive or the logic *)
(* is reset.                                                               *)
KeepsShowing ==
    /\ []<>(feed = "PAUSE")
    /\ \A v \in Values :
          feed = "PAUSE" /\ held = v
          ~> inactive \/ cls = "BOOT0" \/ (screen[1].value = v /\ screen[2].value = v)
=============================================================================
