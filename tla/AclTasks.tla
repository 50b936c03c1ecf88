----------------------------- MODULE AclTasks -----------------------------
(***************************************************************************)
(* The FreeRTOS tasks of the three freertos_acl2_main.c, the bounded       *)
(* queues between them, and the LEDs, display and terminal they write.     *)
(*                                                                         *)
(* The master task (priority 2, Experiment.c) sends to the queues with a   *)
(* timeout of zero, so that a send to a full queue is dropped.  The print  *)
(* task (priority 1), the LED task and the display task (both at the idle  *)
(* priority) each block on their own queue.  Scheduling is preemptive by   *)
(* priority: a task of a lower priority takes a step only while every task *)
(* above it is blocked, and may be preempted between any two of its steps. *)
(* The Spartan-7 program has no LED task; its master writes the LEDs.      *)
(*                                                                         *)
(* What an iteration of the master has to show is its look: the mode, the  *)
(* switches, and the state of the event indicators (module Experiment      *)
(* computes the real ones).  The texts are abstracted to the look they     *)
(* were made from.                                                         *)
(***************************************************************************)
EXTENDS LedDrivers, Sequences

CONSTANTS TaskBoards,    \* the boards
          Looks,         \* what an iteration of the master may have to show
          Off,           \* a line that shows nothing
          LedQueueLen,   \* 10: xQueueLedConfig
          ClsQueueLen,   \* 2: xQueueClsDispl
          PrintQueueLen, \* 4: xQueuePrint
          Polls,         \* 4: delays in an iteration
          LedRate,       \* LED updates the LED task has time for in one delay
          TextRate       \* texts the two other tasks have time for in an iteration

AllLooks == [mode: {"MEAS", "LINK", "BOOT", "NONE"}, sw0: BOOLEAN, sw1: BOOLEAN,
             awake: BOOLEAN, active: BOOLEAN, inactive: BOOLEAN]

ASSUME LooksAssumption == /\ TaskBoards \subseteq Boards
                          /\ Looks \subseteq AllLooks /\ Looks # {} /\ Off \notin Looks
ASSUME LengthAssumption == /\ LedQueueLen \in Nat \ {0}
                           /\ ClsQueueLen \in Nat \ {0}
                           /\ PrintQueueLen \in Nat \ {0}
                           /\ Polls \in Nat \ {0} /\ LedRate \in Nat
                           /\ TextRate \in 0..1

VARIABLES
    board,         \* the board, which stays the same
    masterPc,      \* where the master task is in its loop
    poll,          \* the delay it is in
    look,          \* what this iteration has to show
    ledQueue, clsQueue, printQueue,
    ledPc, ledItem,      \* the LED task and its copy of the received update
    leds,                \* the registers of the LEDs
    clsPc, clsLines,     \* the display task and its copy of the received lines
    display,             \* the two lines of the Pmod CLS
    printPc, line,       \* the print task and its copy of the received line
    terminal,            \* the last line printed
    served,              \* updates each task completed in the current period
    dropped              \* whether a send was ever dropped

masterVars == <<board, masterPc, poll, look>>
queues     == <<ledQueue, clsQueue, printQueue>>
ledVars    == <<ledPc, ledItem, leds>>
clsVars    == <<clsPc, clsLines, display>>
printVars  == <<printPc, line, terminal>>
vars == <<masterVars, queues, ledVars, clsVars, printVars, served, dropped>>

NothingServed == [led |-> 0, cls |-> 0, print |-> 0]

Dark == [r |-> 0, g |-> 0, b |-> 0]

(* Main: the queues exist, no task has run yet.                            *)
Init ==
    /\ board \in TaskBoards
    /\ masterPc = "start" /\ poll = 0 /\ look \in Looks
    /\ ledQueue = << >> /\ clsQueue = << >> /\ printQueue = << >>
    /\ ledPc = IF board = "S7" THEN "none" ELSE "start"
    /\ ledItem = [silk |-> 0, rgb |-> Dark] /\ leds = InitAllLedsOff(board)
    /\ clsPc = "start" /\ clsLines = Off /\ display = <<Off, Off>>
    /\ printPc = "receive" /\ line = Off /\ terminal = Off
    /\ served = NothingServed /\ dropped = FALSE

-----------------------------------------------------------------------------
(* Sending with a timeout of zero: what does not fit is dropped.           *)

SendAll(queue, items, len) ==
    LET room == len - Len(queue)
    IN  queue \o SubSeq(items, 1, IF room < Len(items) THEN room ELSE Len(items))

Overflows(queue, items, len) == Len(queue) + Len(items) > len

SendLedUpdates(updates) ==
    /\ ledQueue' = SendAll(ledQueue, updates, LedQueueLen)
    /\ dropped' = (dropped \/ Overflows(ledQueue, updates, LedQueueLen))

-----------------------------------------------------------------------------
(* What the master sends to each LED for its look.                         *)

SetLedUpdate(silk, red, green, blue) ==
    [silk |-> silk, rgb |-> [r |-> red, g |-> green, b |-> blue]]

(* LEDs 0 and 1 of the MicroBlaze board.                                   *)
ModeUpdates ==
    [MEAS |-> <<SetLedUpdate(0, 0, 255, 0), SetLedUpdate(1, 127, 127, 127)>>,
     LINK |-> <<SetLedUpdate(0, 0, 255, 0), SetLedUpdate(1, 127, 0, 127)>>,
     BOOT |-> <<SetLedUpdate(0, 255, 0, 0), SetLedUpdate(1, 127, 0, 0)>>,
     NONE |-> <<SetLedUpdate(0, 0, 0, 255), SetLedUpdate(1, 127, 0, 0)>>][look.mode]

Running == look.mode \in {"MEAS", "LINK"}

StatusUpdate(silk, on) == SetLedUpdate(silk, 0, IF on THEN 100 ELSE 0, 0)
StatusUpdatesMB   == <<StatusUpdate(4, look.awake), StatusUpdate(5, FALSE),
                       StatusUpdate(6, look.sw0), StatusUpdate(7, look.sw1)>>
StatusUpdatesZynq == <<StatusUpdate(0, look.sw0), StatusUpdate(1, look.sw1),
                       StatusUpdate(2, Running), StatusUpdate(3, look.awake)>>

EventUpdate(silk, green) == SetLedUpdate(silk, IF green THEN 0 ELSE 255, IF green THEN 255 ELSE 0, 0)
EventUpdatesMB   == <<EventUpdate(2, look.active), EventUpdate(3, look.inactive)>>
EventUpdatesZynq == <<EventUpdate(5, look.inactive), EventUpdate(6, look.active)>>

(* The Spartan-7 program sets the bits itself.                             *)
StatusBitsS7 ==
    SetBasicLedState(SetBasicLedState(SetBasicLedState(SetBasicLedState(leds,
        2, look.awake), 3, FALSE), 4, look.sw0), 5, look.sw1)

EventBits(regs, silk, green) ==
    SetColorLedState(SetColorLedState(SetColorLedState(regs,
        silk, "r", ~green), silk, "g", green), silk, "b", FALSE)
EventBitsS7 == EventBits(EventBits(leds, 0, look.active), 1, look.inactive)

-----------------------------------------------------------------------------
(* The master task.  It starts first, since no other task has its priority *)
(* and it does not block before its first delay.                           *)

FirstUpdate == IF board = "S7" THEN "updateLedsStatuses" ELSE "updateLedsDisplayMode"

masterStart ==
    /\ masterPc = "start"
    /\ leds' = InitAllLedsOff(board)
    /\ masterPc' = FirstUpdate
    /\ UNCHANGED <<board, poll, look, queues, ledPc, ledItem, clsVars, printVars, served, dropped>>

(* The Zynq program has nothing to send.                                   *)
updateLedsDisplayMode ==
    /\ masterPc = "updateLedsDisplayMode"
    /\ SendLedUpdates(IF board = "MB" THEN ModeUpdates ELSE << >>)
    /\ masterPc' = "updateLedsStatuses"
    /\ UNCHANGED <<board, poll, look, clsQueue, printQueue, ledVars, clsVars, printVars, served>>

updateLedsStatuses ==
    /\ masterPc = "updateLedsStatuses"
    /\ \/ /\ board = "S7"
          /\ leds' = StatusBitsS7
          /\ UNCHANGED <<ledQueue, dropped>>
       \/ /\ board # "S7"
          /\ SendLedUpdates(IF board = "MB" THEN StatusUpdatesMB ELSE StatusUpdatesZynq)
          /\ UNCHANGED leds
    /\ masterPc' = "updateClsDisplayAndTerminal"
    /\ UNCHANGED <<board, poll, look, clsQueue, printQueue, ledPc, ledItem, clsVars, printVars,
                   served>>

updateClsDisplayAndTerminal ==
    /\ masterPc = "updateClsDisplayAndTerminal"
    /\ clsQueue' = SendAll(clsQueue, <<look>>, ClsQueueLen)
    /\ printQueue' = SendAll(printQueue, <<look>>, PrintQueueLen)
    /\ dropped' = (dropped \/ Overflows(clsQueue, <<look>>, ClsQueueLen)
                           \/ Overflows(printQueue, <<look>>, PrintQueueLen))
    /\ masterPc' = "updateLedsEvents"
    /\ UNCHANGED <<board, poll, look, ledQueue, ledVars, clsVars, printVars, served>>

updateLedsEvents ==
    /\ masterPc = "updateLedsEvents"
    /\ \/ /\ board = "S7"
          /\ leds' = EventBitsS7
          /\ UNCHANGED <<ledQueue, dropped>>
       \/ /\ board # "S7"
          /\ SendLedUpdates(IF board = "MB" THEN EventUpdatesMB ELSE EventUpdatesZynq)
          /\ UNCHANGED leds
    /\ masterPc' = "delay" /\ poll' = 0
    /\ served' = NothingServed
    /\ UNCHANGED <<board, look, clsQueue, printQueue, ledPc, ledItem, clsVars, printVars>>

Blocked == masterPc = "delay"

(* The timing the code relies on: in one delay of 49 ms the LED task has   *)
(* time for LedRate updates, and in the four of an iteration the display   *)
(* task and the print task each for TextRate.  With rates of 0 nothing is  *)
(* assumed and the master may preempt them anywhere.                       *)
LedHadTime   == ledPc = "none" \/ served.led >= LedRate \/ (ledPc = "receive" /\ ledQueue = << >>)
ClsHadTime   == served.cls >= TextRate \/ (clsPc = "receive" /\ clsQueue = << >>)
PrintHadTime == served.print >= TextRate \/ (printPc = "receive" /\ printQueue = << >>)

DelayLoop(last) ==
    /\ Blocked /\ LedHadTime
    /\ IF ~last
       THEN /\ poll' = poll + 1
            /\ served' = [served EXCEPT !.led = 0]
            /\ UNCHANGED <<masterPc, look>>
       ELSE /\ ClsHadTime /\ PrintHadTime
            /\ masterPc' = FirstUpdate /\ poll' = 0
            /\ look' \in Looks
            /\ UNCHANGED served
    /\ UNCHANGED <<board, queues, ledVars, clsVars, printVars, dropped>>

(* Mutant: a single delay in an iteration.                                 *)
DelayOnce == DelayLoop(TRUE)

(* A delay is over and the inputs are read; after the last one the FSM     *)
(* operates and decides what the next iteration has to show.               *)
delayOver ==
    /\ Blocked /\ LedHadTime
    /\ IF poll + 1 < Polls
       THEN /\ poll' = poll + 1
            /\ served' = [served EXCEPT !.led = 0]
            /\ UNCHANGED <<masterPc, look>>
       ELSE /\ ClsHadTime /\ PrintHadTime
            /\ masterPc' = FirstUpdate /\ poll' = 0
            /\ look' \in Looks
            /\ UNCHANGED served
    /\ UNCHANGED <<board, queues, ledVars, clsVars, printVars, dropped>>

Master == \/ masterStart \/ updateLedsDisplayMode \/ updateLedsStatuses
          \/ updateClsDisplayAndTerminal \/ updateLedsEvents \/ delayOver

-----------------------------------------------------------------------------
(* The print task runs while the master is blocked.                        *)

PrintReady == Blocked /\ ~(printPc = "receive" /\ printQueue = << >>)

printReceive ==
    /\ Blocked
    /\ printPc = "receive" /\ printQueue # << >>
    /\ line' = Head(printQueue) /\ printQueue' = Tail(printQueue)
    /\ printPc' = "print"
    /\ UNCHANGED <<masterVars, ledQueue, clsQueue, ledVars, clsVars, terminal, served, dropped>>

printLine ==
    /\ Blocked
    /\ printPc = "print"
    /\ terminal' = line
    /\ served' = [served EXCEPT !.print = TextRate]
    /\ printPc' = "receive"
    /\ UNCHANGED <<masterVars, queues, ledVars, clsVars, line, dropped>>

PrintTask == printReceive \/ printLine

-----------------------------------------------------------------------------
(* The two tasks at the idle priority run while the others are blocked.    *)

IdleTime == Blocked /\ ~PrintReady

ledStart ==
    /\ IdleTime
    /\ ledPc = "start"
    /\ leds' = InitAllLedsOff(board)
    /\ ledPc' = "receive"
    /\ UNCHANGED <<masterVars, queues, ledItem, clsVars, printVars, served, dropped>>

(* Which driver function sets an LED; an update of no LED is skipped.      *)
DispatchMB(item) ==
    IF item.silk < 4 THEN "r"
    ELSE IF item.silk <= 7 /\ item.rgb.g <= 100 THEN "basic" ELSE "receive"
DispatchZynq(item) ==
    IF item.silk < 4 /\ item.rgb.g <= 100 THEN "basic"
    ELSE IF item.silk \in 5..6 THEN "r" ELSE "receive"

ledReceive ==
    /\ IdleTime
    /\ ledPc = "receive" /\ ledQueue # << >>
    /\ ledItem' = Head(ledQueue) /\ ledQueue' = Tail(ledQueue)
    /\ ledPc' = IF board = "MB" THEN DispatchMB(Head(ledQueue)) ELSE DispatchZynq(Head(ledQueue))
    /\ UNCHANGED <<masterVars, clsQueue, printQueue, leds, clsVars, printVars, served, dropped>>

LedServed == [served EXCEPT !.led = IF @ < LedRate THEN @ + 1 ELSE @]

(* Mutant: the color of the event is read from the master, not from the    *)
(* received item.                                                          *)
FilamentFromMaster(f, next) ==
    /\ IdleTime
    /\ ledPc = f
    /\ leds' = SetColorLedPercent(board, leds, ledItem.silk, f,
                   PalettePercent(EventUpdate(0, look.active).rgb[f]))
    /\ ledPc' = next
    /\ served' = IF next = "receive" THEN LedServed ELSE served
    /\ UNCHANGED <<masterVars, queues, ledItem, clsVars, printVars, dropped>>

(* SetRgbPaletteLed sets the three duty cycles one after the other.        *)
setFilament(f, next) ==
    /\ IdleTime
    /\ ledPc = f
    /\ leds' = SetColorLedPercent(board, leds, ledItem.silk, f, PalettePercent(ledItem.rgb[f]))
    /\ ledPc' = next
    /\ served' = IF next = "receive" THEN LedServed ELSE served
    /\ UNCHANGED <<masterVars, queues, ledItem, clsVars, printVars, dropped>>

SetRgbPaletteLed == setFilament("r", "g") \/ setFilament("g", "b") \/ setFilament("b", "receive")

setBasic ==
    /\ IdleTime
    /\ ledPc = "basic"
    /\ leds' = SetBasicLedPercent(board, leds, ledItem.silk, 10 * ledItem.rgb.g)
    /\ ledPc' = "receive"
    /\ served' = LedServed
    /\ UNCHANGED <<masterVars, queues, ledItem, clsVars, printVars, dropped>>

Led == ledStart \/ ledReceive \/ SetRgbPaletteLed \/ setBasic

clsStart ==
    /\ IdleTime
    /\ clsPc = "start"
    /\ display' = <<Off, Off>>
    /\ clsPc' = "receive"
    /\ UNCHANGED <<masterVars, queues, ledVars, clsLines, printVars, served, dropped>>

clsReceive ==
    /\ IdleTime
    /\ clsPc = "receive" /\ clsQueue # << >>
    /\ clsLines' = Head(clsQueue) /\ clsQueue' = Tail(clsQueue)
    /\ clsPc' = "clear"
    /\ UNCHANGED <<masterVars, ledQueue, printQueue, ledVars, display, printVars, served, dropped>>

(* The display is cleared and written in three transfers.                  *)
clsWrite(at, shown, next) ==
    /\ IdleTime
    /\ clsPc = at
    /\ display' = shown
    /\ clsPc' = next
    /\ served' = IF next = "receive" THEN [served EXCEPT !.cls = TextRate] ELSE served
    /\ UNCHANGED <<masterVars, queues, ledVars, clsLines, printVars, dropped>>

(* Mutants: the second string is taken from the master, or sent to line 1. *)
Line2FromMaster == clsWrite("line2", <<display[1], look>>, "receive")
Line2OnLine1    == clsWrite("line2", <<clsLines, display[2]>>, "receive")

CLS_DisplayClear     == clsWrite("clear", <<Off, Off>>, "line1")
CLS_WriteStringLine1 == clsWrite("line1", <<clsLines, display[2]>>, "line2")
CLS_WriteStringLine2 == clsWrite("line2", <<display[1], clsLines>>, "receive")

Cls == clsStart \/ clsReceive \/ CLS_DisplayClear \/ CLS_WriteStringLine1 \/ CLS_WriteStringLine2

-----------------------------------------------------------------------------
Next == Master \/ PrintTask \/ Led \/ Cls

(* A task that is ready and that no task above it preempts runs; the two   *)
(* tasks of the idle priority share it in time slices.                     *)
Spec == /\ Init /\ [][Next]_vars
        /\ WF_vars(Master) /\ WF_vars(PrintTask) /\ WF_vars(Led) /\ WF_vars(Cls)

-----------------------------------------------------------------------------
(* Properties.                                                             *)

Shown == Looks \cup {Off}
LedUpdates == [silk: 0..7, rgb: [Filaments -> Palette]]

(* Every variable holds a value of its type; no queue exceeds its length,  *)
(* and no duty cycle its period.                                           *)
TypeOK ==
    /\ board \in TaskBoards
    /\ masterPc \in {"start", "updateLedsDisplayMode", "updateLedsStatuses",
                     "updateClsDisplayAndTerminal", "updateLedsEvents", "delay"}
    /\ poll \in 0..(Polls - 1) /\ look \in Looks
    /\ ledQueue \in Seq(LedUpdates) /\ Len(ledQueue) <= LedQueueLen
    /\ clsQueue \in Seq(Looks) /\ Len(clsQueue) <= ClsQueueLen
    /\ printQueue \in Seq(Looks) /\ Len(printQueue) <= PrintQueueLen
    /\ ledPc \in {"none", "start", "receive", "r", "g", "b", "basic"}
    /\ ledItem \in LedUpdates
    /\ leds \in [color: [ColorIndexes(board) -> 0..PWM_PERIOD],
                 basic: [BasicIndexes -> 0..PWM_PERIOD]]
    /\ clsPc \in {"start", "receive", "clear", "line1", "line2"}
    /\ clsLines \in Shown /\ display \in Shown \X Shown
    /\ printPc \in {"receive", "print"} /\ line \in Shown /\ terminal \in Shown
    /\ served \in [led: 0..LedRate, cls: 0..1, print: 0..1]
    /\ dropped \in BOOLEAN

(* The eight updates of an iteration, the lines and the text always fit:   *)
(* the zero timeout of the sends never costs an update, although no queue  *)
(* is long enough for two iterations of LED updates.                       *)
NothingDropped == ~dropped

(* What each LED is for.                                                   *)
Green  == <<0, 255, 0>>
Red    == <<255, 0, 0>>
Event(on) == IF on THEN Green ELSE Red

ColorOf(v, silk) ==
    IF board = "MB" /\ silk = 0
    THEN [MEAS |-> Green, LINK |-> Green, BOOT |-> Red, NONE |-> <<0, 0, 255>>][v.mode]
    ELSE IF board = "MB" /\ silk = 1
    THEN [MEAS |-> <<127, 127, 127>>, LINK |-> <<127, 0, 127>>,
          BOOT |-> <<127, 0, 0>>, NONE |-> <<127, 0, 0>>][v.mode]
    ELSE IF <<board, silk>> \in {<<"MB", 2>>, <<"Zynq", 6>>, <<"S7", 0>>}
    THEN Event(v.active)
    ELSE Event(v.inactive)

BasicOf(v, silk) ==
    \/ <<board, silk>> \in {<<"MB", 4>>, <<"S7", 2>>, <<"Zynq", 3>>} /\ v.awake
    \/ <<board, silk>> \in {<<"MB", 6>>, <<"S7", 4>>, <<"Zynq", 0>>} /\ v.sw0
    \/ <<board, silk>> \in {<<"MB", 7>>, <<"S7", 5>>, <<"Zynq", 1>>} /\ v.sw1
    \/ <<board, silk>> = <<"Zynq", 2>> /\ v.mode \in {"MEAS", "LINK"}

(* The register for a brightness in 255 parts: 127 of them are 498         *)
(* permille of the greatest duty cycle.                                    *)
Bright(level, full) ==
    IF level = 0 THEN 0 ELSE IF level = 127 THEN 498 * (full \div 1000) ELSE full
ColorFull == IF board = "S7" THEN 1 ELSE maxColorDutyCycle(board)
BasicFull == IF board = "S7" THEN 1 ELSE maxBasicDutyCycle

Colors(silk) == [i \in 1..3 |-> leds.color[c_color_leds[board][silk][<<"r", "g", "b">>[i]]]]

ShowsColor(silk, rgb) == Colors(silk) = [i \in 1..3 |-> Bright(rgb[i], ColorFull)]

(* A color LED shows the three filaments of one and the same update, and   *)
(* the display the two lines of one and the same update, whenever the task *)
(* that writes them waits for the next: the master may preempt it in the   *)
(* middle and compute new values meanwhile.                                *)
NoTornLed == Blocked /\ ledPc \in {"none", "receive"} =>
                \A silk \in ColorLeds(board) :
                    \/ ShowsColor(silk, <<0, 0, 0>>)
                    \/ \E v \in Looks : ShowsColor(silk, ColorOf(v, silk))
NoTornText == clsPc = "receive" => display[1] = display[2]

(* When the program settles on what to show, every LED of every board and  *)
(* the terminal come to show it, whatever happened before.                 *)
OutputsConverge ==
    \A v \in Looks :
        <>[](look = v) =>
            <>[](/\ \A silk \in ColorLeds(board) : ShowsColor(silk, ColorOf(v, silk))
                 /\ \A silk \in BasicLeds(board) : leds.basic[c_basic_leds[board][silk]]
                                                = IF BasicOf(v, silk) THEN BasicFull ELSE 0
                 /\ terminal = v)

(* The display does not stay cleared: it shows a whole update again and    *)
(* again.                                                                  *)
DisplayAlwaysRefreshed == []<>(clsPc = "receive" /\ display \in Looks \X Looks)
=============================================================================
