--------------------------- MODULE AclTasksProofs ---------------------------
(***************************************************************************)
(* The safety properties of module AclTasks, proved for every set of       *)
(* boards and looks, every length of the queues and every speed of the     *)
(* tasks.                                                                  *)
(*                                                                         *)
(* The inductive invariant adds to the types what an update in the queue   *)
(* or in the hands of the LED task stands for (Meant), which filaments are *)
(* already written while the task is in the middle of an LED (Painted),    *)
(* and which line of the display is (TextsOK).  That nothing is dropped    *)
(* also needs a count of what the tasks still have to do; it is proved at  *)
(* the end, with an invariant of its own.                                  *)
(***************************************************************************)
EXTENDS AclTasks, SequenceTheorems, TLAPS

(* An update that a color LED may get shows some look.                     *)
IsMeant(update) ==
    update.silk \in ColorLeds(board) =>
        \E v \in Looks : \A i \in 1..3 :
            update.rgb[<<"r", "g", "b">>[i]] = ColorOf(v, update.silk)[i]

Meant == {update \in LedUpdates : IsMeant(update)}

(* The places of the LED task in the middle of a color LED.                *)
Painting == {"r", "g", "b"}

MasterOK ==
    /\ board \in TaskBoards
    /\ masterPc \in {"start", "updateLedsDisplayMode", "updateLedsStatuses",
                     "updateClsDisplayAndTerminal", "updateLedsEvents", "delay"}
    /\ poll \in 0..(Polls - 1) /\ look \in Looks
    /\ masterPc = "start" => ledPc \in {"none", "start"}
    /\ served \in [led: 0..LedRate, cls: 0..1, print: 0..1]
    /\ dropped \in BOOLEAN

QueuesOK ==
    /\ ledQueue \in Seq(Meant) /\ Len(ledQueue) <= LedQueueLen
    /\ clsQueue \in Seq(Looks) /\ Len(clsQueue) <= ClsQueueLen
    /\ printQueue \in Seq(Looks) /\ Len(printQueue) <= PrintQueueLen

LedTaskOK ==
    /\ ledPc \in {"none", "start", "receive", "r", "g", "b", "basic"}
    /\ board = "S7" <=> ledPc = "none"
    /\ ledItem \in LedUpdates
    /\ ledPc \in Painting => ledItem \in Meant /\ ledItem.silk \in ColorLeds(board)
    /\ ledPc = "basic" => ledItem.rgb.g <= 100

LedsOK ==
    leds \in [color: [ColorIndexes(board) -> 0..PWM_PERIOD],
              basic: [BasicIndexes -> 0..PWM_PERIOD]]

(* A color LED is off, or shows the color it has for some look.            *)
Whole(silk) == \/ ShowsColor(silk, <<0, 0, 0>>)
               \/ \E v \in Looks : ShowsColor(silk, ColorOf(v, silk))

(* The register of filament f has its part of the update under way.        *)
Painted(f) == leds.color[c_color_leds[board][ledItem.silk][f]]
                 = Bright(ledItem.rgb[f], ColorFull)

LedsWhole ==
    /\ \A silk \in ColorLeds(board) :
          Whole(silk) \/ (ledPc \in {"g", "b"} /\ silk = ledItem.silk)
    /\ ledPc \in {"g", "b"} => Painted("r")
    /\ ledPc = "b" => Painted("g")

TextsOK ==
    /\ clsPc \in {"start", "receive", "clear", "line1", "line2"}
    /\ clsLines \in Shown /\ display \in Shown \X Shown
    /\ printPc \in {"receive", "print"} /\ line \in Shown /\ terminal \in Shown
    /\ clsPc = "receive" => display[1] = display[2]
    /\ clsPc = "line2" => display[1] = clsLines

TasksInv == /\ MasterOK /\ QueuesOK /\ LedTaskOK /\ LedsOK /\ LedsWhole /\ TextsOK

-----------------------------------------------------------------------------
(* Facts about the tables and the drivers.                                 *)

(* What a color LED is for is always one of three brightnesses.            *)
LEMMA ColorLevels ==
    ASSUME NEW v \in AllLooks, NEW silk, NEW i \in 1..3
    PROVE  ColorOf(v, silk)[i] \in {0, 127, 255}
  BY DEF AllLooks, ColorOf, Event, Green, Red

(* A percentage made of a palette byte gives the register of its brightness. *)
LEMMA BrightIsPercent ==
    ASSUME NEW level \in {0, 127, 255}, NEW b \in {"MB", "Zynq"}
    PROVE  (PalettePercent(level) * maxColorDutyCycle(b)) \div 1000
              = Bright(level, maxColorDutyCycle(b))
<1>1. PalettePercent(0) = 0 /\ PalettePercent(127) = 498 /\ PalettePercent(255) = 1000
  BY SMT DEF PalettePercent
<1>2. maxColorDutyCycle(b) = 350000 \/ maxColorDutyCycle(b) = 250000
  BY SMT DEF maxColorDutyCycle
<1> QED
  BY <1>1, <1>2, SMT DEF Bright

LEMMA PeriodIsLong == PWM_PERIOD \in Nat /\ PWM_PERIOD >= 450000
  BY SMT DEF PWM_PERIOD

(* No duty cycle exceeds the period.                                       *)
LEMMA ColorDutyInPeriod ==
    ASSUME NEW b, NEW p \in Palette
    PROVE  (PalettePercent(p) * maxColorDutyCycle(b)) \div 1000 \in 0..PWM_PERIOD
<1>1. PalettePercent(p) \in Nat /\ PalettePercent(p) <= 1000
  BY SMT DEF PalettePercent, Palette
<1>2. \A n \in Nat : /\ (n * 350000) \div 1000 = 350 * n
                     /\ (n * 250000) \div 1000 = 250 * n
  BY SMT
<1>3. maxColorDutyCycle(b) = 350000 \/ maxColorDutyCycle(b) = 250000
  BY SMT DEF maxColorDutyCycle
<1> QED
  BY <1>1, <1>2, <1>3, PeriodIsLong, SMT

LEMMA BasicDutyInPeriod ==
    ASSUME NEW p \in 0..100
    PROVE  ((10 * p) * maxBasicDutyCycle) \div 1000 \in 0..PWM_PERIOD
<1>1. ((10 * p) * maxBasicDutyCycle) \div 1000 = 4500 * p
  BY SMT DEF maxBasicDutyCycle
<1> QED
  BY <1>1, PeriodIsLong, SMT

(* Every filament has an index of the block, and none has that of another. *)
LEMMA IndexesApart ==
    ASSUME NEW b \in Boards, NEW s \in ColorLeds(b), NEW f \in Filaments
    PROVE  /\ c_color_leds[b][s][f] \in ColorIndexes(b)
           /\ \A t \in ColorLeds(b), g \in Filaments :
                 c_color_leds[b][t][g] = c_color_leds[b][s][f] => t = s /\ g = f
<1>1. CASE b = "MB"
  BY <1>1 DEF ColorLeds, c_color_leds, ColorLedsMB, ColorIndexes, Filaments
<1>2. CASE b = "S7"
  BY <1>2 DEF ColorLeds, c_color_leds, ColorLedsS7, ColorIndexes, Filaments
<1>3. CASE b = "Zynq"
  BY <1>3 DEF ColorLeds, c_color_leds, ColorLedsZynq, ColorIndexes, Filaments
<1> QED
  BY <1>1, <1>2, <1>3 DEF Boards

(* Sending without waiting keeps the type and the length of a queue.       *)
LEMMA SendTyped ==
    ASSUME NEW T, NEW q \in Seq(T), NEW items \in Seq(T), NEW len \in Nat,
           Len(q) <= len
    PROVE  /\ SendAll(q, items, len) \in Seq(T)
           /\ Len(SendAll(q, items, len)) <= len
           /\ ~Overflows(q, items, len) =>
                 Len(SendAll(q, items, len)) = Len(q) + Len(items)
<1> DEFINE room == len - Len(q)
           n == IF room < Len(items) THEN room ELSE Len(items)
<1>1. Len(q) \in Nat /\ Len(items) \in Nat /\ n \in 0..Len(items) /\ n <= room
  OBVIOUS
<1>2. /\ SubSeq(items, 1, n) \in Seq(T)
      /\ Len(SubSeq(items, 1, n)) = n
  BY <1>1, SubSeqProperties
<1>3. /\ q \o SubSeq(items, 1, n) \in Seq(T)
      /\ Len(q \o SubSeq(items, 1, n)) = Len(q) + n
  BY <1>2, ConcatProperties
<1>4. SendAll(q, items, len) = q \o SubSeq(items, 1, n)
  BY DEF SendAll
<1>5. ~Overflows(q, items, len) => n = Len(items)
  BY <1>1 DEF Overflows
<1> QED
  BY <1>1, <1>3, <1>4, <1>5

-----------------------------------------------------------------------------
(* What the master sends and writes.                                       *)

LEMMA LooksTyped == Looks \subseteq AllLooks /\ TaskBoards \subseteq Boards
  BY LooksAssumption

LEMMA PaletteLevels == {0, 100, 127, 255} \subseteq Palette
  BY SMT DEF Palette

LEMMA PairTyped ==
    ASSUME NEW T, NEW a \in T, NEW b \in T
    PROVE  <<a, b>> \in Seq(T) /\ Len(<<a, b>>) = 2
  OBVIOUS

LEMMA FourTyped ==
    ASSUME NEW T, NEW a \in T, NEW b \in T, NEW c \in T, NEW d \in T
    PROVE  <<a, b, c, d>> \in Seq(T) /\ Len(<<a, b, c, d>>) = 4
  OBVIOUS

LEMMA UpdateTyped ==
    ASSUME NEW s \in 0..7, NEW r \in Palette, NEW g \in Palette, NEW b \in Palette
    PROVE  SetLedUpdate(s, r, g, b) \in LedUpdates
  BY DEF SetLedUpdate, LedUpdates, Filaments

(* The status LEDs are not color LEDs.                                     *)
LEMMA StatusMeant ==
    ASSUME NEW s \in 0..7, s \notin ColorLeds(board), NEW on \in BOOLEAN
    PROVE  StatusUpdate(s, on) \in Meant
<1>1. (IF on THEN 100 ELSE 0) \in Palette /\ 0 \in Palette
  BY PaletteLevels
<1>2. StatusUpdate(s, on) \in LedUpdates
  BY <1>1, UpdateTyped DEF StatusUpdate
<1>3. StatusUpdate(s, on).silk = s
  BY DEF StatusUpdate, SetLedUpdate
<1> QED
  BY <1>2, <1>3 DEF Meant, IsMeant

LEMMA ColorMeant ==
    ASSUME NEW s \in 0..7, NEW r \in Palette, NEW g \in Palette, NEW b \in Palette,
           look \in Looks, ColorOf(look, s) = <<r, g, b>>
    PROVE  SetLedUpdate(s, r, g, b) \in Meant
<1>1. SetLedUpdate(s, r, g, b) \in LedUpdates
  BY UpdateTyped
<1>2. \A i \in 1..3 : SetLedUpdate(s, r, g, b).rgb[<<"r", "g", "b">>[i]]
                         = ColorOf(look, s)[i]
  BY DEF SetLedUpdate
<1>3. SetLedUpdate(s, r, g, b).silk = s
  BY DEF SetLedUpdate
<1> QED
  BY <1>1, <1>2, <1>3 DEF Meant, IsMeant

LEMMA BoardLeds ==
    /\ board = "MB" => ColorLeds(board) = 0..3
    /\ board = "S7" => ColorLeds(board) = 0..1
    /\ board = "Zynq" => ColorLeds(board) = 5..6
  BY DEF ColorLeds, c_color_leds, ColorLedsMB, ColorLedsS7, ColorLedsZynq

LEMMA ModeUpdatesMeant ==
    ASSUME MasterOK, board = "MB"
    PROVE  ModeUpdates \in Seq(Meant) /\ Len(ModeUpdates) = 2
<1>1. look \in Looks /\ look \in AllLooks
  BY LooksTyped DEF MasterOK
<1>2. look.mode \in {"MEAS", "LINK", "BOOT", "NONE"}
  BY <1>1 DEF AllLooks
<1>3. CASE look.mode = "MEAS"
  <2>1. ModeUpdates = <<SetLedUpdate(0, 0, 255, 0), SetLedUpdate(1, 127, 127, 127)>>
    BY <1>3 DEF ModeUpdates
  <2>2. ColorOf(look, 0) = <<0, 255, 0>> /\ ColorOf(look, 1) = <<127, 127, 127>>
    BY <1>3 DEF ColorOf, Green
  <2> QED
    BY <1>1, <2>1, <2>2, PaletteLevels, ColorMeant, PairTyped
<1>4. CASE look.mode = "LINK"
  <2>1. ModeUpdates = <<SetLedUpdate(0, 0, 255, 0), SetLedUpdate(1, 127, 0, 127)>>
    BY <1>4 DEF ModeUpdates
  <2>2. ColorOf(look, 0) = <<0, 255, 0>> /\ ColorOf(look, 1) = <<127, 0, 127>>
    BY <1>4 DEF ColorOf, Green
  <2> QED
    BY <1>1, <2>1, <2>2, PaletteLevels, ColorMeant, PairTyped
<1>5. CASE look.mode = "BOOT"
  <2>1. ModeUpdates = <<SetLedUpdate(0, 255, 0, 0), SetLedUpdate(1, 127, 0, 0)>>
    BY <1>5 DEF ModeUpdates
  <2>2. ColorOf(look, 0) = <<255, 0, 0>> /\ ColorOf(look, 1) = <<127, 0, 0>>
    BY <1>5 DEF ColorOf, Red
  <2> QED
    BY <1>1, <2>1, <2>2, PaletteLevels, ColorMeant, PairTyped
<1>6. CASE look.mode = "NONE"
  <2>1. ModeUpdates = <<SetLedUpdate(0, 0, 0, 255), SetLedUpdate(1, 127, 0, 0)>>
    BY <1>6 DEF ModeUpdates
  <2>2. ColorOf(look, 0) = <<0, 0, 255>> /\ ColorOf(look, 1) = <<127, 0, 0>>
    BY <1>6 DEF ColorOf
  <2> QED
    BY <1>1, <2>1, <2>2, PaletteLevels, ColorMeant, PairTyped
<1> QED
  BY <1>2, <1>3, <1>4, <1>5, <1>6

LEMMA StatusUpdatesMeant ==
    ASSUME MasterOK, board # "S7"
    PROVE  LET updates == IF board = "MB" THEN StatusUpdatesMB ELSE StatusUpdatesZynq
           IN  updates \in Seq(Meant) /\ Len(updates) = 4
<1>1. board \in {"MB", "Zynq"}
  BY LooksTyped DEF MasterOK, Boards
<1>2. /\ look.awake \in BOOLEAN /\ look.sw0 \in BOOLEAN /\ look.sw1 \in BOOLEAN
      /\ Running \in BOOLEAN
  BY LooksTyped DEF MasterOK, AllLooks, Running
<1>3. CASE board = "MB"
  <2>1. \A s \in 4..7 : s \in 0..7 /\ s \notin ColorLeds(board)
    BY <1>3, BoardLeds
  <2>2. \A on \in BOOLEAN :
          /\ StatusUpdate(4, on) \in Meant /\ StatusUpdate(5, on) \in Meant
          /\ StatusUpdate(6, on) \in Meant /\ StatusUpdate(7, on) \in Meant
    BY <2>1, StatusMeant
  <2>3. /\ StatusUpdate(4, look.awake) \in Meant /\ StatusUpdate(5, FALSE) \in Meant
        /\ StatusUpdate(6, look.sw0) \in Meant /\ StatusUpdate(7, look.sw1) \in Meant
    BY <1>2, <2>2, Zenon
  <2> QED
    BY <1>3, <2>3, FourTyped DEF StatusUpdatesMB
<1>4. CASE board = "Zynq"
  <2>1. /\ StatusUpdate(0, look.sw0) \in Meant /\ StatusUpdate(1, look.sw1) \in Meant
        /\ StatusUpdate(2, Running) \in Meant /\ StatusUpdate(3, look.awake) \in Meant
    BY <1>2, <1>4, BoardLeds, StatusMeant
  <2> QED
    BY <1>4, <2>1, FourTyped DEF StatusUpdatesZynq
<1> QED
  BY <1>1, <1>3, <1>4

LEMMA EventUpdatesMeant ==
    ASSUME MasterOK, board # "S7"
    PROVE  LET updates == IF board = "MB" THEN EventUpdatesMB ELSE EventUpdatesZynq
           IN  updates \in Seq(Meant) /\ Len(updates) = 2
<1>1. board \in {"MB", "Zynq"} /\ look \in Looks
  BY LooksTyped DEF MasterOK, Boards
<1>2. ASSUME NEW s \in 0..7, NEW green \in BOOLEAN, ColorOf(look, s) = Event(green)
      PROVE  EventUpdate(s, green) \in Meant
  BY <1>1, <1>2, PaletteLevels, ColorMeant DEF EventUpdate, Event, Green, Red
<1>3. look.active \in BOOLEAN /\ look.inactive \in BOOLEAN
  BY LooksTyped DEF MasterOK, AllLooks
<1>4. CASE board = "MB"
  <2>1. ColorOf(look, 2) = Event(look.active) /\ ColorOf(look, 3) = Event(look.inactive)
    BY <1>4 DEF ColorOf
  <2>2. EventUpdate(2, look.active) \in Meant /\ EventUpdate(3, look.inactive) \in Meant
    BY <1>2, <1>3, <2>1
  <2> QED
    BY <1>4, <2>2, PairTyped DEF EventUpdatesMB
<1>5. CASE board = "Zynq"
  <2>1. ColorOf(look, 5) = Event(look.inactive) /\ ColorOf(look, 6) = Event(look.active)
    BY <1>5 DEF ColorOf
  <2>2. EventUpdate(5, look.inactive) \in Meant /\ EventUpdate(6, look.active) \in Meant
    BY <1>2, <1>3, <2>1
  <2> QED
    BY <1>5, <2>2, PairTyped DEF EventUpdatesZynq
<1> QED
  BY <1>1, <1>4, <1>5

-----------------------------------------------------------------------------
(* The registers of the LEDs.                                              *)

Index(silk, f) == c_color_leds[board][silk][f]

LEMMA WholeKept ==
    ASSUME board' = board, NEW silk, Colors(silk)' = Colors(silk), Whole(silk)
    PROVE  Whole(silk)'
<1>1. \A v \in Looks : ColorOf(v, silk)' = ColorOf(v, silk)
  BY DEF ColorOf
<1>2. ColorFull' = ColorFull
  BY DEF ColorFull
<1> QED
  BY <1>1, <1>2 DEF Whole, ShowsColor

LEMMA ColorsAre ==
    ASSUME NEW silk
    PROVE  Colors(silk) = <<leds.color[Index(silk, "r")], leds.color[Index(silk, "g")],
                            leds.color[Index(silk, "b")]>>
  BY DEF Colors, Index

(* An LED whose filaments show the parts of a look's color is whole.       *)
LEMMA WholeByParts ==
    ASSUME NEW silk, NEW v \in Looks, NEW rgb,
           \A i \in 1..3 : rgb[<<"r", "g", "b">>[i]] = ColorOf(v, silk)[i],
           \A f \in Filaments : leds.color[Index(silk, f)] = Bright(rgb[f], ColorFull)
    PROVE  Whole(silk)
<1>1. /\ rgb["r"] = ColorOf(v, silk)[1] /\ rgb["g"] = ColorOf(v, silk)[2]
      /\ rgb["b"] = ColorOf(v, silk)[3]
  OBVIOUS
<1>2. /\ leds.color[Index(silk, "r")] = Bright(ColorOf(v, silk)[1], ColorFull)
      /\ leds.color[Index(silk, "g")] = Bright(ColorOf(v, silk)[2], ColorFull)
      /\ leds.color[Index(silk, "b")] = Bright(ColorOf(v, silk)[3], ColorFull)
  BY <1>1 DEF Filaments
<1>3. ShowsColor(silk, ColorOf(v, silk))
  BY <1>2, ColorsAre DEF ShowsColor
<1> QED
  BY <1>3 DEF Whole

LEMMA DarkIsWhole ==
    ASSUME leds = InitAllLedsOff(board), board \in Boards, NEW silk \in ColorLeds(board)
    PROVE  Whole(silk)
<1>1. \A f \in Filaments : Index(silk, f) \in ColorIndexes(board)
  BY IndexesApart DEF Index
<1>2. \A f \in Filaments : leds.color[Index(silk, f)] = 0
  BY <1>1 DEF InitAllLedsOff, InitColorLedsOff
<1>3. Colors(silk) = <<0, 0, 0>>
  BY <1>2, ColorsAre DEF Filaments
<1>4. ShowsColor(silk, <<0, 0, 0>>)
  BY <1>3 DEF ShowsColor, Bright
<1> QED
  BY <1>4 DEF Whole

LEMMA OffTyped ==
    InitAllLedsOff(board) \in [color: [ColorIndexes(board) -> 0..PWM_PERIOD],
                               basic: [BasicIndexes -> 0..PWM_PERIOD]]
<1>1. 0 \in 0..PWM_PERIOD
  BY PeriodIsLong
<1> QED
  BY <1>1 DEF InitAllLedsOff, InitColorLedsOff, InitBasicLedsOff

(* One filament of the LED task's item is written, and no other register.  *)
LEMMA FilamentWrite ==
    ASSUME MasterOK, LedTaskOK, LedsOK, NEW f \in Filaments, ledPc = f,
           leds' = SetColorLedPercent(board, leds, ledItem.silk, f,
                                      PalettePercent(ledItem.rgb[f]))
    PROVE  /\ leds' \in [color: [ColorIndexes(board) -> 0..PWM_PERIOD],
                         basic: [BasicIndexes -> 0..PWM_PERIOD]]
           /\ leds'.color[Index(ledItem.silk, f)] = Bright(ledItem.rgb[f], ColorFull)
           /\ \A t \in ColorLeds(board), g \in Filaments :
                 t # ledItem.silk \/ g # f =>
                    leds'.color[Index(t, g)] = leds.color[Index(t, g)]
<1> DEFINE val == (PalettePercent(ledItem.rgb[f]) * maxColorDutyCycle(board)) \div 1000
           idx == Index(ledItem.silk, f)
<1>1. /\ ledItem \in Meant /\ ledItem.silk \in ColorLeds(board)
      /\ board \in {"MB", "Zynq"} /\ board \in Boards
  BY LooksTyped DEF MasterOK, LedTaskOK, Painting, Filaments, Boards
<1>2. ledItem.rgb[f] \in Palette
  BY <1>1 DEF Meant, LedUpdates
<1>3. ledItem.rgb[f] \in {0, 127, 255}
  <2>1. PICK v \in Looks : \A i \in 1..3 : ledItem.rgb[<<"r", "g", "b">>[i]]
                                              = ColorOf(v, ledItem.silk)[i]
    BY <1>1 DEF Meant, IsMeant
  <2>2. v \in AllLooks
    BY LooksTyped
  <2>3. \A i \in 1..3 : ledItem.rgb[<<"r", "g", "b">>[i]] \in {0, 127, 255}
    BY <2>1, <2>2, ColorLevels
  <2> QED
    BY <2>3 DEF Filaments
<1>4. val \in 0..PWM_PERIOD
  BY <1>2, ColorDutyInPeriod
<1>5. val = Bright(ledItem.rgb[f], ColorFull)
  BY <1>1, <1>3, BrightIsPercent DEF ColorFull
<1>6. /\ idx \in ColorIndexes(board)
      /\ \A t \in ColorLeds(board), g \in Filaments :
            Index(t, g) = idx => t = ledItem.silk /\ g = f
      /\ \A t \in ColorLeds(board), g \in Filaments : Index(t, g) \in ColorIndexes(board)
  BY <1>1, IndexesApart DEF Index
<1>7. leds' = [leds EXCEPT !.color[idx] = val]
  BY <1>1 DEF SetColorLedPercent, Index
<1> HIDE DEF val, idx
<1>8. leds'.color = [leds.color EXCEPT ![idx] = val] /\ leds'.basic = leds.basic
  BY <1>7 DEF LedsOK
<1>9. leds'.color \in [ColorIndexes(board) -> 0..PWM_PERIOD]
  BY <1>4, <1>8 DEF LedsOK
<1>10. leds' \in [color: [ColorIndexes(board) -> 0..PWM_PERIOD],
                  basic: [BasicIndexes -> 0..PWM_PERIOD]]
  BY <1>4, <1>7 DEF LedsOK
<1>11. leds'.color[idx] = val
  BY <1>6, <1>8 DEF LedsOK
<1>12. ASSUME NEW t \in ColorLeds(board), NEW g \in Filaments, t # ledItem.silk \/ g # f
       PROVE  leds'.color[Index(t, g)] = leds.color[Index(t, g)]
  BY <1>6, <1>8, <1>12 DEF LedsOK
<1> QED
  BY <1>5, <1>10, <1>11, <1>12 DEF idx

-----------------------------------------------------------------------------
(* What the variables an action leaves alone keep.                         *)

LEMMA MeantKept == ASSUME board' = board PROVE Meant' = Meant
<1>1. \A v, s : ColorOf(v, s)' = ColorOf(v, s)
  BY DEF ColorOf
<1>2. \A u : IsMeant(u)' <=> IsMeant(u)
  BY <1>1 DEF IsMeant
<1> QED
  BY <1>2 DEF Meant

LEMMA TextsKept ==
    ASSUME TextsOK, UNCHANGED <<clsPc, clsLines, display, printPc, line, terminal>>
    PROVE  TextsOK'
  BY DEF TextsOK

LEMMA LedsKept ==
    ASSUME LedTaskOK, LedsOK, LedsWhole, UNCHANGED <<board, ledPc, ledItem, leds>>
    PROVE  LedTaskOK' /\ LedsOK' /\ LedsWhole'
<1>1. LedTaskOK'
  BY MeantKept DEF LedTaskOK
<1>2. LedsOK'
  BY DEF LedsOK
<1>3. \A s \in ColorLeds(board) : Whole(s) => Whole(s)'
  BY WholeKept DEF Colors
<1>4. Painted("r")' = Painted("r") /\ Painted("g")' = Painted("g")
  BY DEF Painted, ColorFull
<1> QED
  BY <1>1, <1>2, <1>3, <1>4 DEF LedsWhole

LEMMA QueuesKept ==
    ASSUME QueuesOK, UNCHANGED <<board, queues>>
    PROVE  QueuesOK'
  BY MeantKept DEF QueuesOK, queues

-----------------------------------------------------------------------------
(* The LED task.                                                           *)

LEMMA MasterKept ==
    ASSUME MasterOK, Blocked, UNCHANGED <<masterVars, dropped>>,
           served' \in [led: 0..LedRate, cls: 0..1, print: 0..1]
    PROVE  MasterOK'
  BY DEF MasterOK, Blocked, masterVars

LEMMA ServedTyped ==
    ASSUME MasterOK
    PROVE  /\ LedServed \in [led: 0..LedRate, cls: 0..1, print: 0..1]
           /\ [served EXCEPT !.cls = TextRate] \in [led: 0..LedRate, cls: 0..1, print: 0..1]
           /\ [served EXCEPT !.print = TextRate] \in [led: 0..LedRate, cls: 0..1, print: 0..1]
  BY LengthAssumption DEF MasterOK, LedServed

LEMMA PaintStep ==
    ASSUME TasksInv, NEW f \in Filaments, NEW next, setFilament(f, next),
           <<f, next>> \in {<<"r", "g">>, <<"g", "b">>, <<"b", "receive">>}
    PROVE  TasksInv'
<1>1. /\ MasterOK /\ LedTaskOK /\ LedsOK /\ ledPc = f /\ board' = board
      /\ ledItem' = ledItem /\ ledPc' = next
      /\ leds' = SetColorLedPercent(board, leds, ledItem.silk, f,
                                    PalettePercent(ledItem.rgb[f]))
  BY DEF TasksInv, setFilament, masterVars
<1>2. /\ leds' \in [color: [ColorIndexes(board) -> 0..PWM_PERIOD],
                    basic: [BasicIndexes -> 0..PWM_PERIOD]]
      /\ leds'.color[Index(ledItem.silk, f)] = Bright(ledItem.rgb[f], ColorFull)
      /\ \A t \in ColorLeds(board), g \in Filaments :
            t # ledItem.silk \/ g # f =>
               leds'.color[Index(t, g)] = leds.color[Index(t, g)]
  BY <1>1, FilamentWrite
<1>3. ledItem \in Meant /\ ledItem.silk \in ColorLeds(board)
  BY <1>1 DEF LedTaskOK, Painting, Filaments
<1>4. MasterOK'
  <2>1. served' \in [led: 0..LedRate, cls: 0..1, print: 0..1]
    BY <1>1, ServedTyped DEF setFilament, MasterOK
  <2>2. Blocked /\ UNCHANGED <<masterVars, dropped>>
    BY DEF setFilament, IdleTime
  <2> QED
    BY <1>1, <2>1, <2>2, MasterKept
<1>5. QueuesOK' /\ TextsOK'
  BY QueuesKept, TextsKept DEF TasksInv, setFilament, masterVars, clsVars, printVars
<1>6. LedTaskOK'
  BY <1>1, <1>3, MeantKept DEF LedTaskOK, Painting
<1>7. LedsOK'
  BY <1>1, <1>2 DEF LedsOK
<1>8. \A s, g : Index(s, g)' = Index(s, g)
  BY <1>1 DEF Index
<1>9. ColorFull' = ColorFull
  BY <1>1 DEF ColorFull
<1>10. \A g \in Filaments : g # f /\ Painted(g) => Painted(g)'
  BY <1>1, <1>2, <1>3, <1>9, Zenon DEF Painted, Index
<1>11. Painted(f)'
  BY <1>1, <1>2, <1>9 DEF Painted, Index
<1>12. ASSUME NEW t \in ColorLeds(board), t # ledItem.silk PROVE Whole(t)'
  <2>1. Whole(t)
    BY <1>12 DEF TasksInv, LedsWhole
  <2>2. Colors(t)' = Colors(t)
    <3>1. \A g \in Filaments : leds'.color[Index(t, g)] = leds.color[Index(t, g)]
      BY <1>2, <1>12
    <3> QED
      BY <3>1, <1>1 DEF Colors, Index, Filaments
  <2> QED
    BY <1>1, <2>1, <2>2, WholeKept
<1>13. ASSUME f = "b" PROVE Whole(ledItem.silk)'
  <2>1. PICK v \in Looks : \A i \in 1..3 : ledItem.rgb[<<"r", "g", "b">>[i]]
                                              = ColorOf(v, ledItem.silk)[i]
    BY <1>3 DEF Meant, IsMeant
  <2>2. ColorOf(v, ledItem.silk)' = ColorOf(v, ledItem.silk)
    BY <1>1 DEF ColorOf
  <2>3. Painted("r")' /\ Painted("g")' /\ Painted("b")'
    BY <1>1, <1>10, <1>11, <1>13 DEF TasksInv, LedsWhole, Filaments
  <2>4. \A g \in Filaments : leds'.color[Index(ledItem.silk, g)']
                                = Bright(ledItem.rgb[g], ColorFull')
    BY <1>1, <2>3 DEF Painted, Index, Filaments
  <2>5. \A i \in 1..3 : ledItem.rgb[<<"r", "g", "b">>[i]] = ColorOf(v, ledItem.silk)'[i]
    BY <2>1, <2>2
  <2>6. /\ leds'.color[Index(ledItem.silk, "r")'] = Bright(ColorOf(v, ledItem.silk)'[1], ColorFull')
        /\ leds'.color[Index(ledItem.silk, "g")'] = Bright(ColorOf(v, ledItem.silk)'[2], ColorFull')
        /\ leds'.color[Index(ledItem.silk, "b")'] = Bright(ColorOf(v, ledItem.silk)'[3], ColorFull')
    <3>1. /\ ledItem.rgb["r"] = ColorOf(v, ledItem.silk)'[1]
          /\ ledItem.rgb["g"] = ColorOf(v, ledItem.silk)'[2]
          /\ ledItem.rgb["b"] = ColorOf(v, ledItem.silk)'[3]
      BY <2>5
    <3>2. "r" \in Filaments /\ "g" \in Filaments /\ "b" \in Filaments
      BY DEF Filaments
    <3> QED
      BY ONLY <2>4, <3>1, <3>2
  <2>7. ShowsColor(ledItem.silk, ColorOf(v, ledItem.silk))'
    <3>1. ledItem' = ledItem
      BY <1>1
    <3>2. ASSUME NEW i \in 1..3
          PROVE  leds'.color[c_color_leds[board'][ledItem.silk][<<"r", "g", "b">>[i]]]
                    = Bright(ColorOf(v, ledItem.silk)'[i], ColorFull')
      <4>1. <<"r", "g", "b">>[1] = "r" /\ <<"r", "g", "b">>[2] = "g" /\ <<"r", "g", "b">>[3] = "b"
        OBVIOUS
      <4>2. i = 1 \/ i = 2 \/ i = 3
        OBVIOUS
      <4> QED
        BY ONLY <2>6, <3>1, <4>1, <4>2, Zenon DEF Index
    <3> QED
      BY ONLY <3>1, <3>2, Zenon DEF ShowsColor, Colors
  <2> QED
    BY <1>1, <2>7 DEF Whole
<1>14. LedsWhole'
  <2>1. ColorLeds(board)' = ColorLeds(board)
    BY <1>1
  <2>2. CASE f = "r"
    BY <1>1, <1>11, <1>12, <2>1, <2>2 DEF LedsWhole
  <2>3. CASE f = "g"
    <3>1. Painted("r")' /\ Painted("g")'
      BY <1>1, <1>10, <1>11, <2>3 DEF TasksInv, LedsWhole, Filaments
    <3> QED
      BY <1>1, <1>12, <2>1, <2>3, <3>1 DEF LedsWhole
  <2>4. CASE f = "b"
    BY <1>1, <1>12, <1>13, <2>1, <2>4 DEF LedsWhole
  <2> QED
    BY <2>2, <2>3, <2>4 DEF Filaments
<1> QED
  BY <1>4, <1>5, <1>6, <1>7, <1>14 DEF TasksInv

(* All LEDs off are whole LEDs, whatever board they are on.                *)
LEMMA OffStep ==
    ASSUME MasterOK, board' = board, leds' = InitAllLedsOff(board),
           ledPc' \notin {"g", "b"}
    PROVE  LedsOK' /\ LedsWhole'
<1>1. LedsOK'
  BY OffTyped DEF LedsOK
<1>2. board \in Boards
  BY LooksTyped DEF MasterOK
<1>3. \A t \in ColorLeds(board) : \A f \in Filaments : Index(t, f) \in ColorIndexes(board)
  BY <1>2, IndexesApart DEF Index
<1>4. ASSUME NEW t \in ColorLeds(board) PROVE Whole(t)'
  <2>1. \A f \in Filaments : leds'.color[Index(t, f)] = 0
    BY <1>3 DEF InitAllLedsOff, InitColorLedsOff
  <2>2. Colors(t)' = <<0, 0, 0>>
    BY <2>1 DEF Colors, Index, Filaments
  <2>3. ShowsColor(t, <<0, 0, 0>>)'
    BY <2>2 DEF ShowsColor, Bright
  <2> QED
    BY <2>3 DEF Whole
<1> QED
  BY <1>1, <1>4 DEF LedsWhole

LEMMA LedStartStep == ASSUME TasksInv, ledStart PROVE TasksInv'
<1>1. MasterOK /\ LedTaskOK /\ board' = board /\ ledPc = "start" /\ ledPc' = "receive"
  BY DEF TasksInv, ledStart, masterVars
<1>2. MasterOK'
  BY <1>1, MasterKept DEF ledStart, IdleTime, MasterOK
<1>3. QueuesOK' /\ TextsOK'
  BY QueuesKept, TextsKept DEF TasksInv, ledStart, masterVars, clsVars, printVars
<1>4. LedTaskOK'
  BY <1>1 DEF LedTaskOK, ledStart, Painting
<1>5. LedsOK' /\ LedsWhole'
  BY <1>1, OffStep DEF ledStart
<1> QED
  BY <1>2, <1>3, <1>4, <1>5 DEF TasksInv

LEMMA ReceiveStep == ASSUME TasksInv, ledReceive PROVE TasksInv'
<1>1. /\ MasterOK /\ QueuesOK /\ LedTaskOK /\ LedsOK /\ LedsWhole
      /\ board' = board /\ leds' = leds /\ ledPc = "receive"
      /\ ledItem' = Head(ledQueue) /\ ledQueue' = Tail(ledQueue) /\ ledQueue # << >>
      /\ ledPc' = IF board = "MB" THEN DispatchMB(ledItem') ELSE DispatchZynq(ledItem')
  BY DEF TasksInv, ledReceive, masterVars
<1>2. /\ ledItem' \in Meant /\ ledQueue' \in Seq(Meant)
      /\ Len(ledQueue') <= LedQueueLen
  BY <1>1, HeadTailProperties, LenProperties, LengthAssumption DEF QueuesOK
<1>3. MasterOK'
  BY <1>1, MasterKept DEF ledReceive, IdleTime, MasterOK
<1>4. QueuesOK'
  BY <1>1, <1>2, MeantKept DEF QueuesOK, ledReceive
<1>5. TextsOK'
  BY TextsKept DEF TasksInv, ledReceive, clsVars, printVars
<1>6. board \in {"MB", "Zynq"}
  BY <1>1, LooksTyped DEF MasterOK, LedTaskOK, Boards
<1>7. /\ ledPc' \in {"receive", "r", "basic"}
      /\ ledPc' = "r" => ledItem'.silk \in ColorLeds(board)
      /\ ledPc' = "basic" => ledItem'.rgb.g <= 100
  <2>1. ledItem'.silk \in 0..7
    BY <1>2 DEF Meant, LedUpdates
  <2>2. CASE board = "MB"
    BY <1>1, <2>1, <2>2, BoardLeds DEF DispatchMB
  <2>3. CASE board = "Zynq"
    BY <1>1, <2>1, <2>3, BoardLeds DEF DispatchZynq
  <2> QED
    BY <1>6, <2>2, <2>3
<1>8. LedTaskOK'
  <2>1. ledItem' \in LedUpdates
    BY <1>2 DEF Meant
  <2> QED
    BY <1>1, <1>2, <1>6, <1>7, <2>1, MeantKept DEF LedTaskOK, Painting
<1>9. LedsOK'
  BY <1>1 DEF LedsOK
<1>10. LedsWhole'
  <2>1. \A t \in ColorLeds(board) : Whole(t)'
    BY <1>1, WholeKept DEF LedsWhole, Colors
  <2> QED
    BY <1>1, <1>7, <2>1 DEF LedsWhole
<1> QED
  BY <1>3, <1>4, <1>5, <1>8, <1>9, <1>10 DEF TasksInv

LEMMA BasicStep == ASSUME TasksInv, setBasic PROVE TasksInv'
<1>1. /\ MasterOK /\ LedTaskOK /\ LedsOK /\ LedsWhole /\ board' = board
      /\ ledPc = "basic" /\ ledPc' = "receive" /\ ledItem' = ledItem
      /\ leds' = SetBasicLedPercent(board, leds, ledItem.silk, 10 * ledItem.rgb.g)
  BY DEF TasksInv, setBasic, masterVars
<1>2. MasterOK'
  <2>1. served' \in [led: 0..LedRate, cls: 0..1, print: 0..1]
    BY <1>1, ServedTyped DEF setBasic
  <2>2. Blocked /\ UNCHANGED <<masterVars, dropped>>
    BY DEF setBasic, IdleTime
  <2> QED
    BY <1>1, <2>1, <2>2, MasterKept
<1>3. QueuesOK' /\ TextsOK'
  BY QueuesKept, TextsKept DEF TasksInv, setBasic, masterVars, clsVars, printVars
<1>4. LedTaskOK'
  BY <1>1 DEF LedTaskOK, Painting
<1>5. ((10 * ledItem.rgb.g) * maxBasicDutyCycle) \div 1000 \in 0..PWM_PERIOD
  <2>1. ledItem.rgb.g \in 0..100
    <3>1. ledItem.rgb.g \in Palette
      BY <1>1 DEF LedTaskOK, LedUpdates, Filaments
    <3> QED
      BY <1>1, <3>1, SMT DEF LedTaskOK, Palette
  <2> QED
    BY <2>1, BasicDutyInPeriod
<1>6. /\ leds' \in [color: [ColorIndexes(board) -> 0..PWM_PERIOD],
                    basic: [BasicIndexes -> 0..PWM_PERIOD]]
      /\ leds'.color = leds.color
  BY <1>1, <1>5 DEF SetBasicLedPercent, LedsOK
<1>7. LedsOK'
  BY <1>1, <1>6 DEF LedsOK
<1>8. LedsWhole'
  <2>1. \A t \in ColorLeds(board) : Whole(t)'
    BY <1>1, <1>6, WholeKept DEF LedsWhole, Colors
  <2> QED
    BY <1>1, <2>1 DEF LedsWhole
<1> QED
  BY <1>2, <1>3, <1>4, <1>7, <1>8 DEF TasksInv

-----------------------------------------------------------------------------
(* The print task and the display task.                                    *)

LEMMA PrintTaskStep == ASSUME TasksInv, PrintTask PROVE TasksInv'
<1>1. MasterOK /\ Blocked /\ UNCHANGED <<masterVars, dropped, board, ledPc, ledItem, leds>>
  BY DEF TasksInv, PrintTask, printReceive, printLine, ledVars, masterVars
<1>2. served' \in [led: 0..LedRate, cls: 0..1, print: 0..1]
  BY <1>1, ServedTyped DEF PrintTask, printReceive, printLine, MasterOK
<1>3. MasterOK'
  BY <1>1, <1>2, MasterKept
<1>4. LedTaskOK' /\ LedsOK' /\ LedsWhole'
  BY <1>1, LedsKept DEF TasksInv
<1>5. CASE printReceive
  <2>1. Head(printQueue) \in Looks /\ Tail(printQueue) \in Seq(Looks)
        /\ Len(Tail(printQueue)) <= PrintQueueLen
    BY <1>5, HeadTailProperties, LenProperties, LengthAssumption
    DEF TasksInv, QueuesOK, printReceive
  <2>2. QueuesOK'
    BY <1>1, <1>5, <2>1, MeantKept DEF TasksInv, QueuesOK, printReceive
  <2>3. TextsOK'
    BY <1>5, <2>1 DEF TasksInv, TextsOK, printReceive, clsVars, Shown
  <2> QED
    BY <1>3, <1>4, <2>2, <2>3 DEF TasksInv
<1>6. CASE printLine
  <2>1. QueuesOK'
    BY <1>1, <1>6, QueuesKept DEF TasksInv, printLine
  <2>2. TextsOK'
    BY <1>6 DEF TasksInv, TextsOK, printLine, clsVars
  <2> QED
    BY <1>3, <1>4, <2>1, <2>2 DEF TasksInv
<1> QED
  BY <1>5, <1>6 DEF PrintTask

LEMMA ClsStep == ASSUME TasksInv, Cls PROVE TasksInv'
<1> USE DEF clsWrite, CLS_DisplayClear, CLS_WriteStringLine1, CLS_WriteStringLine2
<1>1. MasterOK /\ Blocked /\ UNCHANGED <<masterVars, dropped, board, ledPc, ledItem, leds>>
  BY DEF TasksInv, Cls, clsStart, clsReceive, IdleTime, ledVars, masterVars
<1>2. served' \in [led: 0..LedRate, cls: 0..1, print: 0..1]
  BY <1>1, ServedTyped DEF Cls, clsStart, clsReceive, MasterOK
<1>3. MasterOK'
  BY <1>1, <1>2, MasterKept
<1>4. LedTaskOK' /\ LedsOK' /\ LedsWhole'
  BY <1>1, LedsKept DEF TasksInv
<1>5. CASE clsReceive
  <2>1. Head(clsQueue) \in Looks /\ Tail(clsQueue) \in Seq(Looks)
        /\ Len(Tail(clsQueue)) <= ClsQueueLen
    BY <1>5, HeadTailProperties, LenProperties, LengthAssumption
    DEF TasksInv, QueuesOK, clsReceive
  <2>2. QueuesOK'
    BY <1>1, <1>5, <2>1, MeantKept DEF TasksInv, QueuesOK, clsReceive
  <2>3. TextsOK'
    BY <1>5, <2>1 DEF TasksInv, TextsOK, clsReceive, printVars, Shown
  <2> QED
    BY <1>3, <1>4, <2>2, <2>3 DEF TasksInv
<1>6. CASE ~clsReceive
  <2>1. QueuesOK'
    BY <1>1, <1>6, QueuesKept DEF TasksInv, Cls, clsStart
  <2>2. Off \in Shown /\ Looks \subseteq Shown
    BY DEF Shown
  <2>3. TextsOK'
    <3>1. CASE clsStart
      BY <2>2, <3>1 DEF TasksInv, TextsOK, clsStart, printVars
    <3>2. CASE CLS_DisplayClear
      BY <2>2, <3>2 DEF TasksInv, TextsOK, printVars
    <3>3. CASE CLS_WriteStringLine1
      BY <2>2, <3>3 DEF TasksInv, TextsOK, printVars
    <3>4. CASE CLS_WriteStringLine2
      BY <2>2, <3>4 DEF TasksInv, TextsOK, printVars
    <3> QED
      BY <1>6, <3>1, <3>2, <3>3, <3>4 DEF Cls
  <2> QED
    BY <1>3, <1>4, <2>1, <2>3 DEF TasksInv
<1> QED
  BY <1>5, <1>6

-----------------------------------------------------------------------------
(* The master task.                                                        *)

LEMMA BitTyped ==
    ASSUME NEW D, NEW word \in [D -> 0..PWM_PERIOD], NEW i, NEW on
    PROVE  WithBit(word, i, on) \in [D -> 0..PWM_PERIOD]
<1>1. 0 \in 0..PWM_PERIOD /\ 1 \in 0..PWM_PERIOD
  BY PeriodIsLong
<1> QED
  BY <1>1 DEF WithBit

LEMMA BitsTyped ==
    ASSUME LedsOK
    PROVE  /\ StatusBitsS7 \in [color: [ColorIndexes(board) -> 0..PWM_PERIOD],
                                basic: [BasicIndexes -> 0..PWM_PERIOD]]
           /\ StatusBitsS7.color = leds.color
           /\ EventBitsS7 \in [color: [ColorIndexes(board) -> 0..PWM_PERIOD],
                               basic: [BasicIndexes -> 0..PWM_PERIOD]]
<1> DEFINE Regs == [color: [ColorIndexes(board) -> 0..PWM_PERIOD],
                    basic: [BasicIndexes -> 0..PWM_PERIOD]]
<1>1. ASSUME NEW regs \in Regs, NEW s, NEW on
      PROVE  SetBasicLedState(regs, s, on) \in Regs
             /\ SetBasicLedState(regs, s, on).color = regs.color
  BY BitTyped DEF SetBasicLedState
<1>2. ASSUME NEW regs \in Regs, NEW s, NEW c, NEW on
      PROVE  SetColorLedState(regs, s, c, on) \in Regs
  BY BitTyped DEF SetColorLedState
<1>3. leds \in Regs
  BY DEF LedsOK
<1> HIDE DEF Regs
<1>4. StatusBitsS7 \in Regs /\ StatusBitsS7.color = leds.color
  <2> DEFINE r1 == SetBasicLedState(leds, 2, look.awake)
             r2 == SetBasicLedState(r1, 3, FALSE)
             r3 == SetBasicLedState(r2, 4, look.sw0)
             r4 == SetBasicLedState(r3, 5, look.sw1)
  <2>1. r1 \in Regs /\ r1.color = leds.color
    BY <1>1, <1>3
  <2> HIDE DEF r1
  <2>2. r2 \in Regs /\ r2.color = leds.color
    BY <1>1, <2>1
  <2> HIDE DEF r2
  <2>3. r3 \in Regs /\ r3.color = leds.color
    BY <1>1, <2>2
  <2> HIDE DEF r3
  <2>4. r4 \in Regs /\ r4.color = leds.color
    BY <1>1, <2>3
  <2> QED
    BY <2>4 DEF StatusBitsS7, r1, r2, r3
<1>5. ASSUME NEW regs \in Regs, NEW s, NEW on PROVE EventBits(regs, s, on) \in Regs
  <2> DEFINE r1 == SetColorLedState(regs, s, "r", ~on)
             r2 == SetColorLedState(r1, s, "g", on)
             r3 == SetColorLedState(r2, s, "b", FALSE)
  <2>1. r1 \in Regs
    BY <1>2
  <2> HIDE DEF r1
  <2>2. r2 \in Regs
    BY <1>2, <2>1
  <2> HIDE DEF r2
  <2>3. r3 \in Regs
    BY <1>2, <2>2
  <2> QED
    BY <2>3 DEF EventBits, r1, r2
<1>6. EventBitsS7 \in Regs
  <2>1. EventBits(leds, 0, look.active) \in Regs
    BY <1>3, <1>5
  <2> QED
    BY <1>5, <2>1 DEF EventBitsS7
<1> QED
  BY <1>4, <1>6 DEF Regs

(* A color LED of the Spartan-7 board whose three bits are those of an     *)
(* event shows it.                                                         *)
LEMMA EventShown ==
    ASSUME board = "S7", board' = board, NEW v \in Looks, NEW s, NEW green \in BOOLEAN,
           ColorOf(v, s) = Event(green),
           leds'.color[Index(s, "r")] = (IF ~green THEN 1 ELSE 0),
           leds'.color[Index(s, "g")] = (IF green THEN 1 ELSE 0),
           leds'.color[Index(s, "b")] = 0
    PROVE  Whole(s)'
<1>1. ColorFull' = 1 /\ Bright(255, 1) = 1 /\ Bright(0, 1) = 0
  BY DEF ColorFull, Bright
<1>2. ColorOf(v, s)' = ColorOf(v, s)
  BY DEF ColorOf
<1>3. CASE green
  <2>1. ColorOf(v, s)' = <<0, 255, 0>>
    BY <1>2, <1>3 DEF Event, Green
  <2>2. Colors(s)' = <<0, 1, 0>>
    BY <1>3 DEF Colors, Index
  <2> QED
    BY <1>1, <2>1, <2>2 DEF Whole, ShowsColor
<1>4. CASE ~green
  <2>1. ColorOf(v, s)' = <<255, 0, 0>>
    BY <1>2, <1>4 DEF Event, Red
  <2>2. Colors(s)' = <<1, 0, 0>>
    BY <1>4 DEF Colors, Index
  <2> QED
    BY <1>1, <2>1, <2>2 DEF Whole, ShowsColor
<1> QED
  BY <1>3, <1>4

(* The two event LEDs of the Spartan-7 board, after they were written.     *)
LEMMA EventBitsWrite ==
    ASSUME LedsOK, board = "S7"
    PROVE  /\ EventBitsS7.color[0] = IF ~look.active THEN 1 ELSE 0
           /\ EventBitsS7.color[1] = IF look.active THEN 1 ELSE 0
           /\ EventBitsS7.color[2] = 0
           /\ EventBitsS7.color[3] = IF ~look.inactive THEN 1 ELSE 0
           /\ EventBitsS7.color[4] = IF look.inactive THEN 1 ELSE 0
           /\ EventBitsS7.color[5] = 0
<1> DEFINE red0 == IF ~look.active THEN 1 ELSE 0
           green0 == IF look.active THEN 1 ELSE 0
           red1 == IF ~look.inactive THEN 1 ELSE 0
           green1 == IF look.inactive THEN 1 ELSE 0
           r1 == SetColorLedState(leds, 0, "r", ~look.active)
           r2 == SetColorLedState(r1, 0, "g", look.active)
           r3 == SetColorLedState(r2, 0, "b", FALSE)
           r4 == SetColorLedState(r3, 1, "r", ~look.inactive)
           r5 == SetColorLedState(r4, 1, "g", look.inactive)
           r6 == SetColorLedState(r5, 1, "b", FALSE)
           IsRegs(regs) == DOMAIN regs = {"color", "basic"} /\ DOMAIN regs.color = 0..5
<1>1. EventBitsS7 = r6
  BY DEF EventBitsS7, EventBits
<1>2. /\ c_color_leds["S7"][0]["r"] = 0 /\ c_color_leds["S7"][0]["g"] = 1
      /\ c_color_leds["S7"][0]["b"] = 2
      /\ c_color_leds["S7"][1]["r"] = 3 /\ c_color_leds["S7"][1]["g"] = 4
      /\ c_color_leds["S7"][1]["b"] = 5
  BY DEF c_color_leds, ColorLedsS7
<1>3. IsRegs(leds)
  BY DEF LedsOK, ColorIndexes
<1>4. IsRegs(r1) /\ r1.color = [leds.color EXCEPT ![0] = red0]
  BY <1>2, <1>3 DEF SetColorLedState, WithBit
<1> HIDE DEF r1
<1>5. IsRegs(r2) /\ r2.color = [r1.color EXCEPT ![1] = green0]
  BY <1>2, <1>4 DEF SetColorLedState, WithBit
<1> HIDE DEF r2
<1>6. IsRegs(r3) /\ r3.color = [r2.color EXCEPT ![2] = 0]
  BY <1>2, <1>5 DEF SetColorLedState, WithBit
<1> HIDE DEF r3
<1>7. IsRegs(r4) /\ r4.color = [r3.color EXCEPT ![3] = red1]
  BY <1>2, <1>6 DEF SetColorLedState, WithBit
<1> HIDE DEF r4
<1>8. IsRegs(r5) /\ r5.color = [r4.color EXCEPT ![4] = green1]
  BY <1>2, <1>7 DEF SetColorLedState, WithBit
<1> HIDE DEF r5
<1>9. IsRegs(r6) /\ r6.color = [r5.color EXCEPT ![5] = 0]
  BY <1>2, <1>8 DEF SetColorLedState, WithBit
<1> HIDE DEF r6, red0, green0, red1, green1
<1>10. r3.color[0] = red0 /\ r3.color[1] = green0 /\ r3.color[2] = 0
  BY <1>3, <1>4, <1>5, <1>6
<1>11. /\ r6.color[0] = r3.color[0] /\ r6.color[1] = r3.color[1]
       /\ r6.color[2] = r3.color[2]
       /\ r6.color[3] = red1 /\ r6.color[4] = green1 /\ r6.color[5] = 0
  BY <1>6, <1>7, <1>8, <1>9
<1> QED
  BY <1>1, <1>10, <1>11, Zenon DEF red0, green0, red1, green1

LEMMA EventBitsShow ==
    ASSUME MasterOK, LedsOK, board = "S7", board' = board, leds' = EventBitsS7,
           NEW t \in ColorLeds(board)
    PROVE  Whole(t)'
<1>1. look \in Looks /\ look.active \in BOOLEAN /\ look.inactive \in BOOLEAN
  BY LooksTyped DEF MasterOK, AllLooks
<1>2. /\ Index(0, "r") = 0 /\ Index(0, "g") = 1 /\ Index(0, "b") = 2
      /\ Index(1, "r") = 3 /\ Index(1, "g") = 4 /\ Index(1, "b") = 5
  BY DEF Index, c_color_leds, ColorLedsS7
<1>3. t \in {0, 1}
  BY BoardLeds
<1>4. CASE t = 0
  <2>1. ColorOf(look, t) = Event(look.active)
    BY <1>4 DEF ColorOf
  <2>2. /\ leds'.color[Index(t, "r")] = (IF ~look.active THEN 1 ELSE 0)
        /\ leds'.color[Index(t, "g")] = (IF look.active THEN 1 ELSE 0)
        /\ leds'.color[Index(t, "b")] = 0
    BY <1>2, <1>4, EventBitsWrite, Zenon
  <2> QED
    BY <1>1, <2>1, <2>2, EventShown, Zenon
<1>5. CASE t = 1
  <2>1. ColorOf(look, t) = Event(look.inactive)
    BY <1>5 DEF ColorOf
  <2>2. /\ leds'.color[Index(t, "r")] = (IF ~look.inactive THEN 1 ELSE 0)
        /\ leds'.color[Index(t, "g")] = (IF look.inactive THEN 1 ELSE 0)
        /\ leds'.color[Index(t, "b")] = 0
    BY <1>2, <1>5, EventBitsWrite, Zenon
  <2> QED
    BY <1>1, <2>1, <2>2, EventShown, Zenon
<1> QED
  BY <1>3, <1>4, <1>5

(* What the master sends before it is blocked.                             *)
LEMMA MasterRuns ==
    ASSUME TasksInv, ~Blocked, masterPc # "start",
           masterPc' \in {"updateLedsDisplayMode", "updateLedsStatuses",
                          "updateClsDisplayAndTerminal", "updateLedsEvents", "delay"},
           UNCHANGED <<board, look>>, poll' \in 0..(Polls - 1),
           served' \in [led: 0..LedRate, cls: 0..1, print: 0..1], dropped' \in BOOLEAN
    PROVE  MasterOK'
  BY DEF TasksInv, MasterOK

LEMMA LedQueueSent ==
    ASSUME QueuesOK, dropped \in BOOLEAN, board' = board,
           NEW updates \in Seq(Meant), SendLedUpdates(updates),
           UNCHANGED <<clsQueue, printQueue>>
    PROVE  QueuesOK' /\ dropped' \in BOOLEAN
<1>1. ledQueue' \in Seq(Meant) /\ Len(ledQueue') <= LedQueueLen
  BY SendTyped, LengthAssumption DEF QueuesOK, SendLedUpdates
<1>2. dropped' \in BOOLEAN
  BY DEF SendLedUpdates, Overflows
<1> QED
  BY <1>1, <1>2, MeantKept DEF QueuesOK

LEMMA StartStep == ASSUME TasksInv, masterStart PROVE TasksInv'
<1>1. /\ MasterOK /\ LedTaskOK /\ board' = board /\ ledPc' = ledPc
      /\ ledPc \in {"none", "start"} /\ leds' = InitAllLedsOff(board)
  BY DEF TasksInv, MasterOK, masterStart
<1>2. MasterOK'
  BY <1>1 DEF MasterOK, masterStart, FirstUpdate
<1>3. QueuesOK' /\ TextsOK'
  BY QueuesKept, TextsKept DEF TasksInv, masterStart, clsVars, printVars
<1>4. LedTaskOK'
  BY <1>1, MeantKept DEF LedTaskOK, masterStart
<1>5. LedsOK' /\ LedsWhole'
  BY <1>1, OffStep
<1> QED
  BY <1>2, <1>3, <1>4, <1>5 DEF TasksInv

LEMMA ModeStep == ASSUME TasksInv, updateLedsDisplayMode PROVE TasksInv'
<1>1. MasterOK /\ QueuesOK /\ board' = board
  BY DEF TasksInv, updateLedsDisplayMode
<1>2. (IF board = "MB" THEN ModeUpdates ELSE << >>) \in Seq(Meant)
  BY <1>1, ModeUpdatesMeant
<1>3. QueuesOK' /\ dropped' \in BOOLEAN
  BY <1>1, <1>2, LedQueueSent DEF updateLedsDisplayMode, MasterOK
<1>4. MasterOK'
  BY <1>3, MasterRuns DEF updateLedsDisplayMode, MasterOK, TasksInv, Blocked
<1>5. LedTaskOK' /\ LedsOK' /\ LedsWhole' /\ TextsOK'
  BY LedsKept, TextsKept DEF TasksInv, updateLedsDisplayMode, ledVars, clsVars, printVars
<1> QED
  BY <1>3, <1>4, <1>5 DEF TasksInv

LEMMA StatusesStep == ASSUME TasksInv, updateLedsStatuses PROVE TasksInv'
<1>1. /\ MasterOK /\ QueuesOK /\ LedTaskOK /\ LedsOK /\ LedsWhole
      /\ UNCHANGED <<board, look, poll, clsQueue, printQueue, ledPc, ledItem, served>>
  BY DEF TasksInv, updateLedsStatuses
<1>2. TextsOK'
  BY TextsKept DEF TasksInv, updateLedsStatuses, clsVars, printVars
<1>3. CASE board = "S7"
  <2>1. leds' = StatusBitsS7 /\ UNCHANGED <<ledQueue, dropped>>
    BY <1>3 DEF updateLedsStatuses
  <2>2. MasterOK'
    BY <1>1, <2>1, MasterRuns DEF updateLedsStatuses, MasterOK, Blocked
  <2>3. QueuesOK'
    BY <1>1, <2>1, QueuesKept DEF queues
  <2>4. LedTaskOK'
    BY <1>1, MeantKept DEF LedTaskOK
  <2>5. LedsOK' /\ leds'.color = leds.color
    BY <1>1, <2>1, BitsTyped DEF LedsOK
  <2>6. LedsWhole'
    <3>1. ledPc = "none"
      BY <1>1, <1>3 DEF LedTaskOK
    <3>2. \A t \in ColorLeds(board) : Whole(t)'
      BY <1>1, <2>5, <3>1, WholeKept DEF LedsWhole, Colors
    <3> QED
      BY <1>1, <3>1, <3>2 DEF LedsWhole
  <2> QED
    BY <1>2, <2>2, <2>3, <2>4, <2>5, <2>6 DEF TasksInv
<1>4. CASE board # "S7"
  <2> DEFINE updates == IF board = "MB" THEN StatusUpdatesMB ELSE StatusUpdatesZynq
  <2>1. SendLedUpdates(updates) /\ leds' = leds
    BY <1>4 DEF updateLedsStatuses
  <2>2. updates \in Seq(Meant)
    BY <1>1, <1>4, StatusUpdatesMeant
  <2> HIDE DEF updates
  <2>3. QueuesOK' /\ dropped' \in BOOLEAN
    BY <1>1, <2>1, <2>2, LedQueueSent DEF MasterOK
  <2>4. MasterOK'
    BY <1>1, <2>3, MasterRuns DEF updateLedsStatuses, MasterOK, Blocked
  <2>5. LedTaskOK' /\ LedsOK' /\ LedsWhole'
    BY <1>1, <2>1, LedsKept
  <2> QED
    BY <1>2, <2>3, <2>4, <2>5 DEF TasksInv
<1> QED
  BY <1>3, <1>4

LEMMA DisplayStep == ASSUME TasksInv, updateClsDisplayAndTerminal PROVE TasksInv'
<1>1. MasterOK /\ QueuesOK /\ look \in Looks /\ UNCHANGED <<board, ledQueue>>
  BY DEF TasksInv, MasterOK, updateClsDisplayAndTerminal
<1>2. <<look>> \in Seq(Looks)
  BY <1>1
<1>3. /\ clsQueue' \in Seq(Looks) /\ Len(clsQueue') <= ClsQueueLen
      /\ printQueue' \in Seq(Looks) /\ Len(printQueue') <= PrintQueueLen
  BY <1>1, <1>2, SendTyped, LengthAssumption DEF QueuesOK, updateClsDisplayAndTerminal
<1>4. QueuesOK'
  BY <1>1, <1>3, MeantKept DEF QueuesOK
<1>5. MasterOK'
  <2>1. dropped' \in BOOLEAN
    BY DEF updateClsDisplayAndTerminal, Overflows
  <2> QED
    BY <2>1, MasterRuns DEF updateClsDisplayAndTerminal, MasterOK, TasksInv, Blocked
<1>6. LedTaskOK' /\ LedsOK' /\ LedsWhole' /\ TextsOK'
  BY LedsKept, TextsKept
  DEF TasksInv, updateClsDisplayAndTerminal, ledVars, clsVars, printVars
<1> QED
  BY <1>4, <1>5, <1>6 DEF TasksInv

LEMMA EventsStep == ASSUME TasksInv, updateLedsEvents PROVE TasksInv'
<1>1. /\ MasterOK /\ QueuesOK /\ LedTaskOK /\ LedsOK /\ LedsWhole
      /\ UNCHANGED <<board, look, clsQueue, printQueue, ledPc, ledItem>>
      /\ poll' \in 0..(Polls - 1)
      /\ served' \in [led: 0..LedRate, cls: 0..1, print: 0..1]
  BY LengthAssumption DEF TasksInv, updateLedsEvents, NothingServed
<1>2. TextsOK'
  BY TextsKept DEF TasksInv, updateLedsEvents, clsVars, printVars
<1>3. CASE board = "S7"
  <2>1. leds' = EventBitsS7 /\ UNCHANGED <<ledQueue, dropped>>
    BY <1>3 DEF updateLedsEvents
  <2>2. MasterOK'
    BY <1>1, <2>1, MasterRuns DEF updateLedsEvents, MasterOK, Blocked
  <2>3. QueuesOK'
    BY <1>1, <2>1, QueuesKept DEF queues
  <2>4. LedTaskOK'
    BY <1>1, MeantKept DEF LedTaskOK
  <2>5. LedsOK'
    BY <1>1, <2>1, BitsTyped DEF LedsOK
  <2>6. LedsWhole'
    <3>1. ledPc' = "none" /\ board' = board
      BY <1>1, <1>3 DEF LedTaskOK
    <3>2. \A t \in ColorLeds(board) : Whole(t)'
      BY <1>1, <1>3, <2>1, EventBitsShow
    <3> QED
      BY <3>1, <3>2 DEF LedsWhole
  <2> QED
    BY <1>2, <2>2, <2>3, <2>4, <2>5, <2>6 DEF TasksInv
<1>4. CASE board # "S7"
  <2> DEFINE updates == IF board = "MB" THEN EventUpdatesMB ELSE EventUpdatesZynq
  <2>1. SendLedUpdates(updates) /\ leds' = leds
    BY <1>4 DEF updateLedsEvents
  <2>2. updates \in Seq(Meant)
    BY <1>1, <1>4, EventUpdatesMeant
  <2> HIDE DEF updates
  <2>3. QueuesOK' /\ dropped' \in BOOLEAN
    BY <1>1, <2>1, <2>2, LedQueueSent DEF MasterOK
  <2>4. MasterOK'
    BY <1>1, <2>3, MasterRuns DEF updateLedsEvents, MasterOK, Blocked
  <2>5. LedTaskOK' /\ LedsOK' /\ LedsWhole'
    BY <1>1, <2>1, LedsKept
  <2> QED
    BY <1>2, <2>3, <2>4, <2>5 DEF TasksInv
<1> QED
  BY <1>3, <1>4

LEMMA DelayStep == ASSUME TasksInv, delayOver PROVE TasksInv'
<1>1. MasterOK /\ board' = board
  BY DEF TasksInv, delayOver
<1>2. MasterOK'
  BY <1>1, LengthAssumption DEF MasterOK, delayOver, Blocked, FirstUpdate
<1>3. QueuesOK' /\ LedTaskOK' /\ LedsOK' /\ LedsWhole' /\ TextsOK'
  BY QueuesKept, LedsKept, TextsKept DEF TasksInv, delayOver, ledVars, clsVars, printVars
<1> QED
  BY <1>2, <1>3 DEF TasksInv

-----------------------------------------------------------------------------
(* The invariant.                                                          *)

LEMMA InitHolds == Init => TasksInv
<1> SUFFICES ASSUME Init PROVE TasksInv
  OBVIOUS
<1>1. /\ 0 \in 0..(Polls - 1) /\ 0 \in 0..LedRate /\ 0 <= LedQueueLen
      /\ 0 <= ClsQueueLen /\ 0 <= PrintQueueLen
  BY LengthAssumption
<1>2. MasterOK
  <2>1. served \in [led: 0..LedRate, cls: 0..1, print: 0..1]
    BY <1>1 DEF Init, NothingServed
  <2>2. ledPc \in {"none", "start"} /\ dropped \in BOOLEAN
    BY DEF Init
  <2> QED
    BY <1>1, <2>1, <2>2 DEF Init, MasterOK
<1>3. QueuesOK
  BY <1>1 DEF Init, QueuesOK
<1>4. LedTaskOK
  <2>1. ledItem \in LedUpdates
    BY PaletteLevels DEF Init, LedUpdates, Dark, Filaments
  <2> QED
    BY <2>1, LooksTyped DEF Init, LedTaskOK, Painting
<1>5. LedsOK
  BY OffTyped DEF Init, LedsOK
<1>6. LedsWhole
  <2>1. board \in Boards
    BY LooksTyped DEF Init
  <2>2. \A t \in ColorLeds(board) : Whole(t)
    BY <2>1, DarkIsWhole DEF Init
  <2> QED
    BY <2>2 DEF Init, LedsWhole
<1>7. TextsOK
  BY DEF Init, TextsOK, Shown
<1> QED
  BY <1>2, <1>3, <1>4, <1>5, <1>6, <1>7 DEF TasksInv

LEMMA StutterHolds == ASSUME TasksInv, UNCHANGED vars PROVE TasksInv'
<1>1. UNCHANGED <<masterVars, queues, ledVars, clsVars, printVars, served, dropped>>
  BY DEF vars
<1>2. MasterOK'
  BY <1>1 DEF TasksInv, MasterOK, masterVars, ledVars
<1>3. QueuesOK' /\ LedTaskOK' /\ LedsOK' /\ LedsWhole' /\ TextsOK'
  BY <1>1, QueuesKept, LedsKept, TextsKept
  DEF TasksInv, masterVars, ledVars, clsVars, printVars
<1> QED
  BY <1>2, <1>3 DEF TasksInv

LEMMA NextHolds == TasksInv /\ [Next]_vars => TasksInv'
<1> SUFFICES ASSUME TasksInv, [Next]_vars PROVE TasksInv'
  OBVIOUS
<1>1. CASE Master
  BY <1>1, StartStep, ModeStep, StatusesStep, DisplayStep, EventsStep, DelayStep
  DEF Master
<1>2. CASE PrintTask
  BY <1>2, PrintTaskStep
<1>3. CASE Led
  <2>1. CASE SetRgbPaletteLed
    BY <2>1, PaintStep DEF SetRgbPaletteLed, Filaments
  <2> QED
    BY <1>3, <2>1, LedStartStep, ReceiveStep, BasicStep DEF Led
<1>4. CASE Cls
  BY <1>4, ClsStep
<1>5. CASE UNCHANGED vars
  BY <1>5, StutterHolds
<1> QED
  BY <1>1, <1>2, <1>3, <1>4, <1>5 DEF Next

(* The invariant holds in every state the tasks reach.                     *)
THEOREM Invariance == Spec => []TasksInv
  BY InitHolds, NextHolds, PTL DEF Spec

(* Every variable keeps its type: no queue exceeds its length, whatever is *)
(* sent to it without waiting, and no duty cycle its period.               *)
THEOREM TypesHold == Spec => []TypeOK
<1>1. TasksInv => TypeOK
  <2> SUFFICES ASSUME TasksInv PROVE TypeOK
    OBVIOUS
  <2>1. ledQueue \in Seq(LedUpdates)
    BY SeqMonotonic DEF TasksInv, QueuesOK, Meant
  <2> QED
    BY <2>1 DEF TasksInv, MasterOK, QueuesOK, LedTaskOK, LedsOK, TextsOK, TypeOK
<1> QED
  BY <1>1, Invariance, PTL

(* Whenever the LED task waits and the master is blocked, every color LED  *)
(* shows one color that the master meant it to have, or is off.            *)
THEOREM NoLedIsTorn == Spec => []NoTornLed
<1>1. TasksInv => NoTornLed
  BY DEF TasksInv, LedsWhole, Whole, NoTornLed
<1> QED
  BY <1>1, Invariance, PTL

(* Whenever the display task waits, the two lines are of one measurement.  *)
THEOREM NoTextIsTorn == Spec => []NoTornText
<1>1. TasksInv => NoTornText
  BY DEF TasksInv, TextsOK, NoTornText
<1> QED
  BY <1>1, Invariance, PTL

-----------------------------------------------------------------------------
(***************************************************************************)
(* No update of the master is dropped, proved for every set of boards and  *)
(* looks, and for every length of the queues and speed of the tasks within *)
(* EnoughTime: the LED queue holds the updates of one iteration, and in    *)
(* the delays of an iteration the tasks have time to show all of them.     *)
(*                                                                         *)
(* The inductive invariant bounds, at each place of the master's loop, the *)
(* updates that a task has not yet completed.  In the delays that bound    *)
(* falls with the time the task has had.                                   *)
(***************************************************************************)

(* The updates of an iteration: two of the mode, four of the status LEDs   *)
(* and two of the events.                                                  *)
PerIteration == 8

EnoughTime == /\ LedQueueLen >= PerIteration
              /\ Polls * LedRate >= PerIteration
              /\ TextRate = 1

(* The updates each task has received or has still to receive.             *)
LedPending   == Len(ledQueue) + (IF ledPc \in {"r", "g", "b", "basic"} THEN 1 ELSE 0)
ClsPending   == Len(clsQueue) + (IF clsPc \in {"clear", "line1", "line2"} THEN 1 ELSE 0)
PrintPending == Len(printQueue) + (IF printPc = "print" THEN 1 ELSE 0)

LedBacklog ==
    /\ board = "S7" => LedPending = 0
    /\ masterPc \in {"start", "updateLedsDisplayMode"} => LedPending = 0
    /\ masterPc = "updateLedsStatuses" => LedPending <= 2
    /\ masterPc \in {"updateClsDisplayAndTerminal", "updateLedsEvents"} => LedPending <= 6
    /\ Blocked => \/ LedPending = 0
                  \/ LedPending + served.led + poll * LedRate <= PerIteration

TextBacklog ==
    /\ masterPc \notin {"updateLedsEvents", "delay"} => ClsPending = 0 /\ PrintPending = 0
    /\ ClsPending <= 1 /\ PrintPending <= 1
    /\ Blocked /\ served.cls = 1 => ClsPending = 0
    /\ Blocked /\ served.print = 1 => PrintPending = 0

Backlog == LedBacklog /\ TextBacklog /\ NothingDropped

-----------------------------------------------------------------------------
(* What the types say of the counts.                                       *)

LEMMA CountsTyped ==
    ASSUME TasksInv, EnoughTime
    PROVE  /\ Len(ledQueue) \in Nat /\ Len(clsQueue) \in Nat /\ Len(printQueue) \in Nat
           /\ LedPending \in Nat /\ ClsPending \in Nat /\ PrintPending \in Nat
           /\ LedPending = 0 <=> (ledQueue = << >> /\ ledPc \notin {"r", "g", "b", "basic"})
           /\ ClsPending = 0 <=> (clsQueue = << >> /\ clsPc \notin {"clear", "line1", "line2"})
           /\ PrintPending = 0 <=> (printQueue = << >> /\ printPc # "print")
           /\ LedRate \in Nat /\ LedRate > 0 /\ Polls \in Nat
           /\ poll \in Nat /\ poll < Polls /\ poll * LedRate \in Nat
           /\ served.led \in 0..LedRate /\ served.cls \in 0..1 /\ served.print \in 0..1
<1>1. Len(ledQueue) \in Nat /\ Len(clsQueue) \in Nat /\ Len(printQueue) \in Nat
  BY DEF TasksInv, QueuesOK
<1>2. /\ ledQueue = << >> <=> Len(ledQueue) = 0
      /\ clsQueue = << >> <=> Len(clsQueue) = 0
      /\ printQueue = << >> <=> Len(printQueue) = 0
  BY EmptySeq DEF TasksInv, QueuesOK
<1>3. LedRate \in Nat /\ Polls \in Nat
  BY LengthAssumption
<1>4. LedRate > 0
  BY <1>3 DEF EnoughTime, PerIteration
<1>5. poll \in Nat /\ poll < Polls
  BY <1>3 DEF TasksInv, MasterOK
<1>6. poll * LedRate \in Nat
  BY <1>3, <1>5
<1>7. served.led \in 0..LedRate /\ served.cls \in 0..1 /\ served.print \in 0..1
  BY DEF TasksInv, MasterOK
<1>8. /\ LedPending \in Nat /\ ClsPending \in Nat /\ PrintPending \in Nat
      /\ LedPending = 0 <=> (ledQueue = << >> /\ ledPc \notin {"r", "g", "b", "basic"})
      /\ ClsPending = 0 <=> (clsQueue = << >> /\ clsPc \notin {"clear", "line1", "line2"})
      /\ PrintPending = 0 <=> (printQueue = << >> /\ printPc # "print")
  BY <1>1, <1>2 DEF LedPending, ClsPending, PrintPending
<1> QED
  BY <1>1, <1>3, <1>4, <1>5, <1>6, <1>7, <1>8

(* A send that finds room drops nothing.                                   *)
LEMMA SendFits ==
    ASSUME NEW T, NEW q \in Seq(T), NEW items \in Seq(T), NEW len \in Nat,
           Len(q) + Len(items) <= len
    PROVE  /\ ~Overflows(q, items, len)
           /\ Len(SendAll(q, items, len)) = Len(q) + Len(items)
<1>1. ~Overflows(q, items, len)
  BY DEF Overflows
<1>2. Len(q) <= len
  OBVIOUS
<1> QED
  BY <1>1, <1>2, SendTyped

LEMMA LedSendFits ==
    ASSUME TasksInv, NothingDropped, EnoughTime, NEW updates \in Seq(Meant),
           LedPending + Len(updates) <= PerIteration, SendLedUpdates(updates),
           ledPc' = ledPc
    PROVE  /\ LedPending' = LedPending + Len(updates)
           /\ NothingDropped'
<1>1. /\ ledQueue \in Seq(Meant) /\ Len(ledQueue) \in Nat /\ Len(updates) \in Nat
      /\ LedQueueLen \in Nat /\ LedQueueLen >= PerIteration /\ PerIteration \in Nat
  BY CountsTyped, LengthAssumption DEF TasksInv, QueuesOK, EnoughTime, PerIteration
<1>2. Len(ledQueue) + Len(updates) <= LedQueueLen
  BY <1>1 DEF LedPending, PerIteration
<1>3. ~Overflows(ledQueue, updates, LedQueueLen)
      /\ Len(ledQueue') = Len(ledQueue) + Len(updates)
  BY <1>1, <1>2, SendFits DEF SendLedUpdates
<1>4. NothingDropped'
  BY <1>3 DEF SendLedUpdates, NothingDropped
<1> QED
  BY <1>1, <1>3, <1>4 DEF LedPending

-----------------------------------------------------------------------------
(* What leaves a backlog as it is, or lets it fall.                        *)

LEMMA LedBacklogKept ==
    ASSUME LedBacklog, UNCHANGED <<board, masterPc, poll, ledQueue, ledPc>>,
           served'.led = served.led
    PROVE  LedBacklog'
  BY DEF LedBacklog, LedPending, Blocked

LEMMA TextBacklogKept ==
    ASSUME TextBacklog, UNCHANGED <<masterPc, clsQueue, clsPc, printQueue, printPc>>,
           served'.cls = served.cls, served'.print = served.print
    PROVE  TextBacklog'
  BY DEF TextBacklog, ClsPending, PrintPending, Blocked

LEMMA LedBacklogFalls ==
    ASSUME TasksInv, EnoughTime, LedBacklog, Blocked, UNCHANGED <<board, masterPc, poll>>,
           LedPending' \in Nat, served'.led \in Nat, LedPending' <= LedPending,
           LedPending' + served'.led <= LedPending + served.led
    PROVE  LedBacklog'
<1>1. /\ LedPending \in Nat /\ served.led \in Nat /\ poll * LedRate \in Nat
      /\ (poll * LedRate)' = poll * LedRate /\ PerIteration \in Nat
  BY CountsTyped DEF PerIteration
<1>2. masterPc' = "delay" /\ Blocked'
  BY DEF Blocked
<1>3. board' = "S7" => LedPending' = 0
  BY <1>1 DEF LedBacklog
<1>4. LedPending' = 0 \/ LedPending' + served'.led + poll' * LedRate <= PerIteration
  <2> DEFINE done == poll * LedRate
  <2>1. done \in Nat /\ poll' * LedRate = done
    BY <1>1
  <2>2. LedPending = 0 \/ LedPending + served.led + done <= PerIteration
    BY DEF LedBacklog
  <2> HIDE DEF done
  <2>3. LedPending' = 0 \/ LedPending' + served'.led + done <= PerIteration
    BY <1>1, <2>1, <2>2
  <2> QED
    BY <2>1, <2>3
<1> QED
  BY <1>2, <1>3, <1>4 DEF LedBacklog

-----------------------------------------------------------------------------
(* The tasks below the master.                                             *)

LEMMA LedStep == ASSUME TasksInv, Backlog, EnoughTime, Led PROVE Backlog'
<1>1. /\ Blocked /\ UNCHANGED <<masterVars, clsQueue, printQueue, clsVars, printVars, dropped>>
      /\ UNCHANGED <<board, masterPc, poll, clsPc, printPc>>
  BY DEF Led, ledStart, ledReceive, SetRgbPaletteLed, setFilament, setBasic, IdleTime,
         masterVars, queues, clsVars, printVars
<1>2. served \in [led: 0..LedRate, cls: 0..1, print: 0..1] /\ LedRate \in Nat
  BY LengthAssumption DEF TasksInv, MasterOK
<1>3. /\ LedServed.cls = served.cls /\ LedServed.print = served.print
      /\ LedServed.led \in Nat /\ LedServed.led <= served.led + 1
      /\ served.led \in Nat
  BY <1>2 DEF LedServed
<1>4. Len(ledQueue) \in Nat
  BY CountsTyped
<1>5. /\ LedPending' \in Nat /\ LedPending' <= LedPending
      /\ LedPending' + served'.led <= LedPending + served.led
      /\ served'.led \in Nat
      /\ served'.cls = served.cls /\ served'.print = served.print
  <2>1. CASE ledStart
    BY <1>3, <1>4, <2>1 DEF ledStart, queues, LedPending
  <2>2. CASE ledReceive
    <3>1. ledQueue \in Seq(Meant) /\ ledQueue # << >> /\ ledQueue' = Tail(ledQueue)
      BY <2>2 DEF TasksInv, QueuesOK, ledReceive
    <3>2. Len(ledQueue') = Len(ledQueue) - 1 /\ Len(ledQueue) > 0
      BY <1>4, <3>1, HeadTailProperties, EmptySeq
    <3>3. ledPc = "receive" /\ served' = served
      BY <2>2 DEF ledReceive
    <3> QED
      BY <1>3, <1>4, <3>2, <3>3 DEF LedPending
  <2>3. CASE setFilament("r", "g") \/ setFilament("g", "b")
    BY <1>3, <1>4, <2>3 DEF setFilament, queues, LedPending
  <2>4. CASE setFilament("b", "receive") \/ setBasic
    <3>1. ledQueue' = ledQueue /\ ledPc \in {"b", "basic"} /\ ledPc' = "receive"
          /\ served' = LedServed
      BY <2>4 DEF setFilament, setBasic, queues
    <3> QED
      BY <1>3, <1>4, <3>1 DEF LedPending
  <2> QED
    BY <2>1, <2>2, <2>3, <2>4 DEF Led, SetRgbPaletteLed
<1>6. LedBacklog'
  BY <1>1, <1>5, LedBacklogFalls DEF Backlog
<1>7. TextBacklog'
  BY <1>1, <1>5, TextBacklogKept DEF Backlog
<1>8. NothingDropped'
  BY <1>1 DEF Backlog, NothingDropped
<1> QED
  BY <1>6, <1>7, <1>8 DEF Backlog

LEMMA PrintTaskFalls == ASSUME TasksInv, Backlog, EnoughTime, PrintTask PROVE Backlog'
<1>1. /\ Blocked /\ UNCHANGED <<board, masterPc, poll, ledQueue, ledPc, clsQueue, clsPc, dropped>>
  BY DEF PrintTask, printReceive, printLine, masterVars, queues, ledVars, clsVars
<1>2. served \in [led: 0..LedRate, cls: 0..1, print: 0..1]
  BY DEF TasksInv, MasterOK
<1>3. Len(printQueue) \in Nat
  BY CountsTyped
<1>4. /\ served'.led = served.led /\ served'.cls = served.cls
      /\ PrintPending' <= 1 /\ (served'.print = 1 => PrintPending' = 0)
  <2>1. CASE printReceive
    <3>1. printQueue \in Seq(Looks) /\ printQueue # << >> /\ printQueue' = Tail(printQueue)
      BY <2>1 DEF TasksInv, QueuesOK, printReceive
    <3>2. Len(printQueue') = Len(printQueue) - 1 /\ Len(printQueue) > 0
      BY <1>3, <3>1, HeadTailProperties, EmptySeq
    <3>3. printPc = "receive" /\ printPc' = "print" /\ served' = served
      BY <2>1 DEF printReceive
    <3>4. PrintPending <= 1 /\ (served.print = 1 => PrintPending = 0)
      BY <1>1 DEF Backlog, TextBacklog
    <3> QED
      BY <1>3, <3>2, <3>3, <3>4 DEF PrintPending
  <2>2. CASE printLine
    <3>1. /\ printPc = "print" /\ printPc' = "receive" /\ printQueue' = printQueue
          /\ served' = [served EXCEPT !.print = TextRate]
      BY <2>2 DEF printLine, queues
    <3>2. PrintPending <= 1
      BY DEF Backlog, TextBacklog
    <3> QED
      BY <1>2, <1>3, <3>1, <3>2 DEF PrintPending
  <2> QED
    BY <2>1, <2>2 DEF PrintTask
<1>5. LedBacklog'
  BY <1>1, <1>4, LedBacklogKept DEF Backlog
<1>6. TextBacklog'
  BY <1>1, <1>4 DEF Backlog, TextBacklog, ClsPending, Blocked
<1>7. NothingDropped'
  BY <1>1 DEF Backlog, NothingDropped
<1> QED
  BY <1>5, <1>6, <1>7 DEF Backlog

LEMMA ClsFalls == ASSUME TasksInv, Backlog, EnoughTime, Cls PROVE Backlog'
<1> USE DEF clsWrite, CLS_DisplayClear, CLS_WriteStringLine1, CLS_WriteStringLine2
<1>1. /\ Blocked /\ UNCHANGED <<board, masterPc, poll, ledQueue, ledPc, printQueue, printPc, dropped>>
  BY DEF Cls, clsStart, clsReceive, IdleTime, masterVars, queues, ledVars, printVars
<1>2. served \in [led: 0..LedRate, cls: 0..1, print: 0..1]
  BY DEF TasksInv, MasterOK
<1>3. Len(clsQueue) \in Nat
  BY CountsTyped
<1>4. ClsPending <= 1 /\ (served.cls = 1 => ClsPending = 0)
  BY <1>1 DEF Backlog, TextBacklog
<1>5. /\ served'.led = served.led /\ served'.print = served.print
      /\ ClsPending' <= 1 /\ (served'.cls = 1 => ClsPending' = 0)
  <2>1. CASE clsReceive
    <3>1. clsQueue \in Seq(Looks) /\ clsQueue # << >> /\ clsQueue' = Tail(clsQueue)
      BY <2>1 DEF TasksInv, QueuesOK, clsReceive
    <3>2. Len(clsQueue') = Len(clsQueue) - 1 /\ Len(clsQueue) > 0
      BY <1>3, <3>1, HeadTailProperties, EmptySeq
    <3>3. clsPc = "receive" /\ clsPc' = "clear" /\ served' = served
      BY <2>1 DEF clsReceive
    <3> QED
      BY <1>3, <1>4, <3>2, <3>3 DEF ClsPending
  <2>2. CASE CLS_WriteStringLine2
    <3>1. /\ clsPc = "line2" /\ clsPc' = "receive" /\ clsQueue' = clsQueue
          /\ served' = [served EXCEPT !.cls = TextRate]
      BY <2>2 DEF queues
    <3> QED
      BY <1>2, <1>3, <1>4, <3>1 DEF ClsPending
  <2>3. CASE clsStart \/ CLS_DisplayClear \/ CLS_WriteStringLine1
    <3>1. clsQueue' = clsQueue /\ served' = served
      BY <2>3 DEF clsStart, queues
    <3>2. \/ clsPc = "start" /\ clsPc' = "receive"
          \/ clsPc \in {"clear", "line1"} /\ clsPc' \in {"line1", "line2"}
      BY <2>3 DEF clsStart
    <3>3. ClsPending' = ClsPending
      BY <1>3, <3>1, <3>2 DEF ClsPending
    <3> QED
      BY <1>4, <3>1, <3>3
  <2> QED
    BY <2>1, <2>2, <2>3 DEF Cls
<1>6. LedBacklog'
  BY <1>1, <1>5, LedBacklogKept DEF Backlog
<1>7. TextBacklog'
  BY <1>1, <1>5 DEF Backlog, TextBacklog, PrintPending, Blocked
<1>8. NothingDropped'
  BY <1>1 DEF Backlog, NothingDropped
<1> QED
  BY <1>6, <1>7, <1>8 DEF Backlog

-----------------------------------------------------------------------------
(* The master task.                                                        *)

LEMMA MasterStartFits ==
    ASSUME TasksInv, Backlog, EnoughTime, masterStart PROVE Backlog'
<1>1. /\ masterPc = "start"
      /\ masterPc' \in {"updateLedsStatuses", "updateLedsDisplayMode"}
      /\ UNCHANGED <<board, poll, ledQueue, ledPc, clsQueue, clsPc, printQueue, printPc,
                     served, dropped>>
  BY DEF masterStart, FirstUpdate, queues, clsVars, printVars
<1>2. LedBacklog'
  BY <1>1, CountsTyped DEF Backlog, LedBacklog, LedPending, Blocked
<1>3. TextBacklog'
  BY <1>1 DEF Backlog, TextBacklog, ClsPending, PrintPending, Blocked
<1>4. NothingDropped'
  BY <1>1 DEF Backlog, NothingDropped
<1> QED
  BY <1>2, <1>3, <1>4 DEF Backlog

LEMMA ModeFits ==
    ASSUME TasksInv, Backlog, EnoughTime, updateLedsDisplayMode PROVE Backlog'
<1> DEFINE updates == IF board = "MB" THEN ModeUpdates ELSE << >>
<1>1. /\ masterPc = "updateLedsDisplayMode" /\ masterPc' = "updateLedsStatuses"
      /\ SendLedUpdates(updates) /\ ledPc' = ledPc
      /\ UNCHANGED <<board, poll, clsQueue, clsPc, printQueue, printPc, served>>
  BY DEF updateLedsDisplayMode, ledVars, clsVars, printVars
<1>2. updates \in Seq(Meant) /\ Len(updates) <= 2 /\ (board = "S7" => Len(updates) = 0)
  <2>1. CASE board = "MB"
    BY <2>1, ModeUpdatesMeant DEF TasksInv
  <2>2. CASE board # "MB"
    BY <2>2
  <2> QED
    BY <2>1, <2>2
<1> HIDE DEF updates
<1>3. LedPending = 0 /\ Len(updates) \in Nat
  BY <1>1, <1>2 DEF Backlog, LedBacklog
<1>4. LedPending' = LedPending + Len(updates) /\ NothingDropped'
  <2>1. LedPending + Len(updates) <= PerIteration
    BY <1>2, <1>3 DEF PerIteration
  <2> QED
    BY <1>1, <1>2, <2>1, LedSendFits DEF Backlog
<1>5. LedBacklog'
  <2>1. LedPending' <= 2 /\ (board = "S7" => LedPending' = 0)
    BY <1>2, <1>3, <1>4
  <2> QED
    BY <1>1, <2>1 DEF LedBacklog, Blocked
<1>6. TextBacklog'
  BY <1>1 DEF Backlog, TextBacklog, ClsPending, PrintPending, Blocked
<1> QED
  BY <1>4, <1>5, <1>6 DEF Backlog

LEMMA StatusesFit ==
    ASSUME TasksInv, Backlog, EnoughTime, updateLedsStatuses PROVE Backlog'
<1>1. /\ masterPc = "updateLedsStatuses" /\ masterPc' = "updateClsDisplayAndTerminal"
      /\ UNCHANGED <<board, poll, ledPc, clsQueue, clsPc, printQueue, printPc, served>>
  BY DEF updateLedsStatuses, clsVars, printVars
<1>2. LedPending \in Nat /\ LedPending <= 2 /\ (board = "S7" => LedPending = 0)
  BY <1>1, CountsTyped DEF Backlog, LedBacklog
<1>3. LedPending' <= 6 /\ NothingDropped' /\ (board = "S7" => LedPending' = 0)
  <2>1. CASE board = "S7"
    <3>1. UNCHANGED <<ledQueue, dropped>>
      BY <2>1 DEF updateLedsStatuses
    <3> QED
      BY <1>1, <1>2, <3>1 DEF Backlog, NothingDropped, LedPending
  <2>2. CASE board # "S7"
    <3> DEFINE updates == IF board = "MB" THEN StatusUpdatesMB ELSE StatusUpdatesZynq
    <3>1. SendLedUpdates(updates)
      BY <2>2 DEF updateLedsStatuses
    <3>2. updates \in Seq(Meant) /\ Len(updates) = 4
      BY <2>2, StatusUpdatesMeant DEF TasksInv
    <3> HIDE DEF updates
    <3>3. LedPending + Len(updates) <= PerIteration
      BY <1>2, <3>2 DEF PerIteration
    <3>4. LedPending' = LedPending + Len(updates)
      BY <1>1, <3>1, <3>2, <3>3, LedSendFits DEF Backlog
    <3>5. NothingDropped'
      BY <1>1, <3>1, <3>2, <3>3, LedSendFits DEF Backlog
    <3>6. LedPending' <= 6
      BY <1>2, <3>2, <3>4
    <3> QED
      BY <2>2, <3>5, <3>6
  <2> QED
    BY <2>1, <2>2
<1>4. LedBacklog'
  BY <1>1, <1>3 DEF LedBacklog, Blocked
<1>5. TextBacklog'
  BY <1>1 DEF Backlog, TextBacklog, ClsPending, PrintPending, Blocked
<1> QED
  BY <1>3, <1>4, <1>5 DEF Backlog

LEMMA TextsFit ==
    ASSUME TasksInv, Backlog, EnoughTime, updateClsDisplayAndTerminal PROVE Backlog'
<1>1. /\ masterPc = "updateClsDisplayAndTerminal" /\ masterPc' = "updateLedsEvents"
      /\ UNCHANGED <<board, poll, ledQueue, ledPc, clsPc, printPc, served>>
      /\ clsQueue' = SendAll(clsQueue, <<look>>, ClsQueueLen)
      /\ printQueue' = SendAll(printQueue, <<look>>, PrintQueueLen)
  BY DEF updateClsDisplayAndTerminal, ledVars, clsVars, printVars
<1>2. <<look>> \in Seq(Looks) /\ Len(<<look>>) = 1
  BY DEF TasksInv, MasterOK
<1>3. /\ ClsPending = 0 /\ PrintPending = 0
      /\ clsQueue = << >> /\ printQueue = << >>
      /\ clsPc \notin {"clear", "line1", "line2"} /\ printPc # "print"
  BY <1>1, CountsTyped DEF Backlog, TextBacklog
<1>4. /\ clsQueue \in Seq(Looks) /\ printQueue \in Seq(Looks)
      /\ Len(clsQueue) = 0 /\ Len(printQueue) = 0
      /\ ClsQueueLen \in Nat /\ ClsQueueLen >= 1
      /\ PrintQueueLen \in Nat /\ PrintQueueLen >= 1
  BY <1>3, LengthAssumption DEF TasksInv, QueuesOK
<1>5. /\ Len(clsQueue) + Len(<<look>>) <= ClsQueueLen
      /\ Len(printQueue) + Len(<<look>>) <= PrintQueueLen
  BY <1>2, <1>4
<1>6. /\ ~Overflows(clsQueue, <<look>>, ClsQueueLen) /\ Len(clsQueue') = 1
      /\ ~Overflows(printQueue, <<look>>, PrintQueueLen) /\ Len(printQueue') = 1
  <2> DEFINE items == <<look>>
  <2> HIDE DEF items
  <2>1. items \in Seq(Looks) /\ Len(items) = 1
    BY <1>2 DEF items
  <2>2. /\ Len(clsQueue) + Len(items) <= ClsQueueLen
        /\ Len(printQueue) + Len(items) <= PrintQueueLen
    BY <1>5 DEF items
  <2>3. /\ ~Overflows(clsQueue, items, ClsQueueLen)
        /\ Len(SendAll(clsQueue, items, ClsQueueLen)) = Len(clsQueue) + Len(items)
    BY <1>4, <2>1, <2>2, SendFits
  <2>4. /\ ~Overflows(printQueue, items, PrintQueueLen)
        /\ Len(SendAll(printQueue, items, PrintQueueLen)) = Len(printQueue) + Len(items)
    BY <1>4, <2>1, <2>2, SendFits
  <2> QED
    BY <1>1, <1>4, <2>1, <2>3, <2>4 DEF items
<1>7. NothingDropped'
  BY <1>6 DEF Backlog, NothingDropped, updateClsDisplayAndTerminal
<1>8. LedBacklog'
  BY <1>1 DEF Backlog, LedBacklog, LedPending, Blocked
<1>9. TextBacklog'
  <2>1. ClsPending' = 1 /\ PrintPending' = 1
    BY <1>1, <1>3, <1>6 DEF ClsPending, PrintPending
  <2> QED
    BY <1>1, <2>1 DEF TextBacklog, Blocked
<1> QED
  BY <1>7, <1>8, <1>9 DEF Backlog

LEMMA EventsFit ==
    ASSUME TasksInv, Backlog, EnoughTime, updateLedsEvents PROVE Backlog'
<1>1. /\ masterPc = "updateLedsEvents" /\ masterPc' = "delay" /\ poll' = 0
      /\ served' = NothingServed
      /\ UNCHANGED <<board, ledPc, clsQueue, clsPc, printQueue, printPc>>
  BY DEF updateLedsEvents, clsVars, printVars
<1>2. LedPending \in Nat /\ LedPending <= 6 /\ (board = "S7" => LedPending = 0)
  BY <1>1, CountsTyped DEF Backlog, LedBacklog
<1>3. /\ LedPending' \in Nat /\ LedPending' <= PerIteration /\ NothingDropped'
      /\ board = "S7" => LedPending' = 0
  <2>1. CASE board = "S7"
    <3>1. UNCHANGED <<ledQueue, dropped>>
      BY <2>1 DEF updateLedsEvents
    <3> QED
      BY <1>1, <1>2, <3>1 DEF Backlog, NothingDropped, LedPending, PerIteration
  <2>2. CASE board # "S7"
    <3> DEFINE updates == IF board = "MB" THEN EventUpdatesMB ELSE EventUpdatesZynq
    <3>1. SendLedUpdates(updates)
      BY <2>2 DEF updateLedsEvents
    <3>2. updates \in Seq(Meant) /\ Len(updates) = 2
      BY <2>2, EventUpdatesMeant DEF TasksInv
    <3> HIDE DEF updates
    <3>3. LedPending + Len(updates) <= PerIteration
      BY <1>2, <3>2 DEF PerIteration
    <3>4. LedPending' = LedPending + Len(updates)
      BY <1>1, <3>1, <3>2, <3>3, LedSendFits DEF Backlog
    <3>5. NothingDropped'
      BY <1>1, <3>1, <3>2, <3>3, LedSendFits DEF Backlog
    <3>6. LedPending' \in Nat /\ LedPending' <= PerIteration
      BY <1>2, <3>2, <3>4 DEF PerIteration
    <3> QED
      BY <2>2, <3>5, <3>6
  <2> QED
    BY <2>1, <2>2
<1>4. LedBacklog'
  <2>1. served'.led = 0 /\ poll' * LedRate = 0
    BY <1>1, CountsTyped DEF NothingServed
  <2>2. LedPending' + served'.led + poll' * LedRate <= PerIteration
    BY <1>3, <2>1 DEF PerIteration
  <2> QED
    BY <1>1, <1>3, <2>2 DEF LedBacklog
<1>5. TextBacklog'
  BY <1>1 DEF Backlog, TextBacklog, ClsPending, PrintPending, Blocked, NothingServed
<1> QED
  BY <1>3, <1>4, <1>5 DEF Backlog

(* A delay that is not the last moves what the LED task was served in it   *)
(* to the delays that are over; after the last nothing is left.            *)
LEMMA DelayFits ==
    ASSUME TasksInv, Backlog, EnoughTime, delayOver PROVE Backlog'
<1>1. /\ Blocked /\ LedHadTime
      /\ UNCHANGED <<board, ledQueue, ledPc, clsQueue, clsPc, printQueue, printPc, dropped>>
  BY DEF delayOver, queues, ledVars, clsVars, printVars
<1>2. /\ LedRate \in Nat /\ Polls \in Nat /\ poll \in Nat /\ poll < Polls
      /\ LedPending \in Nat /\ served.led \in 0..LedRate
      /\ served \in [led: 0..LedRate, cls: 0..1, print: 0..1]
  BY CountsTyped DEF TasksInv, MasterOK
<1>3. (poll + 1) * LedRate = poll * LedRate + LedRate /\ poll * LedRate \in Nat
  BY <1>2
<1>4. LedPending = 0 \/ LedPending + (poll + 1) * LedRate <= PerIteration
  <2>1. CASE ledPc = "none"
    BY <2>1 DEF TasksInv, LedTaskOK, Backlog, LedBacklog
  <2>2. CASE ledPc = "receive" /\ ledQueue = << >>
    BY <2>2, CountsTyped
  <2>3. CASE served.led >= LedRate
    <3> DEFINE done == poll * LedRate
               more == (poll + 1) * LedRate
    <3>1. done \in Nat /\ more = done + LedRate /\ PerIteration \in Nat
      BY <1>3 DEF PerIteration
    <3>2. LedPending = 0 \/ LedPending + served.led + done <= PerIteration
      BY <1>1 DEF Backlog, LedBacklog
    <3> HIDE DEF done, more
    <3>3. LedPending = 0 \/ LedPending + more <= PerIteration
      BY <1>2, <2>3, <3>1, <3>2
    <3> QED
      BY <3>3 DEF more
  <2> QED
    BY <1>1, <2>1, <2>2, <2>3 DEF LedHadTime
<1>5. NothingDropped' /\ LedPending' = LedPending
      /\ ClsPending' = ClsPending /\ PrintPending' = PrintPending
  BY <1>1 DEF Backlog, NothingDropped, LedPending, ClsPending, PrintPending
<1>6. CASE poll + 1 < Polls
  <2>1. /\ masterPc' = masterPc /\ poll' = poll + 1
        /\ served' = [served EXCEPT !.led = 0]
    BY <1>6 DEF delayOver
  <2>2. served'.led = 0 /\ served'.cls = served.cls /\ served'.print = served.print
    BY <1>2, <2>1
  <2>3. LedPending' = 0 \/ LedPending' + served'.led + poll' * LedRate <= PerIteration
    BY <1>2, <1>4, <1>5, <2>1, <2>2
  <2>4. LedBacklog'
    BY <1>1, <1>5, <2>1, <2>3 DEF Backlog, LedBacklog, Blocked
  <2>5. TextBacklog'
    BY <1>1, <1>5, <2>1, <2>2 DEF Backlog, TextBacklog, Blocked
  <2> QED
    BY <1>5, <2>4, <2>5 DEF Backlog
<1>7. CASE ~(poll + 1 < Polls)
  <2>1. /\ masterPc' \in {"updateLedsStatuses", "updateLedsDisplayMode"}
        /\ ClsHadTime /\ PrintHadTime
    BY <1>7 DEF delayOver, FirstUpdate
  <2>2. LedPending = 0
    <3>1. poll + 1 = Polls
      BY <1>2, <1>7
    <3>2. (poll + 1) * LedRate >= PerIteration /\ (poll + 1) * LedRate \in Nat
      BY <1>2, <3>1 DEF EnoughTime, PerIteration
    <3> HIDE DEF EnoughTime
    <3> QED
      BY <1>2, <1>4, <3>2 DEF PerIteration
  <2>3. ClsPending = 0 /\ PrintPending = 0
    <3>1. /\ served.cls >= 1 => ClsPending = 0
          /\ served.print >= 1 => PrintPending = 0
      BY <1>1, <1>2 DEF Backlog, TextBacklog
    <3>2. /\ clsPc = "receive" /\ clsQueue = << >> => ClsPending = 0
          /\ printPc = "receive" /\ printQueue = << >> => PrintPending = 0
      BY CountsTyped
    <3> QED
      BY <2>1, <3>1, <3>2 DEF ClsHadTime, PrintHadTime, EnoughTime
  <2>4. LedBacklog'
    BY <1>5, <2>1, <2>2 DEF LedBacklog, Blocked
  <2>5. TextBacklog'
    BY <1>5, <2>1, <2>3 DEF TextBacklog, Blocked
  <2> QED
    BY <1>5, <2>4, <2>5 DEF Backlog
<1> QED
  BY <1>6, <1>7

-----------------------------------------------------------------------------
(* The invariant.                                                          *)

LEMMA BacklogStarts == ASSUME Init PROVE Backlog
<1>1. Len(<< >>) = 0
  OBVIOUS
<1>2. LedPending = 0 /\ ClsPending = 0 /\ PrintPending = 0
  BY <1>1 DEF Init, LedPending, ClsPending, PrintPending
<1> QED
  BY <1>2 DEF Init, Backlog, LedBacklog, TextBacklog, NothingDropped, Blocked

LEMMA BacklogStays ==
    ASSUME TasksInv, Backlog, EnoughTime, [Next]_vars PROVE Backlog'
<1>1. CASE Master
  BY <1>1, MasterStartFits, ModeFits, StatusesFit, TextsFit, EventsFit, DelayFits
  DEF Master
<1>2. CASE UNCHANGED vars
  <2>1. UNCHANGED <<masterVars, queues, ledVars, clsVars, printVars, served, dropped>>
    BY <1>2 DEF vars
  <2>2. LedBacklog' /\ TextBacklog'
    BY <2>1, LedBacklogKept, TextBacklogKept
    DEF Backlog, masterVars, queues, ledVars, clsVars, printVars
  <2> QED
    BY <2>1, <2>2 DEF Backlog, NothingDropped
<1> QED
  BY <1>1, <1>2, LedStep, PrintTaskFalls, ClsFalls DEF Next

(* The zero timeout of the sends never costs an update, if the LED queue   *)
(* holds an iteration's updates and the tasks have time for them in its    *)
(* delays.                                                                 *)
THEOREM UpdatesAreNotDropped ==
    ASSUME EnoughTime
    PROVE  Spec => []NothingDropped
<1>1. Init => Backlog
  BY BacklogStarts
<1>2. TasksInv /\ Backlog /\ [Next]_vars => Backlog'
  BY BacklogStays
<1>3. Backlog => NothingDropped
  BY DEF Backlog
<1> QED
  BY <1>1, <1>2, <1>3, Invariance, PTL DEF Spec
=============================================================================
