---------------------------- MODULE LedDrivers ----------------------------
(***************************************************************************)
(* The LED drivers of the three FreeRTOS programs: led_pwm.c of the        *)
(* MicroBlaze and of the Zynq program, which set the duty cycles of a PWM  *)
(* block, and led_gpio.c of the Spartan-7 program, which sets one bit of a *)
(* GPIO channel.                                                           *)
(*                                                                         *)
(* The registers of a board are a record of two functions, from the index  *)
(* in the block or channel of the color LEDs and of the basic LEDs to the  *)
(* duty cycle, or to the bit.                                              *)
(***************************************************************************)
EXTENDS Naturals

Boards == {"MB", "S7", "Zynq"}
Filaments == {"r", "g", "b"}
Palette == 0..255   \* a byte of the palette

(* The tables: the index of each filament, by the number on the board.     *)
ColorLedsMB   == [silk \in 0..3 |-> [r |-> 3 * silk + 2, g |-> 3 * silk + 1, b |-> 3 * silk]]
ColorLedsS7   == [silk \in 0..1 |-> [r |-> 3 * silk, g |-> 3 * silk + 1, b |-> 3 * silk + 2]]
ColorLedsZynq == [silk \in 5..6 |-> [r |-> 3 * silk - 13, g |-> 3 * silk - 14, b |-> 3 * silk - 15]]
c_color_leds  == [MB |-> ColorLedsMB, S7 |-> ColorLedsS7, Zynq |-> ColorLedsZynq]

BasicLedsMB   == [silk \in 4..7 |-> silk - 4]
BasicLedsS7   == [silk \in 2..5 |-> silk - 2]
BasicLedsZynq == [silk \in 0..3 |-> silk]
c_basic_leds  == [MB |-> BasicLedsMB, S7 |-> BasicLedsS7, Zynq |-> BasicLedsZynq]

ColorLeds(board) == DOMAIN c_color_leds[board]
BasicLeds(board) == DOMAIN c_basic_leds[board]

ColorIndexes(board) == IF board = "MB" THEN 0..11 ELSE 0..5
BasicIndexes == 0..3

(* Clock cycles of the PWM period, and of the greatest duty cycle of each  *)
(* kind of LED.                                                            *)
PWM_PERIOD == 500000
maxColorDutyCycle(board) == IF board = "MB" THEN 350000 ELSE 250000
maxBasicDutyCycle == 450000

InitColorLedsOff(board) == [i \in ColorIndexes(board) |-> 0]
InitBasicLedsOff == [i \in BasicIndexes |-> 0]
InitAllLedsOff(board) == [color |-> InitColorLedsOff(board), basic |-> InitBasicLedsOff]

-----------------------------------------------------------------------------
(* The PWM boards.  A percentage is in steps of 0.1 %; a number that is    *)
(* not in the table changes nothing.                                       *)

SetColorLedPercent(board, regs, silk, color, percent) ==
    IF silk \in ColorLeds(board)
    THEN [regs EXCEPT !.color[c_color_leds[board][silk][color]]
                          = (percent * maxColorDutyCycle(board)) \div 1000]
    ELSE regs

SetBasicLedPercent(board, regs, silk, percent) ==
    IF silk \in BasicLeds(board)
    THEN [regs EXCEPT !.basic[c_basic_leds[board][silk]]
                          = (percent * maxBasicDutyCycle) \div 1000]
    ELSE regs

(* What SetRgbPaletteLed makes of a palette byte.                          *)
PalettePercent(palette) == (palette * 1000) \div 255

-----------------------------------------------------------------------------
(* The GPIO board.                                                         *)

(* Mutant: the word is written without having been read.                   *)
WriteAlone(word, index, emitterOn) ==
    [i \in DOMAIN word |-> IF i = index /\ emitterOn THEN 1 ELSE 0]

(* The channel is read, one bit changed, and written back.                 *)
WithBit(word, index, emitterOn) == [word EXCEPT ![index] = IF emitterOn THEN 1 ELSE 0]

SetColorLedState(regs, silk, color, emitterOn) ==
    [regs EXCEPT !.color = WithBit(@, c_color_leds["S7"][silk][color], emitterOn)]

SetBasicLedState(regs, silk, emitterOn) ==
    [regs EXCEPT !.basic = WithBit(@, c_basic_leds["S7"][silk], emitterOn)]
=============================================================================
