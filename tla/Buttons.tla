------------------------------ MODULE Buttons ------------------------------
(***************************************************************************)
(* The buttons and switches of the HDL designs, from the pins to the       *)
(* preset the sensor gets: multi_input_debounce lets one line through at a *)
(* time, one_shot_fsm makes a pulse of one clock of each debounced press,  *)
(* and thresh_presets_selector steps to the next preset on each pulse.     *)
(* Everything runs on the 20 MHz clock, so one step is one clock; the      *)
(* lines and the reset button may change at every clock.                   *)
(*                                                                         *)
(* The registers that the reset does not clear (the synchronizer and the   *)
(* output of the one-shot) keep running through it, as in the code.        *)
(* held, away, steady and presses only observe.                            *)
(***************************************************************************)
EXTENDS Integers, FiniteSets

CONSTANTS
    Lines,        \* the lines of the debouncer
    ButtonLines,  \* those that select presets: button 0 and button 1
    Tdeb,         \* c_T, clocks of debounce (20000 in the code)
    Presets,      \* presets of a selector (10 in the code)
    Stages        \* clocks a reset lasts after its button is released (14)

ASSUME ButtonsAssumption ==
    /\ ButtonLines \subseteq Lines
    /\ Tdeb \in Nat /\ Tdeb >= 4
    /\ Presets \in Nat \ {0}
    /\ Stages \in Nat /\ Stages >= 2

VARIABLES
    lines,      \* ei_buttons, the set of lines that are up
    deb,        \* registers of the debouncer
    shot,       \* registers of each one-shot
    preset,     \* s_thrpset_pr_state of each selector, as its number
    resetting,  \* clocks the synchronized reset still lasts
    seen        \* what the lines and the output have done so far

buttonVars == <<lines, deb, shot, preset, resetting, seen>>

inReset == resetting > 0

Legal(value) == Cardinality(value) <= 1

-----------------------------------------------------------------------------
(* The debouncer.                                                          *)

\* Mutant: the debounce does not look at the lines while it waits.
BouncesIgnored ==
    [A |-> IF Legal(deb.sync) THEN "B" ELSE "A",
     B |-> IF deb.t = Tdeb - 2 THEN "C" ELSE "B",
     C |-> IF deb.sync # deb.store THEN "D" ELSE "C",
     D |-> IF deb.sync = deb.store THEN "C"
           ELSE IF deb.t = Tdeb - 3 THEN "A" ELSE "D"][deb.state]

\* Mutant: a count that the capped timer never reaches.
CountNeverReached ==
    [A |-> IF Legal(deb.sync) THEN "B" ELSE "A",
     B |-> IF deb.sync # deb.prev THEN "A"
           ELSE IF deb.t = Tdeb THEN "C" ELSE "B",
     C |-> IF deb.sync # deb.store THEN "D" ELSE "C",
     D |-> IF deb.sync = deb.store THEN "C"
           ELSE IF deb.t = Tdeb - 3 THEN "A" ELSE "D"][deb.state]

DebNextState ==
    [A |-> IF Legal(deb.sync) THEN "B" ELSE "A",
     B |-> IF deb.sync # deb.prev THEN "A"
           ELSE IF deb.t = Tdeb - 2 THEN "C" ELSE "B",
     C |-> IF deb.sync # deb.store THEN "D" ELSE "C",
     D |-> IF deb.sync = deb.store THEN "C"
           ELSE IF deb.t = Tdeb - 3 THEN "A" ELSE "D"][deb.state]

\* Mutant: the old value stays out while the next one is debounced.
OutputKept == deb.store

\* o_btns_deb, not registered.
Debounced == IF deb.state \in {"C", "D"} THEN deb.store ELSE {}

DebTimer ==
    IF inReset \/ DebNextState # deb.state THEN 0
    ELSE IF deb.t # Tdeb - 1 THEN deb.t + 1 ELSE deb.t

DebStore ==
    IF inReset THEN {}
    ELSE IF deb.state = "B" /\ DebNextState = "C" THEN deb.prev ELSE deb.store

ClockDebouncer ==
    deb' = [meta  |-> lines,
            sync  |-> deb.meta,
            prev  |-> IF inReset THEN {} ELSE deb.sync,
            store |-> DebStore,
            state |-> IF inReset THEN "A" ELSE DebNextState,
            t     |-> DebTimer]

-----------------------------------------------------------------------------
(* The one-shots and the selectors.                                        *)

\* Mutant: the one-shot does not wait for the release.
ShotRepeats(b) ==
    IF b \in Debounced /\ shot[b].state = "A" THEN "B" ELSE "A"

ShotNextState(b) ==
    IF b \notin Debounced THEN "A"
    ELSE IF shot[b].state = "A" THEN "B" ELSE "C"

ClockOneShots ==
    shot' = [b \in ButtonLines |->
                [state |-> IF inReset THEN "A" ELSE ShotNextState(b),
                 y     |-> shot[b].state = "B"]]

\* The state after ST_9 is ST_0.
Following(n) == IF n = Presets - 1 THEN 0 ELSE n + 1

NextPreset(b) == IF shot[b].y THEN Following(preset[b]) ELSE preset[b]

ClockSelectors ==
    preset' = [b \in ButtonLines |-> IF inReset THEN 0 ELSE NextPreset(b)]

\* arty_reset_synchronizer: up at once, down Stages clocks after the release.
ClockReset ==
    \/ resetting' = Stages
    \/ resetting' = IF inReset THEN resetting - 1 ELSE 0

-----------------------------------------------------------------------------
(* What is observed: for how many clocks the synchronized lines have kept  *)
(* their value, and differed from the output, for how many the pins have   *)
(* been steady without a reset, and the debounced presses since the last   *)
(* reset (modulo the number of presets).                                   *)

SeenCap == 2 * Tdeb + 3

Count(n) == IF n < SeenCap THEN n + 1 ELSE SeenCap

Observe ==
    seen' = [held    |-> IF deb'.sync = deb.sync THEN Count(seen.held) ELSE 1,
             away    |-> IF deb'.sync # Debounced' THEN Count(seen.away) ELSE 0,
             steady  |-> IF lines' = lines /\ ~inReset
                         THEN Count(seen.steady) ELSE 0,
             presses |-> [b \in ButtonLines |->
                            IF inReset THEN 0
                            ELSE IF b \in Debounced' \ Debounced
                            THEN Following(seen.presses[b])
                            ELSE seen.presses[b]]]

ButtonsInit ==
    /\ lines = {}
    /\ deb = [meta |-> {}, sync |-> {}, prev |-> {}, store |-> {},
              state |-> "A", t |-> 0]
    /\ shot = [b \in ButtonLines |-> [state |-> "A", y |-> FALSE]]
    /\ preset = [b \in ButtonLines |-> 0]
    /\ resetting = Stages
    /\ seen = [held |-> 1, away |-> 0, steady |-> 0,
               presses |-> [b \in ButtonLines |-> 0]]

ClockButtons ==
    /\ lines' \in SUBSET Lines
    /\ ClockDebouncer
    /\ ClockOneShots
    /\ ClockSelectors
    /\ ClockReset
    /\ Observe

ButtonsSpec == ButtonsInit /\ [][ClockButtons]_buttonVars

-----------------------------------------------------------------------------
(* Properties.                                                             *)

\* The registers keep their ranges: in particular the stored value, all that
\* the rest of the design sees, never has two lines up.
ButtonsTypeOK ==
    /\ lines \in SUBSET Lines
    /\ deb \in [meta : SUBSET Lines, sync : SUBSET Lines, prev : SUBSET Lines,
                store : {v \in SUBSET Lines : Legal(v)},
                state : {"A", "B", "C", "D"}, t : 0..(Tdeb - 1)]
    /\ shot \in [ButtonLines -> [state : {"A", "B", "C"}, y : BOOLEAN]]
    /\ preset \in [ButtonLines -> 0..(Presets - 1)]
    /\ resetting \in 0..Stages
    /\ seen \in [held : 0..SeenCap, away : 0..SeenCap, steady : 0..SeenCap,
                 presses : [ButtonLines -> 0..(Presets - 1)]]

\* A line gets through multi_input_debounce only after c_T clocks without a
\* bounce, and an output goes down only after the lines have left it for
\* c_T - 1 clocks: no bounce, short touch or short gap is seen.
BouncesStopped ==
    [][/\ ~(Debounced' \subseteq Debounced) =>
             Debounced' = deb.sync /\ seen.held >= Tdeb
       /\ ~(Debounced \subseteq Debounced') =>
             inReset \/ seen.away >= Tdeb - 1]_buttonVars

\* The output never goes from one line straight to another: the none between
\* them is what the tester state machine and the one-shots rely on.
NeverSwapped ==
    [][Debounced # {} /\ Debounced' # {} => Debounced' = Debounced]_buttonVars

\* Steady pins settle: after two debounce times and a clock, the synchronizer
\* included, the output is what the pins say, and nothing when two lines are
\* up.
SettlesOnLines ==
    seen.steady >= 2 * Tdeb + 1 => Debounced = IF Legal(lines) THEN lines ELSE {}

\* A press of line b that has not stepped the selector yet.
InFlight(b) ==
    \/ shot[b].y
    \/ shot[b].state = "B"
    \/ shot[b].state = "A" /\ b \in Debounced

\* Each debounced press steps its selector exactly once, however long it is,
\* also right after a reset: the reset must outlast the one-shot's pulse.
OneStepPerPress ==
    ~inReset => \A b \in ButtonLines :
        seen.presses[b] = IF InFlight(b) THEN Following(preset[b]) ELSE preset[b]
=============================================================================
