---------------------------- MODULE Interrupts -----------------------------
(***************************************************************************)
(* The two timed filters on the interrupt path of the HDL designs:         *)
(* ext_interrupt_debouncer between an interrupt pin of the sensor and the  *)
(* driver, and pulse_stretcher_synch between an event of the driver and    *)
(* the LEDs.  One step is one 20 MHz clock.  held and up only observe.     *)
(***************************************************************************)
EXTENDS Integers

CONSTANTS
    Tint,   \* c_intdeb_timer1_count (20 in the code)
    Hold    \* par_T_stretch_count (one second of clocks in the tops)

ASSUME InterruptsAssumption ==
    /\ Tint \in Nat /\ Tint >= 3
    /\ Hold \in Nat /\ Hold >= 2

VARIABLES
    pin,      \* ei_interrupt
    int,      \* registers of the debouncer
    event,    \* i_x, the pulse of the driver
    stretch,  \* registers of the stretcher
    rstInt,   \* i_rst_20mhz
    held,     \* clocks for which int.sync has kept its value
    up        \* clocks for which the stretched event has been up

interruptVars == <<pin, int, event, stretch, rstInt, held, up>>

-----------------------------------------------------------------------------
(* The debouncer of the interrupt.                                         *)

\* o_int_deb, not registered.
IntDebounced == int.state \in {"C", "D"}

\* Mutant: one clock short.
IntElapsedEarly == int.t >= Tint - 3

IntElapsed == int.t >= Tint - 2

IntNextState ==
    [A |-> IF int.sync THEN "B" ELSE "A",
     B |-> IF ~int.sync THEN "A"
           ELSE IF IntElapsed THEN "C" ELSE "B",
     C |-> IF ~int.sync THEN "D" ELSE "C",
     D |-> IF int.sync THEN "C"
           ELSE IF IntElapsed THEN "A" ELSE "D"][int.state]

IntTimer ==
    IF rstInt \/ IntNextState # int.state THEN 0
    ELSE IF int.t # Tint - 1 THEN int.t + 1 ELSE int.t

ClockInterrupt ==
    int' = [meta  |-> pin,
            sync  |-> int.meta,
            state |-> IF rstInt THEN "A" ELSE IntNextState,
            t     |-> IntTimer]

-----------------------------------------------------------------------------
(* The stretcher.                                                          *)

\* o_y.
Stretched == stretch.state = "B"

\* Mutant: one clock short.
StretchShort ==
    IF Stretched
    THEN IF stretch.t >= Hold - 2 THEN "A" ELSE "B"
    ELSE IF event THEN "B" ELSE "A"

StretchNextState ==
    IF Stretched
    THEN IF stretch.t >= Hold - 1 THEN "A" ELSE "B"
    ELSE IF event THEN "B" ELSE "A"

StretchTimer ==
    IF rstInt \/ StretchNextState # stretch.state THEN 0
    ELSE IF stretch.t # Hold - 1 THEN stretch.t + 1 ELSE stretch.t

ClockStretcher ==
    stretch' = [state |-> IF rstInt THEN "A" ELSE StretchNextState,
                t     |-> StretchTimer]

-----------------------------------------------------------------------------
InterruptsInit ==
    /\ pin = FALSE /\ event = FALSE /\ rstInt = TRUE
    /\ int = [meta |-> FALSE, sync |-> FALSE, state |-> "A", t |-> 0]
    /\ stretch = [state |-> "A", t |-> 0]
    /\ held = 1 /\ up = 0

ClockInterrupts ==
    /\ pin' \in BOOLEAN /\ event' \in BOOLEAN /\ rstInt' \in BOOLEAN
    /\ ClockInterrupt
    /\ ClockStretcher
    /\ held' = IF int'.sync # int.sync \/ rstInt THEN 1
               ELSE IF held <= Tint THEN held + 1 ELSE held
    /\ up' = IF Stretched' THEN up + 1 ELSE 0

InterruptsSpec == InterruptsInit /\ [][ClockInterrupts]_interruptVars

-----------------------------------------------------------------------------
(* Properties.                                                             *)

\* The timers keep their ranges, and no stretched event outlasts its time.
InterruptsTypeOK ==
    /\ int \in [meta : BOOLEAN, sync : BOOLEAN, state : {"A", "B", "C", "D"},
                t : 0..(Tint - 1)]
    /\ stretch \in [state : {"A", "B"}, t : 0..(Hold - 1)]
    /\ pin \in BOOLEAN /\ event \in BOOLEAN /\ rstInt \in BOOLEAN
    /\ held \in 1..(Tint + 1)
    /\ up \in 0..Hold

\* The debounced interrupt follows the pin only after the timer's full count
\* of clocks at the new value, in both directions; a pulse that the sensor
\* holds that long always gets through.
InterruptFiltered ==
    [][/\ IntDebounced' # IntDebounced =>
             rstInt \/ (held >= Tint /\ int.sync = IntDebounced')
       /\ held > Tint => IntDebounced = int.sync]_interruptVars

\* A stretched event is up for exactly its count of clocks: an event that
\* comes while it is up neither extends nor restarts it, and one that comes
\* while it is down is up at the next clock.
StretchExact ==
    [][~rstInt => /\ Stretched /\ ~Stretched' => up = Hold
                  /\ ~Stretched /\ event => Stretched']_interruptVars
=============================================================================
