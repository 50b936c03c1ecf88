-------------------------- MODULE InterruptsProofs -------------------------
(***************************************************************************)
(* The properties of module Interrupts, proved for every length of the     *)
(* two timers.  The inductive invariant ties each timer to what has been   *)
(* seen: how long the synchronized pin has kept its value, and how long    *)
(* the stretched event has been up.                                        *)
(***************************************************************************)
EXTENDS Interrupts, TLAPS

Filtering ==
    /\ int.state = "A" /\ int.sync => held = 1
    /\ int.state = "C" /\ ~int.sync => held = 1
    /\ int.state \in {"B", "D"} => int.t <= Tint - 2
    /\ int.state = "B" /\ int.sync => held = int.t + 2
    /\ int.state = "D" /\ ~int.sync => held = int.t + 2

Stretching == up = IF Stretched THEN stretch.t + 1 ELSE 0

InterruptsInv == InterruptsTypeOK /\ Filtering /\ Stretching

-----------------------------------------------------------------------------
LEMMA InitEstablishes == InterruptsInit => InterruptsInv
<1> SUFFICES ASSUME InterruptsInit PROVE InterruptsInv
  OBVIOUS
<1>1. InterruptsTypeOK
  <2>1. /\ 0 \in 0..(Tint - 1) /\ 0 \in 0..(Hold - 1)
        /\ 1 \in 1..(Tint + 1) /\ 0 \in 0..Hold
    BY InterruptsAssumption
  <2>2. [meta |-> FALSE, sync |-> FALSE, state |-> "A", t |-> 0] \in
        [meta : BOOLEAN, sync : BOOLEAN, state : {"A", "B", "C", "D"},
         t : 0..(Tint - 1)]
    BY <2>1
  <2>3. [state |-> "A", t |-> 0] \in [state : {"A", "B"}, t : 0..(Hold - 1)]
    BY <2>1
  <2> QED
    BY <2>1, <2>2, <2>3, Zenon DEF InterruptsInit, InterruptsTypeOK
<1>2. Filtering /\ Stretching
  BY DEF InterruptsInit, Filtering, Stretching, Stretched
<1> QED
  BY <1>1, <1>2 DEF InterruptsInv

LEMMA TypeStep ==
    ASSUME InterruptsInv, ClockInterrupts
    PROVE  InterruptsTypeOK'
<1> USE InterruptsAssumption
<1>1. int' \in [meta : BOOLEAN, sync : BOOLEAN, state : {"A", "B", "C", "D"},
                t : 0..(Tint - 1)]
  <2>1. IntNextState \in {"A", "B", "C", "D"} /\ IntTimer \in 0..(Tint - 1)
    BY DEF InterruptsInv, InterruptsTypeOK, IntNextState, IntTimer
  <2> QED
    BY <2>1 DEF InterruptsInv, InterruptsTypeOK, ClockInterrupts, ClockInterrupt
<1>2. stretch' \in [state : {"A", "B"}, t : 0..(Hold - 1)]
  <2>1. StretchNextState \in {"A", "B"} /\ StretchTimer \in 0..(Hold - 1)
    BY DEF InterruptsInv, InterruptsTypeOK, StretchNextState, StretchTimer
  <2> QED
    BY <2>1 DEF ClockInterrupts, ClockStretcher
<1>3. held' \in 1..(Tint + 1)
  BY DEF InterruptsInv, InterruptsTypeOK, ClockInterrupts
<1>4. up' \in 0..Hold
  <2>1. up \in 0..Hold /\ stretch.t \in 0..(Hold - 1)
    BY DEF InterruptsInv, InterruptsTypeOK
  <2>2. Stretched' => up < Hold
    BY <2>1 DEF InterruptsInv, Stretching, Stretched, ClockInterrupts,
                ClockStretcher, StretchNextState
  <2> QED
    BY <2>1, <2>2 DEF ClockInterrupts
<1> QED
  BY <1>1, <1>2, <1>3, <1>4 DEF InterruptsTypeOK, ClockInterrupts

(* The registers of the two filters after a clock, one by one.             *)
LEMMA FilterStep ==
    ASSUME ClockInterrupts
    PROVE  /\ int'.sync = int.meta
           /\ int'.state = IF rstInt THEN "A" ELSE IntNextState
           /\ int'.t = IntTimer
           /\ stretch'.state = IF rstInt THEN "A" ELSE StretchNextState
           /\ stretch'.t = StretchTimer
           /\ held' = IF int'.sync # int.sync \/ rstInt THEN 1
                      ELSE IF held <= Tint THEN held + 1 ELSE held
           /\ up' = IF Stretched' THEN up + 1 ELSE 0
<1>1. int' = [meta  |-> pin, sync  |-> int.meta,
              state |-> IF rstInt THEN "A" ELSE IntNextState, t |-> IntTimer]
  BY DEF ClockInterrupts, ClockInterrupt
<1>2. stretch' = [state |-> IF rstInt THEN "A" ELSE StretchNextState,
                  t     |-> StretchTimer]
  BY DEF ClockInterrupts, ClockStretcher
<1>3. int'.sync = int.meta /\ int'.t = IntTimer
      /\ int'.state = IF rstInt THEN "A" ELSE IntNextState
  BY ONLY <1>1
<1>4. stretch'.t = StretchTimer
      /\ stretch'.state = IF rstInt THEN "A" ELSE StretchNextState
  BY ONLY <1>2
<1> QED
  BY <1>3, <1>4 DEF ClockInterrupts

LEMMA CountersStep ==
    ASSUME InterruptsInv, ClockInterrupts
    PROVE  Filtering' /\ Stretching'
<1> USE InterruptsAssumption, FilterStep
<1>1. /\ int.state \in {"A", "B", "C", "D"} /\ int.t \in 0..(Tint - 1)
      /\ held \in 1..(Tint + 1) /\ int.sync \in BOOLEAN
  BY DEF InterruptsInv, InterruptsTypeOK
<1>2. int'.sync \in BOOLEAN
  BY DEF InterruptsInv, InterruptsTypeOK
<1>3. Filtering'
  <2>1. CASE rstInt
    BY <2>1 DEF Filtering
  <2>2. CASE ~rstInt /\ int.state = "A"
    <3>1. int'.state = IF int.sync THEN "B" ELSE "A"
      BY <2>2 DEF IntNextState
    <3>2. int'.state = "B" => int'.t = 0
      BY <2>2, <3>1 DEF IntTimer
    <3>3. int.sync => held = 1
      BY <2>2 DEF InterruptsInv, Filtering
    <3> QED
      BY <1>1, <1>2, <2>2, <3>1, <3>2, <3>3 DEF Filtering
  <2>3. CASE ~rstInt /\ int.state = "B"
    <3>1. int'.state = IF ~int.sync THEN "A" ELSE IF IntElapsed THEN "C" ELSE "B"
      BY <2>3 DEF IntNextState
    <3>2. int'.state = "B" => int'.t = int.t + 1 /\ int.t < Tint - 2 /\ held = int.t + 2
      BY <1>1, <2>3, <3>1 DEF IntTimer, IntElapsed, InterruptsInv, Filtering
    <3> QED
      BY <1>1, <1>2, <2>3, <3>1, <3>2 DEF Filtering
  <2>4. CASE ~rstInt /\ int.state = "C"
    <3>1. int'.state = IF ~int.sync THEN "D" ELSE "C"
      BY <2>4 DEF IntNextState
    <3>2. int'.state = "D" => int'.t = 0
      BY <2>4, <3>1 DEF IntTimer
    <3>3. ~int.sync => held = 1
      BY <2>4 DEF InterruptsInv, Filtering
    <3> QED
      BY <1>1, <1>2, <2>4, <3>1, <3>2, <3>3 DEF Filtering
  <2>5. CASE ~rstInt /\ int.state = "D"
    <3>1. int'.state = IF int.sync THEN "C" ELSE IF IntElapsed THEN "A" ELSE "D"
      BY <2>5 DEF IntNextState
    <3>2. int'.state = "D" => int'.t = int.t + 1 /\ int.t < Tint - 2 /\ held = int.t + 2
      BY <1>1, <2>5, <3>1 DEF IntTimer, IntElapsed, InterruptsInv, Filtering
    <3> QED
      BY <1>1, <1>2, <2>5, <3>1, <3>2 DEF Filtering
  <2> QED
    BY <1>1, <2>1, <2>2, <2>3, <2>4, <2>5
<1>4. Stretching'
  <2>1. stretch.state \in {"A", "B"} /\ stretch.t \in 0..(Hold - 1) /\ up \in 0..Hold
    BY DEF InterruptsInv, InterruptsTypeOK
  <2>2. CASE Stretched /\ Stretched'
    BY <2>1, <2>2 DEF InterruptsInv, Stretching, Stretched, StretchNextState,
                      StretchTimer
  <2>3. CASE ~Stretched /\ Stretched'
    BY <2>1, <2>3 DEF InterruptsInv, Stretching, Stretched, StretchNextState,
                      StretchTimer
  <2>4. CASE ~Stretched'
    BY <2>4 DEF Stretching
  <2> QED
    BY <2>2, <2>3, <2>4
<1> QED
  BY <1>3, <1>4

LEMMA Invariance == InterruptsSpec => []InterruptsInv
<1>1. InterruptsInv /\ [ClockInterrupts]_interruptVars => InterruptsInv'
  <2> SUFFICES ASSUME InterruptsInv, [ClockInterrupts]_interruptVars
               PROVE  InterruptsInv'
    OBVIOUS
  <2>1. CASE ClockInterrupts
    BY <2>1, TypeStep, CountersStep DEF InterruptsInv
  <2>2. CASE UNCHANGED interruptVars
    BY <2>2 DEF interruptVars, InterruptsInv, InterruptsTypeOK, Filtering,
                Stretching, Stretched
  <2> QED
    BY <2>1, <2>2
<1> QED
  BY InitEstablishes, <1>1, PTL DEF InterruptsSpec

-----------------------------------------------------------------------------
(* The timers stay in their ranges and no event is stretched beyond Hold.  *)
THEOREM TimersInRange == InterruptsSpec => []InterruptsTypeOK
<1>1. InterruptsInv => InterruptsTypeOK
  BY DEF InterruptsInv
<1> QED
  BY Invariance, <1>1, PTL

(* The debounced interrupt changes after exactly c_intdeb_timer1_count     *)
(* clocks of the pin at its new value, in both directions.                 *)
THEOREM InterruptsAreFiltered == InterruptsSpec => InterruptFiltered
<1> USE InterruptsAssumption
<1>1. InterruptsInv /\ [ClockInterrupts]_interruptVars =>
        [/\ IntDebounced' # IntDebounced =>
               rstInt \/ (held >= Tint /\ int.sync = IntDebounced')
         /\ held > Tint => IntDebounced = int.sync]_interruptVars
  <2> SUFFICES ASSUME InterruptsInv, ClockInterrupts
               PROVE  /\ IntDebounced' # IntDebounced =>
                           rstInt \/ (held >= Tint /\ int.sync = IntDebounced')
                      /\ held > Tint => IntDebounced = int.sync
    OBVIOUS
  <2>1. /\ int.state \in {"A", "B", "C", "D"} /\ int.t \in 0..(Tint - 1)
        /\ held \in 1..(Tint + 1) /\ int.sync \in BOOLEAN
    BY DEF InterruptsInv, InterruptsTypeOK
  <2>2. Filtering
    BY DEF InterruptsInv
  <2>3. held > Tint => (IntDebounced <=> int.sync)
    BY <2>1, <2>2 DEF Filtering, IntDebounced
  <2>4. ASSUME ~rstInt, ~(IntDebounced' <=> IntDebounced)
        PROVE  held >= Tint /\ (int.sync <=> IntDebounced')
    <3>1. int'.state = IntNextState
      BY <2>4, FilterStep
    <3>2. CASE int.state \in {"A", "C"}
      BY <2>1, <2>4, <3>1, <3>2 DEF IntNextState, IntDebounced
    <3>3. CASE int.state = "B"
      <4>1. int.sync /\ IntElapsed /\ IntDebounced'
        BY <2>1, <2>4, <3>1, <3>3 DEF IntNextState, IntDebounced
      <4> QED
        BY <2>1, <2>2, <3>3, <4>1 DEF Filtering, IntElapsed
    <3>4. CASE int.state = "D"
      <4>1. ~int.sync /\ IntElapsed /\ ~IntDebounced'
        BY <2>1, <2>4, <3>1, <3>4 DEF IntNextState, IntDebounced
      <4> QED
        BY <2>1, <2>2, <3>4, <4>1 DEF Filtering, IntElapsed
    <3> QED
      BY <2>1, <3>2, <3>3, <3>4
  <2>5. IntDebounced \in BOOLEAN /\ IntDebounced' \in BOOLEAN
    BY DEF IntDebounced
  <2> QED
    BY <2>1, <2>3, <2>4, <2>5, Zenon
<1> QED
  BY Invariance, <1>1, PTL DEF InterruptsSpec, InterruptFiltered

(* A stretched event lasts exactly its count of clocks.                    *)
THEOREM StretchesAreExact == InterruptsSpec => StretchExact
<1> USE InterruptsAssumption
<1>1. InterruptsInv /\ [ClockInterrupts]_interruptVars =>
        [~rstInt => /\ Stretched /\ ~Stretched' => up = Hold
                    /\ ~Stretched /\ event => Stretched']_interruptVars
  <2> SUFFICES ASSUME InterruptsInv, ClockInterrupts, ~rstInt
               PROVE  /\ Stretched /\ ~Stretched' => up = Hold
                      /\ ~Stretched /\ event => Stretched'
    OBVIOUS
  <2>1. stretch'.state = StretchNextState
    BY FilterStep
  <2>2. stretch.t \in 0..(Hold - 1)
    BY DEF InterruptsInv, InterruptsTypeOK
  <2>3. ASSUME Stretched, ~Stretched' PROVE up = Hold
    BY <2>1, <2>2, <2>3 DEF InterruptsInv, Stretching, Stretched, StretchNextState
  <2>4. ASSUME ~Stretched, event PROVE Stretched'
    BY <2>1, <2>4 DEF Stretched, StretchNextState
  <2> QED
    BY <2>3, <2>4
<1> QED
  BY Invariance, <1>1, PTL DEF InterruptsSpec, StretchExact
=============================================================================
