--------------------------- MODULE ButtonsProofs ---------------------------
(***************************************************************************)
(* The safety properties of module Buttons, proved for every number of     *)
(* lines and presets, every debounce time and every length of a reset.     *)
(*                                                                         *)
(* None is inductive by itself.  The inductive invariant adds what the     *)
(* timers stand for (Waiting, Leaving: the count of a state bounds how     *)
(* long the lines have been steady, or gone), and where the pulse of a     *)
(* press can be while the debouncer is in each state (Pulses), which holds *)
(* again after a reset because the reset outlasts the pulse (Cleared).     *)
(* That steady lines come out needs the way through the states in time     *)
(* (Settling): how long they can have been steady in each of them.         *)
(***************************************************************************)
EXTENDS Buttons, FiniteSetTheorems, TLAPS

Waiting ==
    deb.state = "B" => /\ deb.t <= Tdeb - 2
                       /\ Legal(deb.prev)
                       /\ deb.sync = deb.prev => seen.held >= deb.t + 2

Leaving ==
    /\ seen.held >= 1
    /\ deb.sync # Debounced => seen.away >= 1
    /\ deb.state = "D" => /\ deb.t <= Tdeb - 3
                          /\ deb.sync # deb.store => seen.away >= deb.t + 2

Cleared ==
    inReset /\ resetting < Stages =>
        /\ deb.state = "A"
        /\ \A b \in ButtonLines :
              shot[b].state = "A" /\ preset[b] = 0 /\ seen.presses[b] = 0

Pulse(b) ==
    /\ deb.state \in {"A", "B"} => shot[b].state # "B" /\ ~shot[b].y
    /\ deb.state = "B" => shot[b].state = "A"
    /\ deb.state \in {"C", "D"} /\ b \notin deb.store =>
          shot[b].state = "A" /\ ~shot[b].y
    /\ deb.state = "D" /\ b \in deb.store =>
          shot[b].state = "C" \/ (shot[b].state = "B" /\ deb.t = 0)
    /\ shot[b].state # "C" => ~shot[b].y

Pulses == ~inReset => \A b \in ButtonLines : Pulse(b)

(* The longest way is from C: a stored line that is gone, D to its end, A, *)
(* B to its end.                                                           *)
Settling ==
    /\ seen.steady >= 1 => deb.meta = lines
    /\ seen.steady >= 2 => deb.sync = lines
    /\ seen.steady >= 3 =>
          /\ deb.prev = lines
          /\ deb.state = "A" /\ Legal(lines) => seen.steady <= Tdeb + 1
          /\ deb.state = "B" => seen.steady <= Tdeb + 2 + deb.t
          /\ deb.state = "C" => deb.store = lines
          /\ deb.state = "D" => seen.steady <= deb.t + 3

ButtonsInv ==
    /\ ButtonsTypeOK /\ Waiting /\ Leaving /\ Settling /\ Cleared /\ Pulses
    /\ OneStepPerPress

-----------------------------------------------------------------------------
LEMMA InitEstablishes == ButtonsInit => ButtonsInv
<1> SUFFICES ASSUME ButtonsInit PROVE ButtonsInv
  OBVIOUS
<1> USE ButtonsAssumption
<1>1. Legal({})
  BY FS_EmptySet DEF Legal
<1>2. ButtonsTypeOK
  BY <1>1 DEF ButtonsInit, ButtonsTypeOK, SeenCap
<1>3. Waiting /\ Leaving /\ Settling /\ Cleared /\ Pulses /\ OneStepPerPress
  BY DEF ButtonsInit, Waiting, Leaving, Settling, Cleared, Pulses, OneStepPerPress,
         inReset, Debounced
<1> QED
  BY <1>2, <1>3 DEF ButtonsInv

(* The registers of the debouncer after a clock, one by one.               *)
LEMMA DebouncerStep ==
    ASSUME ClockDebouncer
    PROVE  /\ deb'.sync = deb.meta
           /\ deb'.prev = IF inReset THEN {} ELSE deb.sync
           /\ deb'.store = DebStore
           /\ deb'.state = IF inReset THEN "A" ELSE DebNextState
           /\ deb'.t = DebTimer
<1>1. deb' = [meta |-> lines, sync |-> deb.meta,
              prev |-> IF inReset THEN {} ELSE deb.sync, store |-> DebStore,
              state |-> IF inReset THEN "A" ELSE DebNextState, t |-> DebTimer]
  BY DEF ClockDebouncer
<1> QED
  BY ONLY <1>1, SMTT(30)

LEMMA TypeStep ==
    ASSUME ButtonsTypeOK, Waiting, ClockButtons
    PROVE  ButtonsTypeOK'
<1> USE ButtonsAssumption
<1>1. DebNextState \in {"A", "B", "C", "D"} /\ DebTimer \in 0..(Tdeb - 1)
  BY DEF ButtonsTypeOK, DebNextState, DebTimer
<1>2. Legal({})
  BY FS_EmptySet DEF Legal
<1>3. DebStore \in {v \in SUBSET Lines : Legal(v)}
  BY <1>2 DEF ButtonsTypeOK, Waiting, DebStore
<1>4. deb' \in [meta : SUBSET Lines, sync : SUBSET Lines, prev : SUBSET Lines,
                store : {v \in SUBSET Lines : Legal(v)},
                state : {"A", "B", "C", "D"}, t : 0..(Tdeb - 1)]
  BY <1>1, <1>3 DEF ButtonsTypeOK, ClockButtons, ClockDebouncer
<1>5. shot' \in [ButtonLines -> [state : {"A", "B", "C"}, y : BOOLEAN]]
  BY DEF ClockButtons, ClockOneShots, ShotNextState
<1>6. \A n \in 0..(Presets - 1) : Following(n) \in 0..(Presets - 1)
  BY DEF Following
<1>7. preset' \in [ButtonLines -> 0..(Presets - 1)]
  BY <1>6 DEF ButtonsTypeOK, ClockButtons, ClockSelectors, NextPreset
<1>8. resetting' \in 0..Stages
  BY DEF ButtonsTypeOK, ClockButtons, ClockReset, inReset
<1>9. \A n \in 0..SeenCap : Count(n) \in 0..SeenCap
  BY DEF Count, SeenCap
<1>10. 0 \in 0..SeenCap /\ 1 \in 0..SeenCap
  BY DEF SeenCap
<1>11. seen' \in [held : 0..SeenCap, away : 0..SeenCap, steady : 0..SeenCap,
                  presses : [ButtonLines -> 0..(Presets - 1)]]
  BY <1>6, <1>9, <1>10 DEF ButtonsTypeOK, ClockButtons, Observe
<1> QED
  BY <1>4, <1>5, <1>7, <1>8, <1>11 DEF ButtonsTypeOK, ClockButtons

(* What the counters of the observer do in a clock.                        *)
LEMMA CountsGrow ==
    ASSUME ButtonsTypeOK, ClockButtons, NEW k \in Nat, k < SeenCap
    PROVE  /\ deb'.sync = deb.sync /\ seen.held >= k => seen'.held >= k + 1
           /\ deb'.sync # Debounced' /\ seen.away >= k => seen'.away >= k + 1
           /\ seen'.held >= 1
  BY ButtonsAssumption
  DEF ButtonsTypeOK, ClockButtons, Observe, Count, SeenCap

LEMMA TimersStep ==
    ASSUME ButtonsTypeOK, Waiting, Leaving, ClockButtons
    PROVE  Waiting' /\ Leaving'
<1> USE ButtonsAssumption, DebouncerStep
<1>1. ClockDebouncer /\ deb.t \in Nat /\ deb.state \in {"A", "B", "C", "D"}
  BY DEF ClockButtons, ButtonsTypeOK
<1>2. seen.held >= 1 /\ seen'.held >= 1
  BY CountsGrow DEF Leaving, SeenCap
<1>3. Waiting'
  <2> SUFFICES ASSUME deb'.state = "B" PROVE Waiting'
    BY DEF Waiting
  <2>1. ~inReset /\ DebNextState = "B" /\ deb'.prev = deb.sync
    BY <1>1
  <2>2. CASE deb.state = "A"
    <3>1. Legal(deb.sync) /\ deb'.t = 0
      BY <1>1, <2>1, <2>2 DEF DebNextState, DebTimer
    <3>2. deb'.sync = deb'.prev => seen'.held >= 2
      BY <1>2, <2>1, CountsGrow DEF SeenCap
    <3> QED
      BY <2>1, <3>1, <3>2 DEF Waiting
  <2>3. CASE deb.state = "B"
    <3>1. deb.sync = deb.prev /\ deb.t # Tdeb - 2
      BY <2>1, <2>3 DEF DebNextState
    <3>2. deb'.t = deb.t + 1 /\ deb.t + 1 <= Tdeb - 2
      BY <1>1, <2>1, <2>3, <3>1 DEF DebTimer, Waiting
    <3>3. deb'.sync = deb'.prev => seen'.held >= deb.t + 3
      <4>1. seen.held >= deb.t + 2 /\ deb.t + 2 \in Nat /\ deb.t + 2 < SeenCap
        BY <1>1, <2>3, <3>1, <3>2 DEF Waiting, SeenCap
      <4> QED
        BY <4>1, <1>1, <2>1, CountsGrow
    <3> QED
      BY <1>1, <2>1, <2>3, <3>1, <3>2, <3>3 DEF Waiting
  <2> QED
    BY <1>1, <2>1, <2>2, <2>3 DEF DebNextState
<1>4. deb'.sync # Debounced' => seen'.away >= 1
  BY CountsGrow DEF SeenCap, ButtonsTypeOK
<1>5. deb'.state = "D" => /\ deb'.t <= Tdeb - 3
                          /\ deb'.sync # deb'.store => seen'.away >= deb'.t + 2
  <2> SUFFICES ASSUME deb'.state = "D"
               PROVE  /\ deb'.t <= Tdeb - 3
                      /\ deb'.sync # deb'.store => seen'.away >= deb'.t + 2
    OBVIOUS
  <2>1. ~inReset /\ DebNextState = "D" /\ Debounced' = deb'.store
    BY <1>1 DEF Debounced
  <2>2. CASE deb.state = "C"
    <3>1. seen.away >= 1 /\ deb'.t = 0
      BY <1>1, <2>1, <2>2 DEF DebNextState, DebTimer, Leaving, Debounced
    <3> QED
      BY <2>1, <3>1, CountsGrow DEF SeenCap
  <2>3. CASE deb.state = "D"
    <3>1. deb.sync # deb.store /\ deb.t # Tdeb - 3
      BY <2>1, <2>3 DEF DebNextState
    <3>2. deb'.t = deb.t + 1 /\ deb.t + 1 <= Tdeb - 3
      BY <1>1, <2>1, <2>3, <3>1 DEF DebTimer, Leaving
    <3>3. seen.away >= deb.t + 2 /\ deb.t + 2 \in Nat /\ deb.t + 2 < SeenCap
      BY <1>1, <2>3, <3>1, <3>2 DEF Leaving, SeenCap
    <3>4. deb'.sync # Debounced' => seen'.away >= (deb.t + 2) + 1
      BY <3>3, CountsGrow
    <3> QED
      BY <1>1, <2>1, <3>2, <3>4
  <2> QED
    BY <1>1, <2>1, <2>2, <2>3 DEF DebNextState
<1> QED
  BY <1>2, <1>3, <1>4, <1>5 DEF Leaving

(* Each clock of steady lines is one on the way to them.                   *)
LEMMA SettlingStep ==
    ASSUME ButtonsTypeOK, Waiting, Leaving, Settling, ClockButtons
    PROVE  Settling'
<1> USE ButtonsAssumption, DebouncerStep
<1>1. /\ ClockDebouncer /\ deb.t \in Nat /\ deb.state \in {"A", "B", "C", "D"}
      /\ seen.steady \in Nat /\ seen'.steady \in Nat
  BY TypeStep DEF ClockButtons, ButtonsTypeOK
<1>2. deb'.meta = lines
  BY DEF ClockButtons, ClockDebouncer
<1>3. seen'.steady >= 1 => lines' = lines /\ ~inReset /\ seen'.steady <= seen.steady + 1
  BY <1>1 DEF ClockButtons, Observe, Count, ButtonsTypeOK
<1>4. seen'.steady >= 2 => deb'.sync = lines'
  BY <1>1, <1>3 DEF Settling
<1>5. ASSUME seen'.steady >= 3
      PROVE  /\ deb'.prev = lines'
             /\ deb'.state = "A" /\ Legal(lines') => seen'.steady <= Tdeb + 1
             /\ deb'.state = "B" => seen'.steady <= Tdeb + 2 + deb'.t
             /\ deb'.state = "C" => deb'.store = lines'
             /\ deb'.state = "D" => seen'.steady <= deb'.t + 3
  <2>1. /\ lines' = lines /\ ~inReset /\ seen'.steady <= seen.steady + 1
        /\ deb.sync = lines
    BY <1>1, <1>3, <1>5 DEF Settling
  <2>2. /\ deb'.prev = lines /\ deb'.state = DebNextState
        /\ deb'.store = DebStore /\ deb'.t = DebTimer
    BY <1>1, <2>1
  <2>3. CASE deb.state = "A"
    BY <1>1, <1>5, <2>1, <2>2, <2>3 DEF DebNextState, DebTimer, Settling
  <2>4. CASE deb.state = "B"
    <3>1. deb.prev = lines => deb.t <= Tdeb - 2
      BY <2>4 DEF Waiting
    <3>2. CASE deb.sync # deb.prev
      <4>1. deb'.state = "A" /\ seen.steady <= 2
        BY <1>1, <2>1, <2>2, <2>4, <3>2 DEF DebNextState, Settling
      <4> QED
        BY <1>1, <2>1, <2>2, <4>1
    <3>3. CASE deb.sync = deb.prev /\ deb.t = Tdeb - 2
      <4>1. deb'.state = "C" /\ deb'.store = lines
        BY <2>1, <2>2, <2>4, <3>3 DEF DebNextState, DebStore
      <4> QED
        BY <2>1, <2>2, <4>1
    <3>4. CASE deb.sync = deb.prev /\ deb.t # Tdeb - 2
      <4>1. deb'.state = "B" /\ deb'.t = deb.t + 1
        BY <1>1, <2>1, <2>2, <2>4, <3>1, <3>4 DEF DebNextState, DebTimer
      <4> QED
        BY <1>1, <2>1, <2>2, <2>4, <4>1 DEF Settling
    <3> QED
      BY <3>2, <3>3, <3>4
  <2>5. CASE deb.state = "C"
    BY <1>1, <1>5, <2>1, <2>2, <2>5 DEF DebNextState, DebTimer, DebStore, Settling
  <2>6. CASE deb.state = "D"
    <3>1. deb.t <= Tdeb - 3 /\ deb'.store = deb.store
      BY <2>1, <2>2, <2>6 DEF Leaving, DebStore
    <3>2. seen'.steady <= deb.t + 4
      BY <1>1, <2>1, <2>6 DEF Settling
    <3>3. CASE deb.sync = deb.store
      <4>1. deb'.state = "C"
        BY <2>2, <2>6, <3>3 DEF DebNextState
      <4> QED
        BY <2>1, <2>2, <3>1, <3>3, <4>1
    <3>4. CASE deb.sync # deb.store /\ deb.t = Tdeb - 3
      <4>1. deb'.state = "A"
        BY <2>2, <2>6, <3>4 DEF DebNextState
      <4> QED
        BY <1>1, <2>1, <2>2, <3>2, <3>4, <4>1
    <3>5. CASE deb.sync # deb.store /\ deb.t # Tdeb - 3
      <4>1. deb'.state = "D" /\ deb'.t = deb.t + 1
        BY <1>1, <2>1, <2>2, <2>6, <3>1, <3>5 DEF DebNextState, DebTimer
      <4> QED
        BY <1>1, <2>1, <2>2, <3>2, <4>1
    <3> QED
      BY <3>3, <3>4, <3>5
  <2> QED
    BY <1>1, <2>3, <2>4, <2>5, <2>6
<1> QED
  BY <1>2, <1>3, <1>4, <1>5 DEF Settling

LEMMA ClearedStep ==
    ASSUME ButtonsTypeOK, Cleared, Pulses, ClockButtons
    PROVE  Cleared'
<1> USE ButtonsAssumption, DebouncerStep
<1> SUFFICES ASSUME inReset', resetting' < Stages
             PROVE  /\ deb'.state = "A"
                    /\ \A b \in ButtonLines : /\ shot'[b].state = "A"
                                              /\ preset'[b] = 0
                                              /\ seen'.presses[b] = 0
  BY DEF Cleared
<1>1. inReset
  BY DEF ClockButtons, ClockReset, inReset
<1> QED
  BY <1>1 DEF ClockButtons, ClockOneShots, ClockSelectors, Observe

(* Without a reset: where the pulse of line b is after a clock.            *)
LEMMA PulseStep ==
    ASSUME ButtonsTypeOK, Waiting, Leaving, ClockButtons, ~inReset,
           NEW b \in ButtonLines, Pulse(b)
    PROVE  Pulse(b)'
<1> USE ButtonsAssumption, DebouncerStep
<1>1. ClockDebouncer /\ deb.t \in Nat /\ deb.state \in {"A", "B", "C", "D"}
  BY DEF ClockButtons, ButtonsTypeOK
<1>2. /\ shot'[b].state = ShotNextState(b)
      /\ shot'[b].y = (shot[b].state = "B")
  BY DEF ClockButtons, ClockOneShots
<1>3. shot[b].state \in {"A", "B", "C"}
  BY DEF ButtonsTypeOK
<1>4. CASE deb.state = "A"
  <2>1. deb'.state \in {"A", "B"} /\ ShotNextState(b) = "A"
    BY <1>1, <1>4 DEF DebNextState, ShotNextState, Debounced
  <2> QED
    BY <1>2, <1>4, <2>1 DEF Pulse
<1>5. CASE deb.state = "B"
  <2>1. deb'.state \in {"A", "B", "C"} /\ ShotNextState(b) = "A"
    BY <1>1, <1>5 DEF DebNextState, ShotNextState, Debounced
  <2> QED
    BY <1>2, <1>5, <2>1 DEF Pulse
<1>6. CASE deb.state = "C"
  <2>1. deb'.state \in {"C", "D"} /\ deb'.store = deb.store
    BY <1>1, <1>6 DEF DebNextState, DebStore
  <2>2. deb'.state = "D" => deb'.t = 0
    BY <1>1, <1>6 DEF DebTimer
  <2>3. Debounced = deb.store
    BY <1>6 DEF Debounced
  <2> QED
    BY <1>2, <1>3, <1>6, <2>1, <2>2, <2>3 DEF Pulse, ShotNextState
<1>7. CASE deb.state = "D"
  <2>1. deb'.state \in {"A", "C", "D"} /\ deb'.store = deb.store
    BY <1>1, <1>7 DEF DebNextState, DebStore
  <2>2. deb'.state = "A" => deb.t # 0
    BY <1>1, <1>7 DEF DebNextState
  <2>3. Debounced = deb.store
    BY <1>7 DEF Debounced
  <2>4. b \in deb.store => ShotNextState(b) = "C"
    BY <1>7, <2>3 DEF Pulse, ShotNextState
  <2>5. b \notin deb.store => ShotNextState(b) = "A"
    BY <2>3 DEF ShotNextState
  <2> QED
    BY <1>2, <1>3, <1>7, <2>1, <2>2, <2>4, <2>5 DEF Pulse
<1> QED
  BY <1>1, <1>4, <1>5, <1>6, <1>7

LEMMA PulsesStep ==
    ASSUME ButtonsTypeOK, Waiting, Leaving, Cleared, Pulses, ClockButtons
    PROVE  Pulses'
<1> USE ButtonsAssumption
<1> SUFFICES ASSUME ~inReset', NEW b \in ButtonLines
             PROVE  Pulse(b)'
  BY DEF Pulses
<1>1. CASE inReset
  <2>1. resetting < Stages
    BY <1>1 DEF ClockButtons, ClockReset, inReset, ButtonsTypeOK
  <2>2. shot[b].state = "A"
    BY <1>1, <2>1 DEF Cleared
  <2>3. deb'.state = "A"
    BY <1>1, DebouncerStep DEF ClockButtons
  <2>4. shot'[b].state = "A" /\ ~shot'[b].y
    BY <1>1, <2>2 DEF ClockButtons, ClockOneShots
  <2> QED
    BY <2>3, <2>4 DEF Pulse
<1>2. CASE ~inReset
  BY <1>2, PulseStep DEF Pulses
<1> QED
  BY <1>1, <1>2

LEMMA PressStep ==
    ASSUME ButtonsTypeOK, Cleared, Pulses, OneStepPerPress, ClockButtons
    PROVE  OneStepPerPress'
<1> USE ButtonsAssumption
<1> SUFFICES ASSUME ~inReset', NEW b \in ButtonLines
             PROVE  seen'.presses[b] = IF InFlight(b)' THEN Following(preset'[b])
                                       ELSE preset'[b]
  BY DEF OneStepPerPress
<1>1. deb.state \in {"A", "B", "C", "D"} /\ shot[b].state \in {"A", "B", "C"}
  BY DEF ButtonsTypeOK
<1>2. ClockDebouncer
  BY DEF ClockButtons
<1>3. CASE inReset
  <2>1. resetting < Stages
    BY <1>3 DEF ClockButtons, ClockReset, inReset, ButtonsTypeOK
  <2>2. shot[b].state = "A"
    BY <1>3, <2>1 DEF Cleared
  <2>3. deb'.state = "A" /\ b \notin Debounced'
    BY <1>2, <1>3, DebouncerStep DEF Debounced
  <2>4. ~InFlight(b)'
    BY <1>3, <2>2, <2>3 DEF InFlight, ClockButtons, ClockOneShots
  <2>5. seen'.presses[b] = 0 /\ preset'[b] = 0
    BY <1>3 DEF ClockButtons, ClockSelectors, Observe
  <2> QED
    BY <2>4, <2>5
<1>4. CASE ~inReset
  <2>1. /\ shot'[b].state = ShotNextState(b)
        /\ shot'[b].y = (shot[b].state = "B")
        /\ preset'[b] = NextPreset(b)
    BY <1>4 DEF ClockButtons, ClockOneShots, ClockSelectors
  <2>2. seen'.presses[b] = IF b \in Debounced' \ Debounced
                           THEN Following(seen.presses[b]) ELSE seen.presses[b]
    BY <1>4 DEF ClockButtons, Observe
  <2>3. seen.presses[b] = IF InFlight(b) THEN Following(preset[b]) ELSE preset[b]
    BY <1>4 DEF OneStepPerPress
  <2>4. Pulse(b)
    BY <1>4 DEF Pulses
  <2>5. CASE b \in Debounced' \ Debounced
    <3>1. deb.state \notin {"C", "D"} \/ b \notin deb.store
      BY <2>5 DEF Debounced
    <3>2. deb'.state \in {"C", "D"} /\ b \in deb'.store
      BY <2>5 DEF Debounced
    <3>3. deb.state = "B"
      BY <1>1, <1>2, <1>4, <3>1, <3>2, DebouncerStep DEF DebNextState, DebStore
    <3>4. ~InFlight(b)
      BY <2>4, <2>5, <3>3 DEF Pulse, InFlight
    <3>5. InFlight(b)' /\ preset'[b] = preset[b]
      BY <2>1, <2>4, <2>5, <3>3 DEF Pulse, InFlight, NextPreset, ShotNextState
    <3> QED
      BY <2>2, <2>3, <2>5, <3>4, <3>5
  <2>6. CASE b \notin Debounced' \ Debounced
    <3>1. CASE shot[b].y
      <4>1. InFlight(b) /\ shot[b].state = "C" /\ preset'[b] = Following(preset[b])
        BY <1>1, <2>1, <2>4, <3>1 DEF InFlight, Pulse, NextPreset
      <4>2. ~InFlight(b)'
        BY <2>1, <2>6, <4>1 DEF InFlight, ShotNextState
      <4> QED
        BY <2>2, <2>3, <2>6, <4>1, <4>2
    <3>2. CASE ~shot[b].y
      <4>1. preset'[b] = preset[b]
        BY <2>1, <3>2 DEF NextPreset
      <4>2. InFlight(b)' <=> InFlight(b)
        BY <1>1, <2>1, <2>6, <3>2 DEF InFlight, ShotNextState
      <4> QED
        BY <2>2, <2>3, <2>6, <4>1, <4>2
    <3> QED
      BY <3>1, <3>2
  <2> QED
    BY <2>5, <2>6
<1> QED
  BY <1>3, <1>4

LEMMA Invariance == ButtonsSpec => []ButtonsInv
<1>1. ButtonsInv /\ [ClockButtons]_buttonVars => ButtonsInv'
  <2> SUFFICES ASSUME ButtonsInv, [ClockButtons]_buttonVars
               PROVE  ButtonsInv'
    OBVIOUS
  <2>1. CASE ClockButtons
    BY <2>1, TypeStep, TimersStep, SettlingStep, ClearedStep, PulsesStep, PressStep
    DEF ButtonsInv
  <2>2. CASE UNCHANGED buttonVars
    BY <2>2 DEF buttonVars, ButtonsInv, ButtonsTypeOK, Waiting, Leaving, Settling, Cleared,
                Pulses, Pulse, OneStepPerPress, InFlight, Debounced, inReset
  <2> QED
    BY <2>1, <2>2
<1> QED
  BY InitEstablishes, <1>1, PTL DEF ButtonsSpec

-----------------------------------------------------------------------------
(* The registers of the debouncer, the one-shots and the selectors keep    *)
(* their ranges, and no value with two lines up is ever stored.            *)
THEOREM RegistersInRange == ButtonsSpec => []ButtonsTypeOK
<1>1. ButtonsInv => ButtonsTypeOK
  BY DEF ButtonsInv
<1> QED
  BY Invariance, <1>1, PTL

(* Pins that keep their value come out of the debouncer, whatever state it *)
(* was in, within two debounce times and a clock; two lines at a time      *)
(* never do.                                                               *)
THEOREM SteadyLinesComeOut == ButtonsSpec => []SettlesOnLines
<1> USE ButtonsAssumption
<1>1. ButtonsInv => SettlesOnLines
  <2> SUFFICES ASSUME ButtonsInv, seen.steady >= 2 * Tdeb + 1
               PROVE  Debounced = IF Legal(lines) THEN lines ELSE {}
    BY DEF SettlesOnLines
  <2>1. /\ deb.state \in {"A", "B", "C", "D"} /\ Legal(deb.store) /\ deb.t \in Nat
        /\ seen.steady \in Nat /\ seen.steady >= 3
    BY DEF ButtonsInv, ButtonsTypeOK
  <2>2. deb.state # "B"
    BY <2>1 DEF ButtonsInv, Waiting, Settling
  <2>3. deb.state # "D"
    BY <2>1 DEF ButtonsInv, Leaving, Settling
  <2>4. deb.state = "A" => ~Legal(lines)
    BY <2>1 DEF ButtonsInv, Settling
  <2>5. deb.state = "C" => deb.store = lines
    BY <2>1 DEF ButtonsInv, Settling
  <2> QED
    BY <2>1, <2>2, <2>3, <2>4, <2>5 DEF Debounced
<1> QED
  BY Invariance, <1>1, PTL

(* Every debounced press steps the selector of its line exactly once,      *)
(* across any number of resets, provided a reset lasts two clocks or more. *)
THEOREM PressesAreCounted == ButtonsSpec => []OneStepPerPress
<1>1. ButtonsInv => OneStepPerPress
  BY DEF ButtonsInv
<1> QED
  BY Invariance, <1>1, PTL

(* A line passes multi_input_debounce after c_T steady clocks and no       *)
(* earlier, and its output is taken back after c_T - 1 clocks without it.  *)
THEOREM BouncesAreStopped == ButtonsSpec => BouncesStopped
<1> USE ButtonsAssumption
<1>1. ButtonsInv /\ [ClockButtons]_buttonVars =>
        [/\ ~(Debounced' \subseteq Debounced) =>
               Debounced' = deb.sync /\ seen.held >= Tdeb
         /\ ~(Debounced \subseteq Debounced') =>
               inReset \/ seen.away >= Tdeb - 1]_buttonVars
  <2> SUFFICES ASSUME ButtonsInv, ClockButtons
               PROVE  /\ ~(Debounced' \subseteq Debounced) =>
                           Debounced' = deb.sync /\ seen.held >= Tdeb
                      /\ ~(Debounced \subseteq Debounced') =>
                           inReset \/ seen.away >= Tdeb - 1
    OBVIOUS
  <2>1. ClockDebouncer /\ deb.state \in {"A", "B", "C", "D"}
    BY DEF ButtonsInv, ButtonsTypeOK, ClockButtons
  <2>2. ASSUME ~(Debounced' \subseteq Debounced)
        PROVE  Debounced' = deb.sync /\ seen.held >= Tdeb
    <3>1. deb'.state \in {"C", "D"} /\ Debounced' = deb'.store
      BY <2>2 DEF Debounced
    <3>2. deb.state = "B"
      BY <2>1, <2>2, <3>1, DebouncerStep DEF Debounced, DebNextState, DebStore
    <3>3. ~inReset /\ deb.sync = deb.prev /\ deb.t = Tdeb - 2 /\ deb'.store = deb.prev
      BY <2>1, <3>1, <3>2, DebouncerStep DEF DebNextState, DebStore
    <3> QED
      BY <3>1, <3>2, <3>3 DEF ButtonsInv, Waiting
  <2>3. ASSUME ~(Debounced \subseteq Debounced'), ~inReset
        PROVE  seen.away >= Tdeb - 1
    <3>1. deb.state \in {"C", "D"}
      BY <2>3 DEF Debounced
    <3>2. deb'.state = DebNextState /\ deb'.store = deb.store
      BY <2>1, <2>3, <3>1, DebouncerStep DEF DebStore
    <3>3. DebNextState \notin {"C", "D"}
      BY <2>3, <3>1, <3>2 DEF Debounced
    <3>4. deb.state = "D" /\ deb.sync # deb.store /\ deb.t = Tdeb - 3
      BY <3>1, <3>3 DEF DebNextState
    <3> QED
      BY <3>4 DEF ButtonsInv, Leaving
  <2> QED
    BY <2>2, <2>3
<1> QED
  BY Invariance, <1>1, PTL DEF ButtonsSpec, BouncesStopped

(* The debounced output never goes from one line straight to another.      *)
THEOREM LinesAreSeparated == ButtonsSpec => NeverSwapped
<1>1. ButtonsInv /\ [ClockButtons]_buttonVars =>
        [Debounced # {} /\ Debounced' # {} => Debounced' = Debounced]_buttonVars
  <2> SUFFICES ASSUME ClockButtons, Debounced # {}, Debounced' # {}
               PROVE  Debounced' = Debounced
    OBVIOUS
  <2>1. deb.state \in {"C", "D"} /\ deb'.state \in {"C", "D"}
    BY DEF Debounced
  <2>2. deb'.store = deb.store
    BY <2>1, DebouncerStep DEF ClockButtons, DebStore
  <2> QED
    BY <2>1, <2>2 DEF Debounced
<1> QED
  BY Invariance, <1>1, PTL DEF ButtonsSpec, NeverSwapped
=============================================================================
