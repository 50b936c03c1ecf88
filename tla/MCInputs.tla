----------------------------- MODULE MCInputs ------------------------------
(* The buttons and the interrupts share the clock and nothing else, so a   *)
(* behaviour clocks one of the two and leaves the other as reset left it.  *)
EXTENDS Buttons, Interrupts

VARIABLE unit

MCInit ==
    /\ ButtonsInit /\ InterruptsInit
    /\ unit \in {"buttons", "interrupts"}

MCButtons ==
    /\ unit = "buttons"
    /\ ClockButtons
    /\ UNCHANGED <<unit, interruptVars>>

MCInterrupts ==
    /\ unit = "interrupts"
    /\ ClockInterrupts
    /\ UNCHANGED <<unit, buttonVars>>

MCNext == MCButtons \/ MCInterrupts

MCSpec == MCInit /\ [][MCNext]_<<unit, buttonVars, interruptVars>>
=============================================================================
