---------------------------- MODULE MCAclTasks ----------------------------
(* Looks that differ in every LED, and in the mode.                        *)
EXTENDS AclTasks
Look(mode, b) == [mode |-> mode, sw0 |-> ~b, sw1 |-> b, awake |-> b, active |-> b, inactive |-> ~b]
MCLooks   == {Look("MEAS", FALSE), Look("LINK", TRUE)}
MCLooks4  == MCLooks \cup {Look("NONE", FALSE), Look("BOOT", FALSE)}
=============================================================================
