---------------------------- MODULE MCAclDriver ----------------------------
(* Values of both signs that use both bytes of a register pair, and the    *)
(* first and the last column of the preset tables.                         *)
EXTENDS AclDriver
MCReadings == { <<-1, 1000, -2048, 300>>, <<255, -256, 3, 7>> }
MCPresets == { [activeThresh |-> 32,  activeTimer |-> 16,
                inactiveThresh |-> 16,  inactiveTimer |-> 32],
               [activeThresh |-> 320, activeTimer |-> 160,
                inactiveThresh |-> 160, inactiveTimer |-> 320] }
=============================================================================
