---------------------------- MODULE MCAclTester ---------------------------
(* Model values for the runs of module AclTester.                          *)
EXTENDS AclTester

MCSwitches == {{}, {0}, {1}}
=============================================================================
