----------------------------- MODULE MCDisplay -----------------------------
(* The byte an empty queue sends, for the run of Display.                  *)
EXTENDS Display

MCNoByte == Byte("none", 0, NoText)
=============================================================================
