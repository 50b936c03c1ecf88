---------------------------- MODULE MCGenericSpi ---------------------------
(* The bytes for the run of GenericSpi.                                    *)
EXTENDS GenericSpi

MCBytes == {"b1", "b2"}
MCAnswers == <<"r1", "r2">>
=============================================================================
