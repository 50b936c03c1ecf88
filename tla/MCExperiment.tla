--------------------------- MODULE MCExperiment ---------------------------
(* Model values for the runs of module Experiment.                         *)
EXTENDS Experiment

MCSwitches == {{}, {0}, {1}, {0, 1}}
MCButtons  == {{}, {0}, {1}}
MCNoButtons  == {{}}
=============================================================================
