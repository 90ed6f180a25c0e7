----------------------------- MODULE MCHfssJob -----------------------------
(* One job for TLC: an AEDT process beside the worker, two source files.   *)
EXTENDS HfssJob

CONSTANTS aedt, m1, m2
=============================================================================
