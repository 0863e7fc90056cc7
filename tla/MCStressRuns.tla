------------------------------ MODULE MCStressRuns ------------------------------
(* Small instances of StressRuns for TLC. *)
EXTENDS StressRuns
CONSTANTS g1, g2, g3
=============================================================================
