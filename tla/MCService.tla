----------------------------- MODULE MCService -----------------------------
(* Symmetry for the runs of ServiceControl.                                *)
EXTENDS ServiceControl, TLC

Symmetry == Permutations(SessionIds)
=============================================================================
