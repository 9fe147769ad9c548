------------------------------ MODULE MCApply ------------------------------
(***************************************************************************)
(* Small instances of ApplyProtocol for TLC.  Threads, and drafts, are told *)
(* apart by nothing but their names.                                       *)
(***************************************************************************)
EXTENDS ApplyProtocol, TLC

Symmetry == Permutations(Workers) \cup Permutations(Drafts)
=============================================================================
