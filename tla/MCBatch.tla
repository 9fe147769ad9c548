------------------------------ MODULE MCBatch ------------------------------
(***************************************************************************)
(* Small instances of BatchApply: a rule of the default zone, a zone with  *)
(* a rule of its own, and a service the zone requires.                     *)
(***************************************************************************)
EXTENDS BatchApply, TLC

CONSTANTS r, rz, zone, service

MCRank  == [o \in Objects |-> IF o = zone THEN 2 ELSE 1]
MCHome  == [x \in Rules |-> IF x = rz THEN zone ELSE None]
MCNeeds == [o \in Objects |-> {service} \cap (Objects \ {o})]

Symmetry == Permutations(Drafts)
=============================================================================
