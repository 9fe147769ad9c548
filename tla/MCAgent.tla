------------------------------ MODULE MCAgent ------------------------------
(* Instances of AgentChannel. *)
EXTENDS AgentChannel

CONSTANTS r1, r2

\* A rule to be added to firewalld for good, and one to UFW for a while.
AddedAndTemporary == [r \in {r1, r2} |-> IF r = r1 THEN "firewalld" ELSE "ufw"]
=============================================================================
