-------------------------- MODULE DraftLifecycle --------------------------
(***************************************************************************)
(* What a change of one rule promises, as docs/api.md draws it:            *)
(*                                                                         *)
(*   pending draft -> applying runtime -> pending confirmation             *)
(*                                        |- confirmed                     *)
(*                                        |- rolled_back / rollback_failed *)
(*                                                                         *)
(* with the firewall's rules beside it: a trial changes exactly its rule,  *)
(* a rollback takes exactly that change back, a confirmation keeps it.     *)
(***************************************************************************)
CONSTANTS Rules, Drafts

VARIABLES
    phase,   \* of each draft
    change,  \* of each draft: the rule, and whether it is to be there
    config   \* the rules in force

vars == <<phase, change, config>>

Phases == {"none", "draft", "applying", "trial", "confirmed", "rolled_back",
           "rollback_failed"}

With(r, present) == IF present THEN config \cup {r} ELSE config \ {r}

Init ==
    /\ phase = [d \in Drafts |-> "none"]
    /\ change \in [Drafts -> [rule : Rules, present : BOOLEAN]]
    /\ config \in SUBSET Rules

Move(d, from, to) ==
    /\ phase[d] = from
    /\ phase' = [phase EXCEPT ![d] = to]

Create(d) ==
    /\ Move(d, "none", "draft")
    /\ \E r \in Rules, p \in BOOLEAN :
           change' = [change EXCEPT ![d] = [rule |-> r, present |-> p]]
    /\ UNCHANGED config

Submit(d) == Move(d, "draft", "applying") /\ UNCHANGED <<change, config>>

SendBack(d) == Move(d, "applying", "draft") /\ UNCHANGED <<change, config>>

Try(d) ==
    /\ Move(d, "applying", "trial")
    /\ (change[d].rule \in config) # change[d].present
    /\ config' = With(change[d].rule, change[d].present)
    /\ UNCHANGED change

\* The call raised; it may have taken effect, and the draft is given up.
Strand(d) ==
    /\ phase[d] = "applying"
    /\ config' = With(change[d].rule, change[d].present)
    /\ UNCHANGED <<phase, change>>

Confirm(d) == Move(d, "trial", "confirmed") /\ UNCHANGED <<change, config>>

RollBack(d) ==
    /\ Move(d, "trial", "rolled_back")
    /\ config' = With(change[d].rule, ~change[d].present)
    /\ UNCHANGED change

FailRollBack(d) ==
    /\ Move(d, "trial", "rollback_failed")
    /\ config' \in {config, With(change[d].rule, ~change[d].present)}
    /\ UNCHANGED change

Next == \E d \in Drafts :
    \/ Create(d) \/ Submit(d) \/ SendBack(d) \/ Try(d) \/ Strand(d)
    \/ Confirm(d) \/ RollBack(d) \/ FailRollBack(d)

Spec == Init /\ [][Next]_vars
=============================================================================
