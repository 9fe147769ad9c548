----------------------------- MODULE CalmApply -----------------------------
(***************************************************************************)
(* ApplyProtocol under a calm administrator, and what it then implements.  *)
(*                                                                         *)
(* The code does not enforce the three assumptions below; without them the *)
(* properties fail (ApplyRace.cfg, ApplyOverlap.cfg and                    *)
(* ApplyCompensation.cfg).  With them the interleaved, failing handlers    *)
(* implement DraftLifecycle.                                               *)
(***************************************************************************)
EXTENDS ApplyProtocol

\* No two handlers have the same draft or session in hand.
Exclusive ==
    \A a, b \in Actors :
        a # b /\ job[a] # None /\ {pc[a], pc[b]} \cap RestorePC = {} => job[a] # job[b]

\* A draft is submitted while no other trial of its rule is open or stuck,
OneTrial ==
    \A w \in Workers : pc[w] \in DraftPC =>
        LET r == drafts[job[w]].rule IN
        /\ \A s \in SessionIds :
               sessions[s] # NoRow /\ sessions[s].rule = r =>
                   sessions[s].status \in {"confirmed", "rolled_back"}
        /\ \A d \in Drafts \ {job[w]} :
               drafts[d].status = "applying" => drafts[d].rule # r

\* and while it still says something: the rule is not yet as it asks.
Meaningful ==
    \A w \in Workers : pc[w] = "markApplying" =>
        (drafts[job[w]].op = "delete" <=> drafts[job[w]].rule \in runtime)

Calm == Exclusive /\ OneTrial /\ Meaningful

CalmInit == Init /\ (Backend = "firewalld" => permanent = runtime)
CalmNext == Next /\ Calm'
CalmSpec == CalmInit /\ [][CalmNext]_vars

\* Less calm: trials of one rule may overlap, one request after another, ...
SerialNext == Next /\ (Exclusive /\ Meaningful)'
SerialSpec == CalmInit /\ [][SerialNext]_vars

\* ... or firewalld's runtime and permanent rules differ at the start.
UnsyncedSpec == Init /\ [][CalmNext]_vars

----------------------------------------------------------------------------
(* The refinement mapping.  A trial begins when the runtime call succeeds, *)
(* before its session is recorded, and ends when the inverse call answers, *)
(* before that is recorded.                                                *)

SessionOf(d) ==
    {s \in SessionIds : sessions[s] # NoRow /\ sessions[s].draft = d}

Doing(label, id) == \E a \in Actors : pc[a] = label /\ job[a] = id

SessionPhase(s) ==
    IF sessions[s].status # "pending" THEN sessions[s].status
    ELSE IF Doing("setRolledBack", s) THEN "rolled_back"
    ELSE IF Doing("setRollbackFailed", s) THEN "rollback_failed"
    ELSE "trial"

DraftPhase(d) ==
    IF drafts[d] = NoRow THEN "none"
    ELSE IF drafts[d].status = "pending" THEN "draft"
    ELSE IF Doing("openSession", d) THEN "trial"
    ELSE drafts[d].status

Phase(d) ==
    IF SessionOf(d) # {}
    THEN SessionPhase(CHOOSE s \in SessionOf(d) : TRUE)
    ELSE DraftPhase(d)

AnyChange == [rule |-> CHOOSE r \in Rules : TRUE, present |-> TRUE]

Change(d) ==
    IF drafts[d] = NoRow THEN AnyChange
    ELSE [rule |-> drafts[d].rule, present |-> drafts[d].op # "delete"]

Lifecycle == INSTANCE DraftLifecycle WITH
    phase  <- [d \in Drafts |-> Phase(d)],
    change <- [d \in Drafts |-> Change(d)],
    config <- runtime

\* The handlers carry out the documented state machine, and every change of
\* the firewall belongs to the step of a trial.
ImplementsLifecycle == Lifecycle!Spec
=============================================================================
