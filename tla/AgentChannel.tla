---------------------------- MODULE AgentChannel ----------------------------
(***************************************************************************)
(* Calls of the web process to the privileged agent, and what each side    *)
(* takes the host's firewall to be: the agent looks before every call and  *)
(* keeps a detection and an adapter (wallpilot/agent.py); the web process  *)
(* remembers the backend of the last status it was told                    *)
(* (wallpilot/agent_client.py) and decides by it what a confirmation and   *)
(* an expiry do (wallpilot/control.py).                                    *)
(*                                                                         *)
(* The agent runs every call in a thread of its own, so a step is one      *)
(* reading or writing of what the threads share.  Each rule is tried once  *)
(* and one handler at a time works on it; handlers of one session racing   *)
(* each other, and crashes of the web process, are in ApplyProtocol.       *)
(***************************************************************************)
EXTENDS FiniteSets, Naturals

CONSTANTS
    Rules,
    Home,        \* the backend of each rule
    Temporary,   \* rules with a lifetime
    Deleted,     \* rules on trial for deletion; the others are to be added
    Poller,      \* a thread that answers for the firewall's status
    Late,        \* bound: calls given up and still under way in the agent
    MaxTrials,   \* bound: rules that are tried
    MaxSwitches, \* bound: changes of the host's firewall
    MaxFaults,   \* bound: calls that fail or are given up, restarts
    Backends,    \* that a detection may find
    None

Managed == {"firewalld", "ufw"}

Processes == Rules \cup {Poller}
Callers   == Processes \cup Late

ASSUME RulesAssumption ==
    /\ Managed \subseteq Backends /\ IsFiniteSet(Rules)
    /\ Home \in [Rules -> Managed] /\ Temporary \subseteq Rules
    /\ Deleted \subseteq Rules /\ Temporary \cap Deleted = {}
    /\ \A r \in Temporary : Home[r] = "ufw" \* firewalld has timers of its own
ASSUME NamesAssumption ==
    /\ Poller \notin Rules /\ None \notin Rules \cup Backends
    /\ Late \cap Processes = {}
ASSUME BoundsAssumption ==
    MaxTrials \in Nat /\ MaxSwitches \in Nat /\ MaxFaults \in Nat

VARIABLES
    real,       \* what a detection finds
    runtime,    \* firewalld's runtime configuration
    kept,       \* firewalld's permanent configuration; UFW's rules
    detection, adapter, \* of the agent
    call,       \* calls under way, by caller; those given up by a name in Late
    remembered, \* backend of the web process's RemoteFirewallAdapter
    pc,
    session,    \* table apply_sessions, the row of each rule's trial
    expiry,     \* table temporary_rules
    tried, switches, faults,
    crossed,    \* history: the adapter was replaced between a call's check
                \* and its use
    misled,     \* history: rules handled while another backend was remembered
    trouble     \* history: calls of each rule that failed although the
                \* configuration allowed them; 2 stands for more and for one
                \* that was given up

host    == <<real, runtime, kept>>
agent   == <<detection, adapter>>
web     == <<remembered, pc, session, expiry>>
bounds  == <<tried, switches, faults>>
history == <<crossed, misled, trouble>>
vars == <<host, agent, call, web, bounds, history>>

----------------------------------------------------------------------------
NoCall == [stage |-> "none", rule |-> None, op |-> "status",
           permanent |-> FALSE, found |-> None]

TrialOp(r) == IF r \in Deleted THEN "delete" ELSE "add"
Inverse(r) == IF r \in Deleted THEN "add" ELSE "delete"

Effect(S, op, r) == IF op = "delete" THEN S \ {r} ELSE S \cup {r}

HomeRules(b) == {r \in Rules : Home[r] = b}

Init ==
    /\ real \in Managed
    /\ kept = [b \in Managed |-> HomeRules(b) \cap Deleted]
    /\ runtime = IF real = "firewalld" THEN kept["firewalld"] ELSE {}
    /\ detection = real /\ adapter = real /\ remembered = real
    /\ call = [k \in Callers |-> NoCall]
    /\ pc = [p \in Processes |-> "idle"]
    /\ session = [r \in Rules |-> "none"]
    /\ expiry = [r \in Rules |-> "none"]
    /\ tried = {} /\ switches = 0 /\ faults = 0
    /\ crossed = FALSE /\ misled = {} /\ trouble = [r \in Rules |-> 0]

Advance(k, stage) == call' = [call EXCEPT ![k].stage = stage]
Refreshed(k) == call' = [call EXCEPT ![k].stage = "check", ![k].found = None]

\* Nobody reads the answer to a call that was given up.
Reply(k, stage) ==
    call' = [call EXCEPT ![k] = IF k \in Late THEN NoCall
                                ELSE [NoCall EXCEPT !.stage = stage]]

\* One more failed call of k's rule, if it has one.
Counted(k) ==
    trouble' = [r \in Rules |-> IF r = call[k].rule /\ trouble[r] < 2
                                THEN trouble[r] + 1 ELSE trouble[r]]

----------------------------------------------------------------------------
(* The agent: AgentOperations.dispatch.                                    *)

Detect(k) ==
    /\ call[k].stage = "detect"
    /\ call' = [call EXCEPT ![k].stage = "compare", ![k].found = real]
    /\ UNCHANGED <<host, agent, web, bounds, history>>

Compare(k) ==
    /\ call[k].stage = "compare"
    /\ IF call[k].found = detection THEN Refreshed(k) ELSE Advance(k, "replace")
    /\ UNCHANGED <<host, agent, web, bounds, history>>

Replace(k) ==
    /\ call[k].stage = "replace"
    /\ detection' = call[k].found
    /\ Advance(k, "adapt")
    /\ UNCHANGED <<host, adapter, web, bounds, history>>

Adapt(k) ==
    /\ call[k].stage = "adapt"
    /\ adapter' = call[k].found
    /\ Refreshed(k)
    /\ crossed' = (crossed \/ \E j \in Callers :
                                  call[j].stage = "use" /\ call[j].rule # None)
    /\ UNCHANGED <<host, detection, web, bounds, misled, trouble>>

\* Mutant: any rule is taken.
CheckNothing(k) ==
    /\ call[k].stage = "check"
    /\ Advance(k, "use")
    /\ UNCHANGED <<host, agent, web, bounds, history>>

Check(k) ==
    /\ call[k].stage = "check"
    /\ IF call[k].rule = None \/ Home[call[k].rule] = adapter
       THEN Advance(k, "use") /\ UNCHANGED trouble
       ELSE Reply(k, "error") /\ Counted(k)
    /\ UNCHANGED <<host, agent, web, bounds, crossed, misled>>

\* self.adapter is read again.
Use(k) ==
    /\ call[k].stage = "use"
    /\ call' = [call EXCEPT ![k].stage = "act", ![k].found = adapter]
    /\ UNCHANGED <<host, agent, web, bounds, history>>

\* Mutant: the answer does not say which backend it is about.
StatusOfNone(k) ==
    /\ call[k].stage = "act" /\ call[k].rule = None
    /\ \E stage \in {"ok", "error"} : Reply(k, stage)
    /\ UNCHANGED <<host, agent, web, bounds, history>>

Status(k) ==
    /\ call[k].stage = "act" /\ call[k].rule = None
    /\ \/ Reply(k, "error")
       \/ call' = [call EXCEPT ![k] = IF k \in Late THEN NoCall
                      ELSE [NoCall EXCEPT !.stage = "ok", !.found = call[k].found]]
    /\ UNCHANGED <<host, agent, web, bounds, history>>

\* The configuration a call changes, by the adapter it got.
Target(c) == IF c.found = "firewalld" /\ ~ c.permanent
             THEN runtime ELSE kept[c.found]

\* firewalld refuses what is already so.
Redundant(c) ==
    c.found = "firewalld" /\ (c.op = "add" <=> c.rule \in Target(c))

Reachable(c) == c.found = "ufw" \/ (c.found = "firewalld" /\ real = "firewalld")

Changed(c) ==
    LET rules == Effect(Target(c), c.op, c.rule) IN
    IF c.found = "firewalld" /\ ~ c.permanent
    THEN runtime' = rules /\ UNCHANGED <<real, kept>>
    ELSE kept' = [kept EXCEPT ![c.found] = rules] /\ UNCHANGED <<real, runtime>>

Act(k) ==
    LET c == call[k] IN
    /\ c.stage = "act" /\ c.rule # None
    /\ Reachable(c) /\ ~ Redundant(c)
    /\ Changed(c)
    /\ Reply(k, "ok")
    /\ UNCHANGED <<agent, web, bounds, history>>

Refuse(k) ==
    LET c == call[k] IN
    /\ c.stage = "act" /\ c.rule # None
    /\ ~ Reachable(c) \/ Redundant(c)
    /\ Reply(k, "error")
    /\ IF Reachable(c) THEN UNCHANGED trouble ELSE Counted(k)
    /\ UNCHANGED <<host, agent, web, bounds, crossed, misled>>

\* A command or a D-Bus call that fails, before or after it took effect.
Fail(k) ==
    LET c == call[k] IN
    /\ c.stage = "act" /\ c.rule # None
    /\ Reachable(c) /\ ~ Redundant(c) /\ faults < MaxFaults
    /\ Changed(c) \/ UNCHANGED host
    /\ Reply(k, "error")
    /\ faults' = faults + 1 /\ Counted(k)
    /\ UNCHANGED <<agent, web, tried, switches, crossed, misled>>

AgentStep(k) ==
    \/ Detect(k) \/ Compare(k) \/ Replace(k) \/ Adapt(k) \/ Check(k) \/ Use(k)
    \/ Status(k) \/ Act(k) \/ Refuse(k) \/ Fail(k)

\* firewalld does not answer, whether or not it did what it was asked: the
\* agent's D-Bus calls have no time limit of their own.
Hang(p) ==
    LET c == call[p] IN
    /\ c.stage = "act" /\ c.found = "firewalld" /\ faults < MaxFaults
    /\ c.rule # None => Reachable(c) /\ ~ Redundant(c)
    /\ (c.rule # None /\ Changed(c)) \/ UNCHANGED host
    /\ call' = [call EXCEPT ![p] = [NoCall EXCEPT !.stage = "hung"]]
    /\ faults' = faults + 1 /\ Counted(p)
    /\ UNCHANGED <<agent, web, tried, switches, crossed, misled>>

\* Calls under way are lost, and answers that were not read may be; whoever
\* waits reads the end of the stream.
Waiting == {p \in Processes : call[p] # NoCall}

AgentRestart ==
    /\ faults < MaxFaults
    /\ faults' = faults + 1
    /\ detection' = real /\ adapter' = real
    /\ \E lost \in SUBSET Waiting :
           /\ \A p \in Waiting \ lost : call[p].stage \in {"ok", "error"}
           /\ call' = [k \in Callers |->
                         IF k \in lost THEN [NoCall EXCEPT !.stage = "error"]
                         ELSE IF k \in Waiting THEN call[k] ELSE NoCall]
           /\ trouble' = [r \in Rules |->
                            IF r \in lost /\ pc[r] # "snapshot" /\ trouble[r] < 2
                            THEN trouble[r] + 1 ELSE trouble[r]]
    /\ UNCHANGED <<host, web, tried, switches, crossed, misled>>

----------------------------------------------------------------------------
(* The web process.  A label in Calling is a call under way.               *)

Calling == {"snapshot", "trial", "persist", "unpersist", "rollback", "expire"}

Request(p, label) ==
    IF label = "snapshot" THEN [NoCall EXCEPT !.stage = "detect"]
    ELSE [stage |-> "detect", rule |-> p,
          op |-> CASE label \in {"trial", "persist"} -> TrialOp(p)
                   [] label \in {"unpersist", "rollback"} -> Inverse(p)
                   [] OTHER -> "delete",
          permanent |-> label \in {"persist", "unpersist"}, found |-> None]

\* p goes on to a label, making its call.
Goto(p, label) ==
    /\ pc' = [pc EXCEPT ![p] = label]
    /\ call' = [call EXCEPT ![p] = IF label \in Calling THEN Request(p, label)
                                   ELSE NoCall]

\* Mutant: the client waits on.
WaitOn(p) == call[p].stage = "hung" /\ UNCHANGED vars

\* AgentClient.call gives up after 15 seconds, if the agent does not go on ...
TimeOut(p) ==
    /\ call[p].stage = "hung"
    /\ Advance(p, "error")
    /\ UNCHANGED <<host, agent, web, bounds, history>>

\* ... or if it does, late.  A status call that was given up is one that failed,
\* and one more of the poller's.
GiveUp(p) ==
    /\ call[p].stage \notin {"none", "hung", "ok", "error"} /\ call[p].rule # None
    /\ faults < MaxFaults
    /\ faults' = faults + 1
    /\ \E l \in Late :
           /\ call[l] = NoCall
           /\ call' = [call EXCEPT ![l] = call[p], ![p].stage = "error"]
    /\ trouble' = [r \in Rules |-> IF r = call[p].rule THEN 2 ELSE trouble[r]]
    /\ UNCHANGED <<host, agent, web, tried, switches, crossed, misled>>

Answered(p, label, stage) ==
    /\ pc[p] = label /\ call[p].stage = stage
    /\ UNCHANGED <<host, agent, bounds, crossed, trouble>>

Poll ==
    /\ pc[Poller] = "idle"
    /\ Goto(Poller, "snapshot")
    /\ UNCHANGED <<host, agent, remembered, session, expiry, bounds,
                   history>>

\* begin_rule_apply compares the backends, then takes its snapshot.
BeginTrial(r) ==
    /\ pc[r] = "idle" /\ session[r] = "none"
    /\ Home[r] = remembered
    /\ tried' = tried \cup {r} /\ Cardinality(tried') =< MaxTrials
    /\ Goto(r, "snapshot")
    /\ UNCHANGED <<host, agent, remembered, session, expiry, switches,
                   faults, history>>

StatusTold(p) ==
    /\ Answered(p, "snapshot", "ok")
    /\ remembered' = call[p].found
    /\ Goto(p, IF p = Poller THEN "idle" ELSE "trial")
    /\ UNCHANGED <<session, expiry, misled>>

\* A trial that is not answered leaves no session.
NotTold(p) ==
    /\ Answered(p, "snapshot", "error") \/ Answered(p, "trial", "error")
    /\ Goto(p, "idle")
    /\ UNCHANGED <<remembered, session, expiry, misled>>

TrialAnswered(r) ==
    /\ Answered(r, "trial", "ok")
    /\ session' = [session EXCEPT ![r] = "pending"]
    /\ Goto(r, "idle")
    /\ UNCHANGED <<remembered, expiry, misled>>

Misled(r) == misled' = IF remembered = Home[r] THEN misled ELSE misled \cup {r}

Confirm(r) ==
    /\ pc[r] = "idle" /\ session[r] = "pending"
    /\ Goto(r, IF remembered = "firewalld" /\ r \notin Temporary
               THEN "persist" ELSE "finish")
    /\ Misled(r)
    /\ UNCHANGED <<host, agent, remembered, session, expiry, bounds,
                   crossed, trouble>>

\* Mutant: the permanent call's failure is passed over.
PersistAnyway(r) ==
    /\ \E stage \in {"ok", "error"} : Answered(r, "persist", stage)
    /\ Goto(r, "finish")
    /\ UNCHANGED <<remembered, session, expiry, misled>>

\* Mutant: no compensation.
PersistOrRollback(r) ==
    /\ \/ Answered(r, "persist", "ok") /\ Goto(r, "finish")
       \/ Answered(r, "persist", "error") /\ Goto(r, "rollback")
    /\ UNCHANGED <<remembered, session, expiry, misled>>

PersistAnswered(r) ==
    /\ \/ Answered(r, "persist", "ok") /\ Goto(r, "finish")
       \/ Answered(r, "persist", "error") /\ Goto(r, "unpersist")
    /\ UNCHANGED <<remembered, session, expiry, misled>>

\* Whatever the compensation's answer, the trial is rolled back.
UnpersistAnswered(r) ==
    /\ \E stage \in {"ok", "error"} : Answered(r, "unpersist", stage)
    /\ Goto(r, "rollback")
    /\ UNCHANGED <<remembered, session, expiry, misled>>

FinishConfirm(r) ==
    /\ pc[r] = "finish"
    /\ expiry' = IF r \in Temporary /\ remembered = "ufw"
                 THEN [expiry EXCEPT ![r] = "active"] ELSE expiry
    /\ session' = [session EXCEPT ![r] = "confirmed"]
    /\ Goto(r, "idle")
    /\ Misled(r)
    /\ UNCHANGED <<host, agent, remembered, bounds, crossed, trouble>>

Rollback(r) ==
    /\ pc[r] = "idle" /\ session[r] = "pending"
    /\ Goto(r, "rollback")
    /\ UNCHANGED <<host, agent, remembered, session, expiry, bounds,
                   history>>

RollbackAnswered(r) ==
    /\ \/ /\ Answered(r, "rollback", "ok")
          /\ session' = [session EXCEPT ![r] = "rolled_back"]
       \/ /\ Answered(r, "rollback", "error")
          /\ session' = [session EXCEPT ![r] = "rollback_failed"]
    /\ Goto(r, "idle")
    /\ UNCHANGED <<remembered, expiry, misled>>

\* The watchdog, once the rule's time has come.
Expire(r) ==
    /\ pc[r] = "idle" /\ expiry[r] = "active"
    /\ IF Home[r] = remembered
       THEN Goto(r, "expire") /\ UNCHANGED expiry
       ELSE /\ expiry' = [expiry EXCEPT ![r] = "expiration_failed"]
            /\ UNCHANGED <<pc, call>>
    /\ Misled(r)
    /\ UNCHANGED <<host, agent, remembered, session, bounds, crossed,
                   trouble>>

ExpireAnswered(r) ==
    /\ \/ /\ Answered(r, "expire", "ok")
          /\ expiry' = [expiry EXCEPT ![r] = "expired"]
       \/ /\ Answered(r, "expire", "error")
          /\ expiry' = [expiry EXCEPT ![r] = "expiration_failed"]
    /\ Goto(r, "idle")
    /\ UNCHANGED <<remembered, session, misled>>

Receive(p) == StatusTold(p) \/ NotTold(p)

Answer(r) ==
    \/ TrialAnswered(r) \/ PersistAnswered(r) \/ UnpersistAnswered(r)
    \/ FinishConfirm(r) \/ RollbackAnswered(r) \/ ExpireAnswered(r)

Handle(r) == BeginTrial(r) \/ Confirm(r) \/ Rollback(r) \/ Expire(r)

----------------------------------------------------------------------------
\* Service actions of an administrator, or anybody else on the host.  Leaving
\* firewalld its runtime rules are gone; starting, it loads the permanent ones.
Switch ==
    /\ switches < MaxSwitches
    /\ \E b \in Backends \ {real} : real' = b
    /\ runtime' = IF real' = "firewalld" THEN kept["firewalld"] ELSE {}
    /\ switches' = switches + 1
    /\ UNCHANGED <<kept, agent, call, web, tried, faults, history>>

Next ==
    \/ \E k \in Callers : AgentStep(k)
    \/ \E p \in Processes : Hang(p) \/ TimeOut(p) \/ GiveUp(p) \/ Receive(p)
    \/ \E r \in Rules : Handle(r) \/ Answer(r)
    \/ Poll \/ AgentRestart \/ Switch

\* The agent's thread goes on, unless it hangs in a D-Bus call: its commands
\* have time limits (runner.py).  Of a call given up nothing is assumed.
Fairness ==
    /\ \A p \in Processes : /\ WF_vars(AgentStep(p))
                           /\ WF_vars(TimeOut(p))
                           /\ WF_vars(Receive(p))
    /\ \A r \in Rules : WF_vars(Answer(r))

Spec == Init /\ [][Next]_vars /\ Fairness

----------------------------------------------------------------------------
Stages == {"none", "detect", "compare", "replace", "adapt", "check", "use", "act",
           "hung", "ok", "error"}

CallType == [stage : Stages, rule : Rules \cup {None},
             op : {"add", "delete", "status"}, permanent : BOOLEAN,
             found : Backends \cup {None}]

TypeOK ==
    /\ real \in Backends /\ detection \in Backends /\ adapter \in Backends
    /\ remembered \in Backends
    /\ runtime \subseteq Rules /\ kept \in [Managed -> SUBSET Rules]
    /\ call \in [Callers -> CallType]
    /\ pc \in [Processes -> Calling \cup {"idle", "finish"}]
    /\ session \in [Rules -> {"none", "pending", "confirmed", "rolled_back",
                              "rollback_failed"}]
    /\ expiry \in [Rules -> {"none", "active", "expired", "expiration_failed"}]
    /\ tried \subseteq Rules
    /\ switches \in 0..MaxSwitches /\ faults \in 0..MaxFaults
    /\ crossed \in BOOLEAN /\ misled \subseteq Rules /\ trouble \in [Rules -> 0..2]

\* A backend holds only rules made for it, although the adapter is read twice,
\* unless it was replaced between the two readings (agent.py:123, 125).
RightBackend ==
    ~ crossed => /\ runtime \cup kept["firewalld"] \subseteq HomeRules("firewalld")
                 /\ kept["ufw"] \subseteq HomeRules("ufw")

\* What was confirmed is permanent, and a temporary UFW rule has its expiry, if
\* the web process remembered the right backend (control.py:788, 812) and the
\* agent used the right adapter: whatever failed, was late or was restarted.
ConfirmedAsAsked ==
    \A r \in Rules :
        session[r] = "confirmed" /\ r \notin misled /\ ~ crossed
        => IF Home[r] = "firewalld" THEN r \in kept["firewalld"] <=> r \notin Deleted
           ELSE r \in Temporary => expiry[r] # "none"

\* A rollback that was answered leaves the rule as it was before the trial, in
\* the permanent configuration too, if no more than one call of the rule failed
\* and none was given up (control.py:795, the compensation; agent.py:220).
OneFailureIsUndone ==
    \A r \in Rules :
        session[r] = "rolled_back" /\ trouble[r] < 2 /\ ~ crossed
        => r \in kept[Home[r]] <=> r \in Deleted

\* Every request ends: its call is answered, by an exception of the agent's too
\* (agent.py:222), or it is one of firewalld's that hangs and the client gives
\* it up (agent_client.py:43), however the calls race and the agent restarts.
EveryRequestEnds == \A p \in Processes : pc[p] # "idle" ~> pc[p] = "idle"
=============================================================================
