----------------------------- MODULE CalmProofs -----------------------------
(***************************************************************************)
(* Theorems about CalmApply: under a calm administrator, while nothing     *)
(* crashes and no rule has a lifetime, ApplyProtocol implements            *)
(* DraftLifecycle and leaves the rules that the confirmed changes make.    *)
(*                                                                         *)
(* The invariant says, of each rule, where its one trial stands and what   *)
(* that makes of the rule; of each handler, that the row it works on is    *)
(* still as it read it, which only Exclusive guarantees.                   *)
(***************************************************************************)
EXTENDS CalmApply, ApplyProofs

\* What the theorems assume of the constants: crashes strand changes
\* (apply_crash), and lifetimes end by themselves.
Undisturbed == MaxCrashes = 0 /\ Lifetimes \subseteq {FALSE}

\* Nothing has a lifetime, so nothing waits to expire.
NoLifetimes ==
    /\ \A d \in Drafts : drafts[d] # NoRow => ~drafts[d].temp
    /\ \A s \in SessionIds : sessions[s] # NoRow => ~sessions[s].temp
    /\ \A i \in ItemIds : items[i] # NoRow => ~items[i].temp
    /\ \A r \in Rules : schedule[r] = "none"
    /\ timed = {} /\ dueRules = {}
    /\ \A a \in Actors : pc[a] \notin {"scheduleExpiry", "expireRule"} \cup RecordPC

----------------------------------------------------------------------------
(* The rows of trials.                                                     *)

\* Session ids are given out in order.
InOrder ==
    \A s, t \in SessionIds : sessions[s] # NoRow /\ t < s => sessions[t] # NoRow

\* A session is of a draft that was submitted, and says what the draft says.
OfDraft(s) ==
    LET d == drafts[sessions[s].draft] IN
    /\ sessions[s].rule = d.rule
    /\ sessions[s].op = "delete" <=> d.op = "delete"
    /\ d.status # "pending"
SessionsOfDrafts == \A s \in SessionIds : sessions[s] # NoRow => OfDraft(s)

OnePerDraft ==
    \A s, t \in SessionIds :
        /\ sessions[s] # NoRow /\ sessions[t] # NoRow
        /\ sessions[s].draft = sessions[t].draft
        => s = t

\* A trial that is open, or could not be undone, is the last of its rule.
Unsettled(s) == sessions[s].status \in {"pending", "rollback_failed"}
OpenIsLast ==
    \A s, t \in SessionIds :
        /\ sessions[s] # NoRow /\ sessions[t] # NoRow
        /\ sessions[s].rule = sessions[t].rule /\ Unsettled(s)
        => t =< s

TrialRows == InOrder /\ SessionsOfDrafts /\ OnePerDraft /\ OpenIsLast

----------------------------------------------------------------------------
(* The handlers.                                                           *)

HasNoSession(d) ==
    \A s \in SessionIds : sessions[s] # NoRow => sessions[s].draft # d

\* Places at which the session in hand is still pending.
Deciding ==
    (ConfirmPC \ {"draftConfirmed"})
        \cup {"inverse", "setRolledBack", "setRollbackFailed"}

AsRead(a) ==
    /\ pc[a] \in DraftPC =>
           /\ a \in Workers
           /\ HasNoSession(job[a])
           /\ drafts[job[a]].status =
                  IF pc[a] = "markApplying" THEN "pending" ELSE "applying"
    /\ pc[a] \in Deciding => sessions[job[a]].status = "pending"

Handlers == \A a \in Actors : AsRead(a)

----------------------------------------------------------------------------
(* The rules in force.                                                     *)

Before(r) == Expected(r, start.runtime)

\* A draft about to be tried asks for a change, and one that has been tried
\* has made it.
TryFits(a) ==
    LET d == drafts[job[a]] IN
    /\ pc[a] \in {"resetDraft", "applyRuntime"} =>
           /\ d.rule \in runtime <=> Before(d.rule)
           /\ d.op = "delete" <=> d.rule \in runtime
    /\ pc[a] = "openSession" =>
           /\ d.op = "delete" <=> Before(d.rule)
           /\ d.op = "delete" <=> d.rule \notin runtime

\* A pending trial is in force until its inverse has answered.
TrialFits(s) ==
    sessions[s].status = "pending" =>
        /\ sessions[s].op = "delete" <=> Before(sessions[s].rule)
        /\ Doing("setRolledBack", s) =>
               (sessions[s].op = "delete" <=> sessions[s].rule \in runtime)
        /\ ~Doing("setRolledBack", s) /\ ~Doing("setRollbackFailed", s) =>
               (sessions[s].op = "delete" <=> sessions[s].rule \notin runtime)

\* No trial of the rule is open, failed to be undone, or was never recorded.
Clear(r) ==
    /\ \A s \in SessionIds :
           sessions[s] # NoRow /\ sessions[s].rule = r => ~Unsettled(s)
    /\ \A d \in Drafts :
           drafts[d] # NoRow /\ drafts[d].status = "applying" /\ drafts[d].rule = r
               => ~HasNoSession(d)

RulesFit ==
    /\ \A a \in Actors : TryFits(a)
    /\ \A s \in SessionIds : TrialFits(s)
    /\ \A r \in Rules : Clear(r) => (r \in runtime <=> Before(r))

CalmInv == Inv /\ Calm /\ NoLifetimes /\ TrialRows /\ Handlers /\ RulesFit

----------------------------------------------------------------------------
(* The permanent rules of firewalld.                                       *)

\* Past the permanent call, before the session is marked.
Persisted == {"addRecycleItem", "markRestored", "setConfirmed"}

Persisting(r) ==
    \E a \in Actors : /\ pc[a] \in Persisted \cup {"undoPersist"}
                      /\ sessions[job[a]].rule = r

PermanentFits ==
    /\ start.permanent = start.runtime
    /\ \A a \in Actors :
           /\ pc[a] = "undoPersist" => faults = MaxFaults
           /\ pc[a] \in Persisted =>
                  LET s == sessions[job[a]] IN
                  s.op = "delete" <=> s.rule \notin permanent
    /\ \A r \in Rules : ~Persisting(r) => (r \in permanent <=> Before(r))

\* A recycle bin row is of the rule its session deleted.
ItemsOfSessions ==
    \A i \in ItemIds : items[i] # NoRow =>
        /\ sessions[items[i].session] # NoRow
        /\ items[i].rule = sessions[items[i].session].rule

\* Among the confirmed changes of a rule one is the last.
HasLast ==
    \A r \in Rules : ConfirmedOn(r) # {} =>
        \E s \in ConfirmedOn(r) : \A t \in ConfirmedOn(r) : t =< s

----------------------------------------------------------------------------
(* The kinds of steps.                                                     *)

LEMMA NoCrash ==
    ASSUME Undisturbed, Inv
    PROVE  ~(\E failed \in BOOLEAN : Crash(failed)) /\ ~Reboot
BY BoundAssumption DEF Undisturbed, Inv, TypeOK, WorldType, Crash, Reboot

\* Nobody moves and no row or rule this module is about changes.
Still == UNCHANGED <<drafts, sessions, runtime, start, pc, job>>

\* A new draft, after which a restoration ends.
NewRow(d) ==
    /\ drafts[d] = NoRow
    /\ drafts'[d] \in DraftRow /\ drafts'[d].status = "pending"
    /\ ~drafts'[d].temp
    /\ \A e \in Drafts \ {d} : drafts'[e] = drafts[e]
    /\ \A a \in Actors :
           \/ pc'[a] = pc[a] /\ job'[a] = job[a]
           \/ pc[a] \in RestorePC /\ pc'[a] = "idle"
    /\ UNCHANGED <<sessions, runtime, start>>

\* An actor goes on without changing any of it, and comes to work on a row only
\* by reading that it is pending.
Walk(a) ==
    /\ UNCHANGED <<drafts, sessions, runtime, start>>
    /\ \A b \in Actors \ {a} : pc'[b] = pc[b] /\ job'[b] = job[b]
    /\ pc[a] \notin DraftPC \cup {"setRolledBack", "setRollbackFailed"}
    /\ \/ pc'[a] \notin DraftPC \cup Deciding
       \/ /\ pc'[a] = "markApplying" /\ a \in Workers
          /\ job'[a] \in Drafts /\ drafts[job'[a]].status = "pending"
       \/ /\ pc'[a] \in Deciding \ {"setRolledBack", "setRollbackFailed"}
          /\ job'[a] \in SessionIds /\ sessions[job'[a]].status = "pending"

\* Only the step of a draft whose trial has been decided is left.
CloseDraft(a) ==
    /\ pc[a] \in {"draftConfirmed", "draftRolledBack"}
    /\ \E x \in {"confirmed", "rolled_back"} :
           drafts' = [drafts EXCEPT ![sessions[job[a]].draft].status = x]
    /\ pc'[a] \notin DraftPC \cup Deciding
    /\ \A b \in Actors \ {a} : pc'[b] = pc[b] /\ job'[b] = job[b]
    /\ UNCHANGED <<sessions, runtime, start>>

\* Where control goes, nobody else moving.
Goes(a, label, id) ==
    /\ pc'[a] = label /\ job'[a] = id
    /\ \A b \in Actors \ {a} : pc'[b] = pc[b] /\ job'[b] = job[b]

LEMMA GotoGoes ==
    ASSUME ControlType, NEW a \in Actors, NEW label, Goto(a, label)
    PROVE  Goes(a, label, job[a])
BY DEF Goto, Goes, ControlType

LEMMA TakeGoes ==
    ASSUME ControlType, NEW a \in Actors, NEW label, NEW id, Take(a, id, label)
    PROVE  Goes(a, label, id)
BY DEF Take, Goes, ControlType

LEMMA ReturnGoes ==
    ASSUME ControlType, NEW a \in Actors, Return(a)
    PROVE  Goes(a, "idle", None)
BY TakeGoes DEF Return

\* A pass goes on outside the places this module is about.
Leaves(a) ==
    /\ pc'[a] \notin DraftPC \cup Deciding
    /\ \A b \in Actors \ {a} : pc'[b] = pc[b] /\ job'[b] = job[b]

LEMMA GoesOut ==
    ASSUME NEW a, NEW label, NEW id, Goes(a, label, id),
           label \in {"idle", "listDue", "readSession", "expireRule",
                      "draftRolledBack", "draftConfirmed"} \cup RestorePC
    PROVE  Leaves(a)
BY DEF Goes, Leaves, DraftPC, Deciding, ConfirmPC, RestorePC

LEMMA ProceedLeaves ==
    ASSUME ControlType, NEW a \in Actors, NEW S, Proceed(a, S)
    PROVE  Leaves(a)
<1>1. CASE Take(a, None, IF a = Watchdog THEN "listDue" ELSE "idle")
  BY <1>1, TakeGoes, GoesOut
<1>2. ASSUME NEW s \in S, Take(a, s, "readSession")
      PROVE  Leaves(a)
  BY <1>2, TakeGoes, GoesOut
<1> QED BY <1>1, <1>2 DEF Proceed

LEMMA ReturnLeaves ==
    ASSUME ControlType, NEW a \in Actors, Return(a)
    PROVE  Leaves(a)
BY ReturnGoes, GoesOut

LEMMA AfterRollbackLeaves ==
    ASSUME ControlType, NEW a \in Actors, AfterRollback(a)
    PROVE  Leaves(a)
BY ProceedLeaves, ReturnLeaves DEF AfterRollback

LEMMA NextDueLeaves ==
    ASSUME ControlType, NEW S, NextDue(S)
    PROVE  Watchdog \in Actors /\ Leaves(Watchdog)
<1>1. Watchdog \in Actors
  BY DEF Actors, Web
<1>2. Goes(Watchdog, IF S = {} THEN "idle" ELSE "expireRule", None)
  BY <1>1, TakeGoes DEF NextDue
<1> QED BY <1>1, <1>2, GoesOut

LEMMA LeavesWalks ==
    ASSUME NEW a \in Actors, Leaves(a), UNCHANGED <<drafts, sessions, runtime, start>>,
           pc[a] \notin DraftPC \cup {"setRolledBack", "setRollbackFailed"}
    PROVE  Walk(a)
BY DEF Leaves, Walk

\* The steps of a confirmation lie ahead of its decision.
LEMMA AheadDeciding ==
    ASSUME NEW s
    PROVE  /\ {AfterRecycle(s), AfterSchedule(s), AfterPersist(s), FirstStep(s)}
                  \subseteq Deciding \ {"setRolledBack", "setRollbackFailed"}
BY DEF AfterRecycle, AfterSchedule, AfterPersist, FirstStep, Deciding, ConfirmPC

LEMMA GoesOnWalks ==
    ASSUME NEW a \in Actors, NEW label, Goes(a, label, job[a]), Inv, AsRead(a),
           pc[a] \in Deciding \ {"setRolledBack", "setRollbackFailed"},
           label \in Deciding \ {"setRolledBack", "setRollbackFailed"},
           UNCHANGED <<drafts, sessions, runtime, start>>
    PROVE  Walk(a)
<1>1. pc[a] \in ConfirmPC \cup RollbackPC /\ pc[a] \notin DraftPC
  BY DEF Deciding, ConfirmPC, RollbackPC, DraftPC
<1>2. job[a] \in SessionIds /\ sessions[job[a]].status = "pending"
  BY <1>1, SessionInHand DEF AsRead
<1> QED BY <1>1, <1>2 DEF Goes, Walk

LEMMA RequestWalks ==
    ASSUME Inv, NEW w \in Workers, Request(w)
    PROVE  Walk(w)
<1>0. w \in Actors /\ ControlType
  BY DEF Actors, Web, Inv, TypeOK
<1>1. UNCHANGED <<drafts, sessions, runtime, start>> /\ pc[w] = "idle"
  BY DEF Request, ReadDraft, ReadForConfirm, RequestRollback, ReadItem, tables,
         firewall, world
<1>2. pc[w] \notin DraftPC \cup {"setRolledBack", "setRollbackFailed"}
  BY <1>1 DEF DraftPC
<1>3. ASSUME NEW d \in Drafts, ReadDraft(w, d)
      PROVE  Walk(w)
  <2>1. Goes(w, "markApplying", d)
    BY <1>0, <1>3, TakeGoes DEF ReadDraft
  <2> QED BY <1>1, <1>2, <1>3, <2>1 DEF Walk, Goes, ReadDraft
<1>4. ASSUME NEW s \in SessionIds, ReadForConfirm(w, s)
      PROVE  Walk(w)
  <2>1. Goes(w, IF s \in overdue THEN "readSession" ELSE FirstStep(s), s)
    BY <1>0, <1>4, TakeGoes DEF ReadForConfirm
  <2>2. CASE s \in overdue
    BY <1>0, <1>1, <1>2, <2>1, <2>2, GoesOut, LeavesWalks
  <2>3. CASE s \notin overdue
    <3>1. FirstStep(s) \in Deciding \ {"setRolledBack", "setRollbackFailed"}
      BY AheadDeciding
    <3>2. sessions[s].status = "pending"
      BY <1>4 DEF ReadForConfirm
    <3> QED BY <1>1, <1>2, <2>1, <2>3, <3>1, <3>2 DEF Walk, Goes
  <2> QED BY <2>2, <2>3
<1>5. ASSUME NEW s \in SessionIds, RequestRollback(w, s)
      PROVE  Walk(w)
  <2>1. Goes(w, "readSession", s)
    BY <1>0, <1>5, TakeGoes DEF RequestRollback
  <2> QED BY <1>0, <1>1, <1>2, <2>1, GoesOut, LeavesWalks
<1>6. ASSUME NEW i \in ItemIds, ReadItem(w, i)
      PROVE  Walk(w)
  <2>1. Goes(w, "listRules", i)
    BY <1>0, <1>6, TakeGoes DEF ReadItem
  <2> QED BY <1>0, <1>1, <1>2, <2>1, GoesOut, LeavesWalks DEF RestorePC
<1> QED BY <1>3, <1>4, <1>5, <1>6 DEF Request

\* The steps of a restoration: one may write a draft.
LEMMA RestorationKind ==
    ASSUME Inv, NoLifetimes, NEW w \in Workers, ListRules(w) \/ MarkFound(w)
    PROVE  Walk(w) \/ \E d \in Drafts : NewRow(d)
<1>0. /\ w \in Actors /\ ControlType /\ TablesType
      /\ pc[w] \in RestorePC /\ pc[w] \notin DraftPC \cup {"setRolledBack", "setRollbackFailed"}
      /\ UNCHANGED <<sessions, runtime, start>>
  BY DEF Actors, Web, Inv, TypeOK, ListRules, MarkFound, RestorePC, DraftPC, firewall, world
<1>1. job[w] \in ItemIds /\ items[job[w]] # NoRow
  BY <1>0 DEF Inv, HoldsRow, Holds
<1>2. items[job[w]].rule \in Rules /\ items[job[w]].temp = FALSE
  BY <1>0, <1>1 DEF TablesType, ItemRow, NoLifetimes
<1>3. ASSUME UNCHANGED drafts, Return(w) \/ Goto(w, "markFound")
      PROVE  Walk(w)
  <2>1. Leaves(w)
    BY <1>0, <1>3, ReturnGoes, GotoGoes, GoesOut DEF RestorePC
  <2> QED BY <1>0, <1>3, <2>1, LeavesWalks
<1> DEFINE row == [status |-> "pending", op |-> "restore", rule |-> items[job[w]].rule,
                   temp |-> items[job[w]].temp, item |-> job[w]]
<1>4. ASSUME NEW d \in Drafts, drafts[d] = NoRow, drafts' = [drafts EXCEPT ![d] = row],
             Return(w)
      PROVE  NewRow(d)
  <2>1. row \in DraftRow /\ row.status = "pending" /\ ~row.temp
    BY <1>1, <1>2 DEF DraftRow
  <2>2. drafts'[d] = row /\ \A e \in Drafts \ {d} : drafts'[e] = drafts[e]
    BY <1>0, <1>4 DEF TablesType
  <2>3. \A a \in Actors :
            \/ pc'[a] = pc[a] /\ job'[a] = job[a]
            \/ pc[a] \in RestorePC /\ pc'[a] = "idle"
    BY <1>0, <1>4, ReturnGoes DEF Goes
  <2> HIDE DEF row
  <2> QED BY <1>0, <1>4, <2>1, <2>2, <2>3 DEF NewRow
<1>5. CASE MarkFound(w)
  BY <1>3, <1>5 DEF MarkFound
<1>6. CASE ListRules(w)
  <2>1. \/ UNCHANGED drafts /\ (Return(w) \/ Goto(w, "markFound"))
        \/ /\ Return(w)
           /\ \E d \in Drafts : drafts[d] = NoRow /\ drafts' = [drafts EXCEPT ![d] = row]
    BY <1>6 DEF ListRules
  <2> QED BY <1>3, <1>4, <2>1
<1> QED BY <1>5, <1>6

\* The steps of a confirmation that decide nothing.
LEMMA ConfirmWalks ==
    ASSUME Inv, NEW w \in Workers, AsRead(w),
           Persist(w) \/ UndoPersist(w) \/ ScheduleExpiry(w) \/ AddRecycleItem(w)
               \/ MarkRestored(w)
    PROVE  Walk(w)
<1>0. w \in Actors /\ ControlType
  BY DEF Actors, Web, Inv, TypeOK
<1>1. UNCHANGED <<drafts, sessions, runtime, start>>
  BY DEF Persist, UndoPersist, ScheduleExpiry, AddRecycleItem, MarkRestored,
         PermanentCall, tables, firewall, world
<1>2. pc[w] \in Deciding \ {"setRolledBack", "setRollbackFailed"}
  BY DEF Persist, UndoPersist, ScheduleExpiry, AddRecycleItem, MarkRestored,
         Deciding, ConfirmPC
<1>3. CASE UndoPersist(w)
  <2>1. Goes(w, "readSession", job[w])
    BY <1>0, <1>3, GotoGoes DEF UndoPersist
  <2>2. pc[w] \notin DraftPC \cup {"setRolledBack", "setRollbackFailed"}
    BY <1>3 DEF UndoPersist, DraftPC
  <2> QED BY <1>0, <1>1, <2>1, <2>2, GoesOut, LeavesWalks
<1>4. CASE ~UndoPersist(w)
  <2>1. PICK label \in {AfterRecycle(job[w]), AfterSchedule(job[w]),
                        AfterPersist(job[w]), "undoPersist", "setConfirmed"} :
            Goto(w, label)
    BY <1>4 DEF Persist, ScheduleExpiry, AddRecycleItem, MarkRestored
  <2>2. label \in Deciding \ {"setRolledBack", "setRollbackFailed"}
    BY AheadDeciding DEF Deciding, ConfirmPC
  <2>3. Goes(w, label, job[w])
    BY <1>0, <2>1, GotoGoes
  <2> QED BY <1>0, <1>1, <1>2, <2>2, <2>3, GoesOnWalks
<1> QED BY <1>3, <1>4

LEMMA ReadSessionWalks ==
    ASSUME Inv, NEW a \in Actors, ReadSession(a)
    PROVE  Walk(a)
<1>0. ControlType
  BY DEF Inv, TypeOK
<1>1. UNCHANGED <<drafts, sessions, runtime, start>> /\ pc[a] = "readSession"
  BY DEF ReadSession, tables, firewall, world
<1>2. pc[a] \notin DraftPC \cup {"setRolledBack", "setRollbackFailed"}
  BY <1>1 DEF DraftPC
<1>3. CASE sessions[job[a]].status = "pending"
  <2>1. Goes(a, "inverse", job[a])
    BY <1>0, <1>3, GotoGoes DEF ReadSession
  <2>2. job[a] \in SessionIds
    BY <1>1, SessionInHand DEF RollbackPC
  <2> QED BY <1>1, <1>2, <1>3, <2>1, <2>2 DEF Walk, Goes, Deciding
<1>4. CASE sessions[job[a]].status # "pending"
  <2>1. Leaves(a)
    BY <1>0, <1>4, AfterRollbackLeaves DEF ReadSession
  <2> QED BY <1>1, <1>2, <2>1, LeavesWalks
<1> QED BY <1>3, <1>4

LEMMA PassWalks ==
    ASSUME Inv, NoLifetimes, WatchdogStep \/ EmergencyRollback
    PROVE  \E a \in Actors : Walk(a)
<1>0. ControlType /\ Watchdog \in Actors /\ Cli \in Actors
  BY DEF Inv, TypeOK, Actors, Web
<1>1. CASE RollbackExpired
  <2>1. Leaves(Watchdog)
    BY <1>0, <1>1, ProceedLeaves DEF RollbackExpired
  <2>2. Walk(Watchdog)
    BY <1>0, <1>1, <2>1, LeavesWalks DEF RollbackExpired, tables, firewall, world, DraftPC
  <2> QED BY <1>0, <2>2
<1>2. CASE ListDue
  <2>1. Leaves(Watchdog)
    BY <1>0, <1>2, NextDueLeaves DEF ListDue
  <2>2. Walk(Watchdog)
    BY <1>0, <1>2, <2>1, LeavesWalks DEF ListDue, tables, firewall, world, DraftPC
  <2> QED BY <1>0, <2>2
<1>3. ~ExpireRule /\ ~SetExpired /\ ~SetExpirationFailed
  BY <1>0 DEF NoLifetimes, ExpireRule, SetExpired, SetExpirationFailed, SetExpiry,
              RecordPC
<1>4. CASE EmergencyRollback
  <2>1. Leaves(Cli)
    BY <1>0, <1>4, ProceedLeaves DEF EmergencyRollback
  <2>2. Walk(Cli)
    BY <1>0, <1>4, <2>1, LeavesWalks DEF EmergencyRollback, tables, firewall, DraftPC
  <2> QED BY <1>0, <2>2
<1> QED BY <1>1, <1>2, <1>3, <1>4 DEF WatchdogStep

LEMMA DraftRequestKind ==
    ASSUME Undisturbed, Inv, DraftRequest
    PROVE  \E d \in Drafts : NewRow(d)
<1>0. TablesType
  BY DEF Inv, TypeOK
<1>1. ASSUME NEW d \in Drafts, NEW op \in DraftOps \ {"restore"}, NEW r \in Rules,
             NEW temp \in BOOLEAN, CreateDraft(d, op, r, temp)
      PROVE  NewRow(d)
  <2> DEFINE row == [status |-> "pending", op |-> op, rule |-> r, temp |-> temp,
                     item |-> None]
  <2>1. row \in DraftRow /\ row.status = "pending"
    BY OpsAssumption DEF DraftRow
  <2>2. ~row.temp
    BY <1>1 DEF CreateDraft, Undisturbed
  <2>3. drafts' = [drafts EXCEPT ![d] = row] /\ drafts[d] = NoRow
    BY <1>1 DEF CreateDraft
  <2>4. drafts'[d] = row /\ \A e \in Drafts \ {d} : drafts'[e] = drafts[e]
    BY <1>0, <2>3 DEF TablesType
  <2>5. UNCHANGED <<sessions, runtime, start, pc, job>>
    BY <1>1 DEF CreateDraft, firewall, control, world
  <2> HIDE DEF row
  <2> QED BY <2>1, <2>2, <2>3, <2>4, <2>5 DEF NewRow
<1> QED BY <1>1 DEF DraftRequest

LEMMA CloseDraftKind ==
    ASSUME Inv, NEW a \in Actors, DraftConfirmed(a) \/ DraftRolledBack(a)
    PROVE  CloseDraft(a)
<1>0. ControlType
  BY DEF Inv, TypeOK
<1>1. Leaves(a)
  BY <1>0, ReturnLeaves, AfterRollbackLeaves DEF DraftConfirmed, DraftRolledBack
<1> QED BY <1>1 DEF Leaves, CloseDraft, DraftConfirmed, DraftRolledBack, firewall, world

\* Every step is of one of these kinds, or changes a trial.
LEMMA StepKind ==
    ASSUME Undisturbed, Inv, NoLifetimes, Handlers, [Next]_vars
    PROVE  \/ Still
           \/ \E d \in Drafts : NewRow(d)
           \/ \E a \in Actors : Walk(a) \/ CloseDraft(a)
           \/ \E w \in Workers : \/ MarkApplying(w) \/ ResetDraft(w)
                                 \/ ApplyRuntime(w) \/ OpenSession(w)
                                 \/ SetConfirmed(w)
           \/ \E a \in Actors : \/ RunInverse(a) \/ SetRolledBack(a)
                                \/ SetRollbackFailed(a)
<1>0. Workers \subseteq Actors
  BY DEF Actors, Web
<1>1. CASE DraftRequest
  BY <1>1, DraftRequestKind
<1>2. CASE \E i \in ItemIds : PurgeItem(i)
  BY <1>2 DEF PurgeItem, Still, firewall, control, world
<1>3. ASSUME NEW w \in Workers, Request(w)
      PROVE  Walk(w)
  BY <1>3, RequestWalks
<1>4. ASSUME NEW w \in Workers, WorkerStep(w)
      PROVE  \/ Walk(w) \/ CloseDraft(w) \/ \E d \in Drafts : NewRow(d)
             \/ MarkApplying(w) \/ ResetDraft(w) \/ ApplyRuntime(w)
             \/ OpenSession(w) \/ SetConfirmed(w)
  BY <1>0, <1>4, RestorationKind, ConfirmWalks, CloseDraftKind DEF WorkerStep, Handlers
<1>5. ASSUME NEW a \in Actors, RollbackStep(a)
      PROVE  \/ Walk(a) \/ CloseDraft(a)
             \/ RunInverse(a) \/ SetRolledBack(a) \/ SetRollbackFailed(a)
  BY <1>5, ReadSessionWalks, CloseDraftKind DEF RollbackStep
<1>6. CASE WatchdogStep \/ EmergencyRollback
  BY <1>6, PassWalks
<1>7. CASE Environment
  <2>1. ASSUME NEW r \in Rules, ScheduleDue(r) \/ TimerEnds(r)
        PROVE  FALSE
    BY <2>1 DEF ScheduleDue, TimerEnds, NoLifetimes
  <2>2. ASSUME NEW s \in SessionIds, Deadline(s)
        PROVE  Still
    BY <2>2 DEF Deadline, Still, tables, firewall, control
  <2>3. CASE Restart
    BY <2>3 DEF Restart, Still, tables, firewall, control
  <2> QED BY <1>7, <2>1, <2>2, <2>3, NoCrash DEF Environment
<1>8. CASE UNCHANGED vars
  BY <1>8 DEF vars, Still, tables, firewall, control, world
<1> QED BY <1>0, <1>1, <1>2, <1>3, <1>4, <1>5, <1>6, <1>7, <1>8 DEF Next

----------------------------------------------------------------------------
(* Nothing has a lifetime.                                                 *)

LEMMA RuntimeTimed ==
    ASSUME NoLifetimes, NEW op, NEW r, NEW temp, NEW res, ~temp,
           RuntimeCall(op, r, temp, res)
    PROVE  timed' = {}
BY DEF NoLifetimes, RuntimeCall

\* What a statement that sets the status of a row leaves alone.
KeepDrafts(x, d) ==
    /\ drafts'[d].status = x /\ drafts'[d] # NoRow
    /\ \A e \in Drafts : drafts[e] # NoRow =>
           /\ drafts'[e].op = drafts[e].op /\ drafts'[e].rule = drafts[e].rule
           /\ drafts'[e].temp = drafts[e].temp
    /\ \A e \in Drafts \ {d} : drafts'[e] = drafts[e]

KeepSessions(x, s) ==
    /\ sessions'[s].status = x /\ sessions'[s] # NoRow
    /\ \A t \in SessionIds : sessions[t] # NoRow =>
           /\ sessions'[t].op = sessions[t].op /\ sessions'[t].rule = sessions[t].rule
           /\ sessions'[t].temp = sessions[t].temp
           /\ sessions'[t].draft = sessions[t].draft
    /\ \A t \in SessionIds \ {s} : sessions'[t] = sessions[t]

LEMMA DraftsKept ==
    ASSUME TablesType, NEW d \in Drafts, drafts[d] # NoRow,
           NEW x \in {"pending", "applying", "confirmed", "rolled_back"},
           drafts' = [drafts EXCEPT ![d].status = x]
    PROVE  KeepDrafts(x, d)
<1>1. drafts[d] \in DraftRow /\ drafts'[d] = [drafts[d] EXCEPT !.status = x]
  BY DEF TablesType
<1>2. \A e \in Drafts \ {d} : drafts'[e] = drafts[e]
  BY DEF TablesType
<1>3. /\ drafts'[d].status = x /\ drafts'[d].op = drafts[d].op
      /\ drafts'[d].rule = drafts[d].rule /\ drafts'[d].temp = drafts[d].temp
      /\ drafts'[d] # NoRow
  BY <1>1 DEF DraftRow, NoRow
<1> QED BY <1>2, <1>3 DEF KeepDrafts

LEMMA SessionsKept ==
    ASSUME TablesType, NEW s \in SessionIds, sessions[s] # NoRow,
           NEW x \in {"pending", "confirmed", "rolled_back", "rollback_failed"},
           sessions' = [sessions EXCEPT ![s].status = x]
    PROVE  KeepSessions(x, s)
<1>1. /\ sessions[s] \in SessionRow
      /\ sessions'[s] = [sessions[s] EXCEPT !.status = x]
  BY DEF TablesType
<1>2. \A t \in SessionIds \ {s} : sessions'[t] = sessions[t]
  BY DEF TablesType
<1>3. /\ sessions'[s].status = x /\ sessions'[s].op = sessions[s].op
      /\ sessions'[s].rule = sessions[s].rule /\ sessions'[s].temp = sessions[s].temp
      /\ sessions'[s].draft = sessions[s].draft /\ sessions'[s] # NoRow
  BY <1>1 DEF SessionRow, NoRow
<1> QED BY <1>2, <1>3 DEF KeepSessions

\* The row of a handler of a draft.
LEMMA DraftInHand ==
    ASSUME Inv, NEW a \in Actors, pc[a] \in DraftPC
    PROVE  /\ job[a] \in Drafts /\ drafts[job[a]] # NoRow
           /\ drafts[job[a]] \in DraftRow /\ drafts[job[a]].rule \in Rules
<1>1. job[a] \in Drafts /\ drafts[job[a]] # NoRow
  BY DEF Inv, HoldsRow, Holds
<1>2. drafts[job[a]] \in DraftRow
  BY <1>1 DEF Inv, TypeOK, TablesType
<1> QED BY <1>1, <1>2 DEF DraftRow

\* A draft's statement, by whichever handler.
LEMMA DraftStatement ==
    ASSUME Inv, NEW w \in Workers, MarkApplying(w) \/ ResetDraft(w)
    PROVE  /\ w \in Actors /\ pc[w] \in {"markApplying", "resetDraft"}
           /\ job[w] \in Drafts /\ drafts[job[w]] # NoRow
           /\ drafts[job[w]].rule \in Rules
           /\ KeepDrafts(IF MarkApplying(w) THEN "applying" ELSE "pending", job[w])
           /\ \/ MarkApplying(w) /\ Goes(w, "applyRuntime", job[w])
              \/ MarkApplying(w) /\ Goes(w, "resetDraft", job[w])
              \/ ResetDraft(w) /\ Goes(w, "idle", None)
           /\ UNCHANGED <<sessions, runtime, start>>
<1>0. w \in Actors /\ ControlType /\ TablesType
  BY DEF Actors, Web, Inv, TypeOK
<1>1. pc[w] \in {"markApplying", "resetDraft"} /\ pc[w] \in DraftPC
  BY DEF MarkApplying, ResetDraft, DraftPC
<1>2. job[w] \in Drafts /\ drafts[job[w]] # NoRow /\ drafts[job[w]].rule \in Rules
  BY <1>0, <1>1, DraftInHand
<1>3. UNCHANGED <<sessions, runtime, start>>
  BY DEF MarkApplying, ResetDraft, firewall, world
<1>4. CASE MarkApplying(w)
  <2>1. KeepDrafts("applying", job[w])
    BY <1>0, <1>2, <1>4, DraftsKept DEF MarkApplying
  <2>2. Goes(w, "applyRuntime", job[w]) \/ Goes(w, "resetDraft", job[w])
    BY <1>0, <1>4, GotoGoes DEF MarkApplying
  <2> QED BY <1>0, <1>1, <1>2, <1>3, <1>4, <2>1, <2>2
<1>5. CASE ~MarkApplying(w) /\ ResetDraft(w)
  <2>1. KeepDrafts("pending", job[w])
    BY <1>0, <1>2, <1>5, DraftsKept DEF ResetDraft
  <2>2. Goes(w, "idle", None)
    BY <1>0, <1>5, ReturnGoes DEF ResetDraft
  <2> QED BY <1>0, <1>1, <1>2, <1>3, <1>5, <2>1, <2>2
<1> QED BY <1>4, <1>5

LEMMA CloseStatement ==
    ASSUME Inv, NEW a \in Actors, CloseDraft(a)
    PROVE  /\ job[a] \in SessionIds /\ sessions[job[a]] # NoRow
           /\ sessions[job[a]].draft \in Drafts
           /\ drafts[sessions[job[a]].draft] # NoRow
           /\ \E x \in {"confirmed", "rolled_back"} :
                  KeepDrafts(x, sessions[job[a]].draft)
<1>1. pc[a] \in ConfirmPC \cup RollbackPC
  BY DEF CloseDraft, ConfirmPC, RollbackPC
<1>2. /\ job[a] \in SessionIds /\ sessions[job[a]] # NoRow
      /\ sessions[job[a]].draft \in Drafts
      /\ drafts[sessions[job[a]].draft] # NoRow
  BY <1>1, SessionInHand
<1>3. TablesType
  BY DEF Inv, TypeOK
<1> QED BY <1>2, <1>3, DraftsKept DEF CloseDraft

\* A session's.
LEMMA SessionStatement ==
    ASSUME Inv, NEW a \in Actors,
           SetConfirmed(a) \/ SetRolledBack(a) \/ SetRollbackFailed(a)
    PROVE  /\ pc[a] \in {"setConfirmed", "setRolledBack", "setRollbackFailed"}
           /\ job[a] \in SessionIds /\ sessions[job[a]] # NoRow
           /\ sessions[job[a]].rule \in Rules
           /\ sessions[job[a]].op \in {"add", "delete"}
           /\ \/ SetConfirmed(a) /\ KeepSessions("confirmed", job[a])
              \/ SetRolledBack(a) /\ KeepSessions("rolled_back", job[a])
              \/ SetRollbackFailed(a) /\ KeepSessions("rollback_failed", job[a])
           /\ Leaves(a)
           /\ UNCHANGED <<drafts, runtime, start>>
<1>0. ControlType /\ TablesType
  BY DEF Inv, TypeOK
<1>1. /\ pc[a] \in {"setConfirmed", "setRolledBack", "setRollbackFailed"}
      /\ pc[a] \in ConfirmPC \cup RollbackPC
  BY DEF SetConfirmed, SetRolledBack, SetRollbackFailed, ConfirmPC, RollbackPC
<1>2. /\ job[a] \in SessionIds /\ sessions[job[a]] # NoRow
      /\ sessions[job[a]].rule \in Rules
      /\ sessions[job[a]].op \in {"add", "delete"}
  BY <1>1, SessionInHand
<1>3. UNCHANGED <<drafts, runtime, start>>
  BY DEF SetConfirmed, SetRolledBack, SetRollbackFailed, firewall, world
<1>4. \/ SetConfirmed(a) /\ KeepSessions("confirmed", job[a])
      \/ SetRolledBack(a) /\ KeepSessions("rolled_back", job[a])
      \/ SetRollbackFailed(a) /\ KeepSessions("rollback_failed", job[a])
  BY <1>0, <1>2, SessionsKept DEF SetConfirmed, SetRolledBack, SetRollbackFailed
<1>5. Leaves(a)
  <2>1. \/ Goes(a, "draftConfirmed", job[a]) \/ Goes(a, "draftRolledBack", job[a])
        \/ Goes(a, "idle", None)
    BY <1>0, GotoGoes, ReturnGoes
       DEF SetConfirmed, SetRolledBack, SetRollbackFailed, Raise
  <2> QED BY <2>1, GoesOut
<1> QED BY <1>1, <1>2, <1>3, <1>4, <1>5

\* The session that is opened, of the draft in hand.
Opens(w, s) ==
    LET d == drafts[job[w]] IN
    /\ FreshSession(s)
    /\ sessions'[s] # NoRow /\ sessions'[s].status = "pending"
    /\ sessions'[s].op = TrialOp(job[w]) /\ sessions'[s].rule = d.rule
    /\ sessions'[s].temp = d.temp /\ sessions'[s].draft = job[w]
    /\ \A t \in SessionIds \ {s} : sessions'[t] = sessions[t]

LEMMA OpenStatement ==
    ASSUME Inv, NEW w \in Workers, OpenSession(w)
    PROVE  /\ w \in Actors /\ pc[w] = "openSession"
           /\ job[w] \in Drafts /\ drafts[job[w]] # NoRow
           /\ drafts[job[w]].rule \in Rules
           /\ drafts[job[w]].op \in {"add", "delete", "restore"}
           /\ \E s \in SessionIds : Opens(w, s)
           /\ Goes(w, "idle", None)
           /\ UNCHANGED <<drafts, runtime, start>>
<1> DEFINE d == job[w]
           row == [status |-> "pending", op |-> TrialOp(d), rule |-> drafts[d].rule,
                   temp |-> drafts[d].temp, draft |-> d, item |-> drafts[d].item]
<1>0. w \in Actors /\ ControlType /\ TablesType
  BY DEF Actors, Web, Inv, TypeOK
<1>1. pc[w] = "openSession" /\ pc[w] \in DraftPC
  BY DEF OpenSession, DraftPC
<1>2. d \in Drafts /\ drafts[d] # NoRow /\ drafts[d] \in DraftRow /\ drafts[d].rule \in Rules
  BY <1>0, <1>1, DraftInHand
<1>3. drafts[d].op \in {"add", "delete", "restore"}
  BY <1>0, <1>1, <1>2 DEF Inv, HoldsRow, Holds, DraftRow
<1>4. PICK s \in SessionIds : FreshSession(s) /\ sessions' = [sessions EXCEPT ![s] = row]
  BY DEF OpenSession
<1>5. sessions'[s] = row /\ \A t \in SessionIds \ {s} : sessions'[t] = sessions[t]
  BY <1>0, <1>4 DEF TablesType
<1>6. row # NoRow
  BY DEF NoRow
<1>7. Opens(w, s)
  BY <1>4, <1>5, <1>6 DEF Opens
<1>8. Goes(w, "idle", None) /\ UNCHANGED <<drafts, runtime, start>>
  BY <1>0, ReturnGoes DEF OpenSession, firewall, world
<1> QED BY <1>0, <1>1, <1>2, <1>3, <1>7, <1>8

\* The runtime calls: what they leave and where control goes.
LEMMA RuntimeOutcome ==
    ASSUME NEW op, NEW r, NEW temp, NEW res \in Results(runtime, op, r),
           RuntimeCall(op, r, temp, res)
    PROVE  /\ runtime' \in {runtime, Effect(runtime, op, r)}
           /\ res.ok => runtime' = Effect(runtime, op, r) /\ op # "update"
BY DEF Results, Faulty, Refused, RuntimeCall

LEMMA ApplyStatement ==
    ASSUME Inv, NEW w \in Workers, ApplyRuntime(w)
    PROVE  LET d == drafts[job[w]]
               new == Effect(runtime, TrialOp(job[w]), d.rule)
           IN
           /\ w \in Actors /\ pc[w] = "applyRuntime"
           /\ job[w] \in Drafts /\ d # NoRow /\ d.rule \in Rules
           /\ \/ /\ Goes(w, "openSession", job[w])
                 /\ runtime' = new /\ d.op # "update"
              \/ Goes(w, "idle", None) /\ runtime' \in {runtime, new}
           /\ ~d.temp /\ NoLifetimes => timed' = {}
           /\ UNCHANGED <<drafts, sessions, start>>
<1> DEFINE d == drafts[job[w]]
<1>0. w \in Actors /\ ControlType
  BY DEF Actors, Web, Inv, TypeOK
<1>1. pc[w] = "applyRuntime" /\ pc[w] \in DraftPC
  BY DEF ApplyRuntime, DraftPC
<1>2. job[w] \in Drafts /\ d # NoRow /\ d.rule \in Rules
  BY <1>0, <1>1, DraftInHand
<1>3. PICK res \in Results(runtime, TrialOp(job[w]), d.rule) :
          /\ RuntimeCall(TrialOp(job[w]), d.rule, d.temp, res)
          /\ IF res.ok THEN Goto(w, "openSession") ELSE Return(w)
  BY DEF ApplyRuntime
<1>4. UNCHANGED <<drafts, sessions, start>>
  BY DEF ApplyRuntime, tables
<1>5. ~d.temp /\ NoLifetimes => timed' = {}
  BY <1>3, RuntimeTimed
<1>6. CASE res.ok
  <2>1. /\ runtime' = Effect(runtime, TrialOp(job[w]), d.rule)
        /\ TrialOp(job[w]) # "update"
    BY <1>3, <1>6, RuntimeOutcome
  <2>2. d.op # "update"
    BY <2>1 DEF TrialOp
  <2>3. Goes(w, "openSession", job[w])
    BY <1>0, <1>3, <1>6, GotoGoes
  <2> QED BY <1>0, <1>1, <1>2, <1>4, <1>5, <2>1, <2>2, <2>3
<1>7. CASE ~res.ok
  <2>1. runtime' \in {runtime, Effect(runtime, TrialOp(job[w]), d.rule)}
    BY <1>3, RuntimeOutcome
  <2>2. Goes(w, "idle", None)
    BY <1>0, <1>3, <1>7, ReturnGoes
  <2> QED BY <1>0, <1>1, <1>2, <1>4, <1>5, <2>1, <2>2
<1> QED BY <1>6, <1>7

LEMMA InverseStatement ==
    ASSUME Inv, NEW a \in Actors, RunInverse(a)
    PROVE  LET s == sessions[job[a]]
               new == Effect(runtime, Inverse(s.op), s.rule)
           IN
           /\ pc[a] = "inverse"
           /\ job[a] \in SessionIds /\ s # NoRow
           /\ s.rule \in Rules /\ s.op \in {"add", "delete"}
           /\ \/ Goes(a, "setRolledBack", job[a]) /\ runtime' = new
              \/ Goes(a, "setRollbackFailed", job[a]) /\ runtime' \in {runtime, new}
           /\ ~s.temp /\ NoLifetimes => timed' = {}
           /\ UNCHANGED <<drafts, sessions, start>>
<1> DEFINE s == sessions[job[a]]
<1>0. ControlType
  BY DEF Inv, TypeOK
<1>1. pc[a] = "inverse" /\ pc[a] \in ConfirmPC \cup RollbackPC
  BY DEF RunInverse, RollbackPC
<1>2. job[a] \in SessionIds /\ s # NoRow /\ s.rule \in Rules /\ s.op \in {"add", "delete"}
  BY <1>1, SessionInHand
<1>3. PICK res \in Results(runtime, Inverse(s.op), s.rule) :
          /\ RuntimeCall(Inverse(s.op), s.rule, s.temp, res)
          /\ Goto(a, IF res.ok THEN "setRolledBack" ELSE "setRollbackFailed")
  BY DEF RunInverse
<1>4. UNCHANGED <<drafts, sessions, start>>
  BY DEF RunInverse, tables
<1>5. ~s.temp /\ NoLifetimes => timed' = {}
  BY <1>3, RuntimeTimed
<1>6. /\ runtime' \in {runtime, Effect(runtime, Inverse(s.op), s.rule)}
      /\ res.ok => runtime' = Effect(runtime, Inverse(s.op), s.rule)
  BY <1>3, RuntimeOutcome
<1>7. Goes(a, IF res.ok THEN "setRolledBack" ELSE "setRollbackFailed", job[a])
  BY <1>0, <1>3, GotoGoes
<1> QED BY <1>1, <1>2, <1>4, <1>5, <1>6, <1>7

LEMMA RowsUntimed ==
    ASSUME Undisturbed, Inv, NoLifetimes, Handlers, [Next]_vars
    PROVE  /\ \A d \in Drafts : drafts'[d] # NoRow => ~drafts'[d].temp
           /\ \A s \in SessionIds : sessions'[s] # NoRow => ~sessions'[s].temp
<1> DEFINE Goal == /\ \A d \in Drafts : drafts'[d] # NoRow => ~drafts'[d].temp
                   /\ \A s \in SessionIds : sessions'[s] # NoRow => ~sessions'[s].temp
<1>0. /\ \A d \in Drafts : drafts[d] # NoRow => ~drafts[d].temp
      /\ \A s \in SessionIds : sessions[s] # NoRow => ~sessions[s].temp
  BY DEF NoLifetimes
<1>1. CASE UNCHANGED <<drafts, sessions>>
  BY <1>0, <1>1
<1>2. ASSUME NEW d \in Drafts, NewRow(d)
      PROVE  Goal
  BY <1>0, <1>2 DEF NewRow
<1>3. ASSUME NEW d \in Drafts, NEW x, drafts[d] # NoRow, KeepDrafts(x, d),
             UNCHANGED sessions
      PROVE  Goal
  BY <1>0, <1>3 DEF KeepDrafts
<1>4. ASSUME NEW s \in SessionIds, NEW x, sessions[s] # NoRow, KeepSessions(x, s),
             UNCHANGED drafts
      PROVE  Goal
  BY <1>0, <1>4 DEF KeepSessions
<1>5. ASSUME NEW w \in Workers, OpenSession(w)
      PROVE  Goal
  BY <1>0, <1>5, OpenStatement DEF Opens
<1>6. ASSUME NEW a \in Actors, Walk(a) \/ CloseDraft(a)
      PROVE  Goal
  BY <1>1, <1>3, <1>6, CloseStatement DEF Walk, CloseDraft
<1>7. ASSUME NEW w \in Workers, MarkApplying(w) \/ ResetDraft(w)
      PROVE  Goal
  BY <1>3, <1>7, DraftStatement
<1>8. ASSUME NEW a \in Actors, SetConfirmed(a) \/ SetRolledBack(a) \/ SetRollbackFailed(a)
      PROVE  Goal
  BY <1>4, <1>8, SessionStatement
<1>9. ASSUME NEW w \in Workers, ApplyRuntime(w)
      PROVE  Goal
  BY <1>1, <1>9, ApplyStatement
<1>10. ASSUME NEW a \in Actors, RunInverse(a)
      PROVE  Goal
  BY <1>1, <1>10, InverseStatement
<1> HIDE DEF Goal
<1>11. Workers \subseteq Actors
  BY DEF Actors, Web
<1> QED BY <1>1, <1>2, <1>5, <1>6, <1>7, <1>8, <1>9, <1>10, <1>11, StepKind DEF Still, Goal

LEMMA ItemsUntimed ==
    ASSUME Inv, NoLifetimes, [Next]_vars, NEW i \in ItemIds, items'[i] # NoRow
    PROVE  ~items'[i].temp
<1>0. RowsStay
  BY StepInv
<1>1. CASE items[i] # NoRow
  BY <1>0, <1>1 DEF RowsStay, NoLifetimes
<1>2. CASE items[i] = NoRow
  <2>1. PICK w \in Workers : AddRecycleItem(w) /\ items'[i].temp = sessions[job[w]].temp
    BY <1>2, NewItem
  <2>2. w \in Actors /\ pc[w] \in ConfirmPC
    BY <2>1 DEF Actors, Web, AddRecycleItem, ConfirmPC
  <2>3. job[w] \in SessionIds /\ sessions[job[w]] # NoRow
    BY <2>2, SessionInHand
  <2> QED BY <2>1, <2>3 DEF NoLifetimes
<1> QED BY <1>1, <1>2

\* Where an actor of no lifetime goes.
Untimed(a) ==
    /\ pc'[a] \notin {"scheduleExpiry", "expireRule"} \cup RecordPC
    /\ \A b \in Actors \ {a} : pc'[b] = pc[b]

LEMMA GoesUntimed ==
    ASSUME NEW a, NEW label, NEW id, Goes(a, label, id),
           label \notin {"scheduleExpiry", "expireRule"} \cup RecordPC
    PROVE  Untimed(a)
BY DEF Goes, Untimed

LEMMA ProceedUntimed ==
    ASSUME ControlType, NEW a \in Actors, NEW S, Proceed(a, S)
    PROVE  Untimed(a)
<1>1. CASE Take(a, None, IF a = Watchdog THEN "listDue" ELSE "idle")
  BY <1>1, TakeGoes, GoesUntimed DEF RecordPC
<1>2. ASSUME NEW s \in S, Take(a, s, "readSession")
      PROVE  Untimed(a)
  BY <1>2, TakeGoes, GoesUntimed DEF RecordPC
<1> QED BY <1>1, <1>2 DEF Proceed

LEMMA ReturnUntimed ==
    ASSUME ControlType, NEW a \in Actors, Return(a)
    PROVE  Untimed(a)
BY ReturnGoes, GoesUntimed DEF RecordPC

LEMMA AfterRollbackUntimed ==
    ASSUME ControlType, NEW a \in Actors, AfterRollback(a)
    PROVE  Untimed(a)
BY ProceedUntimed, ReturnUntimed DEF AfterRollback

LEMMA StepUntimed ==
    ASSUME NEW s, ~sessions[s].temp
    PROVE  \A l \in {AfterRecycle(s), AfterSchedule(s), AfterPersist(s), FirstStep(s)} :
               l \notin {"scheduleExpiry", "expireRule"} \cup RecordPC
BY DEF AfterRecycle, AfterSchedule, AfterPersist, FirstStep, RecordPC

\* Nothing is put on the schedule and no timer is started.
StaysUntimed ==
    /\ UNCHANGED schedule /\ timed' = {} /\ dueRules' = {}
    /\ UNCHANGED pc \/ \E a \in Actors : Untimed(a)

LEMMA WorkerUntimed ==
    ASSUME Inv, NoLifetimes, NEW w \in Workers, WorkerStep(w)
    PROVE  StaysUntimed
<1>0. w \in Actors /\ ControlType
  BY DEF Actors, Web, Inv, TypeOK
<1>1. timed = {} /\ dueRules = {} /\ pc[w] # "scheduleExpiry"
  BY <1>0 DEF NoLifetimes
<1>2. CASE MarkApplying(w) \/ ResetDraft(w)
  <2>1. UNCHANGED <<schedule, timed, dueRules>>
    BY <1>2 DEF MarkApplying, ResetDraft, firewall, lists
  <2>2. Untimed(w)
    BY <1>0, <1>2, DraftStatement, GoesUntimed DEF RecordPC
  <2> QED BY <1>0, <1>1, <2>1, <2>2 DEF StaysUntimed
<1>3. CASE ApplyRuntime(w)
  <2>1. job[w] \in Drafts /\ drafts[job[w]] # NoRow
    BY <1>3, ApplyStatement
  <2>2. ~drafts[job[w]].temp
    BY <2>1 DEF NoLifetimes
  <2>3. timed' = {}
    BY <1>3, <2>2, ApplyStatement
  <2>4. UNCHANGED <<schedule, dueRules>>
    BY <1>3 DEF ApplyRuntime, tables, lists
  <2>5. Untimed(w)
    BY <1>0, <1>3, ApplyStatement, GoesUntimed DEF RecordPC
  <2> QED BY <1>0, <1>1, <2>3, <2>4, <2>5 DEF StaysUntimed
<1>4. CASE OpenSession(w)
  <2>1. UNCHANGED <<schedule, timed, dueRules>>
    BY <1>4 DEF OpenSession, firewall, lists
  <2>2. Untimed(w)
    BY <1>0, <1>4, OpenStatement, GoesUntimed DEF RecordPC
  <2> QED BY <1>0, <1>1, <2>1, <2>2 DEF StaysUntimed
<1>5. CASE Persist(w) \/ UndoPersist(w) \/ AddRecycleItem(w) \/ MarkRestored(w)
  <2>1. UNCHANGED <<schedule, timed, dueRules>>
    BY <1>5 DEF Persist, UndoPersist, AddRecycleItem, MarkRestored, PermanentCall,
                tables, firewall, lists
  <2>2. pc[w] \in ConfirmPC \cup RollbackPC
    BY <1>5 DEF Persist, UndoPersist, AddRecycleItem, MarkRestored, ConfirmPC
  <2>3. ~sessions[job[w]].temp
    BY <1>0, <2>2, SessionInHand DEF NoLifetimes
  <2>4. PICK l \in {AfterRecycle(job[w]), AfterPersist(job[w]), "undoPersist",
                    "readSession", "setConfirmed"} : Goto(w, l)
    BY <1>5 DEF Persist, UndoPersist, AddRecycleItem, MarkRestored
  <2>5. l \notin {"scheduleExpiry", "expireRule"} \cup RecordPC
    BY <2>3, <2>4, StepUntimed DEF RecordPC
  <2>6. Untimed(w)
    BY <1>0, <2>4, <2>5, GotoGoes, GoesUntimed
  <2> QED BY <1>0, <1>1, <2>1, <2>6 DEF StaysUntimed
<1>6. CASE SetConfirmed(w) \/ DraftConfirmed(w)
  <2>1. UNCHANGED <<schedule, timed, dueRules>>
    BY <1>6 DEF SetConfirmed, DraftConfirmed, firewall, lists
  <2>2. Goes(w, "draftConfirmed", job[w]) \/ Goes(w, "idle", None)
    BY <1>0, <1>6, GotoGoes, ReturnGoes DEF SetConfirmed, DraftConfirmed
  <2>3. Untimed(w)
    BY <2>2, GoesUntimed DEF RecordPC
  <2> QED BY <1>0, <1>1, <2>1, <2>3 DEF StaysUntimed
<1>7. ~ScheduleExpiry(w)
  BY <1>1 DEF ScheduleExpiry
<1>8. CASE ListRules(w) \/ MarkFound(w)
  <2>1. UNCHANGED <<schedule, timed, dueRules>>
    BY <1>8 DEF ListRules, MarkFound, firewall, lists
  <2>2. Return(w) \/ Goto(w, "markFound")
    BY <1>8 DEF ListRules, MarkFound
  <2>3. Goes(w, "idle", None) \/ Goes(w, "markFound", job[w])
    BY <1>0, <2>2, ReturnGoes, GotoGoes
  <2>4. Untimed(w)
    BY <2>3, GoesUntimed DEF RecordPC
  <2> QED BY <1>0, <1>1, <2>1, <2>4 DEF StaysUntimed
<1> QED BY <1>2, <1>3, <1>4, <1>5, <1>6, <1>7, <1>8 DEF WorkerStep

LEMMA RollbackUntimed ==
    ASSUME Inv, NoLifetimes, NEW a \in Actors, RollbackStep(a)
    PROVE  StaysUntimed
<1>0. ControlType /\ timed = {} /\ dueRules = {}
  BY DEF Inv, TypeOK, NoLifetimes
<1>1. CASE ReadSession(a) \/ SetRolledBack(a) \/ DraftRolledBack(a) \/ SetRollbackFailed(a)
  <2>1. UNCHANGED <<schedule, timed, dueRules>>
    BY <1>1 DEF ReadSession, SetRolledBack, DraftRolledBack, SetRollbackFailed,
                tables, firewall, lists
  <2>2. \/ AfterRollback(a) \/ Return(a)
        \/ Goto(a, "inverse") \/ Goto(a, "draftRolledBack")
    BY <1>1 DEF ReadSession, SetRolledBack, DraftRolledBack, SetRollbackFailed, Raise
  <2>3. Goto(a, "inverse") \/ Goto(a, "draftRolledBack") => Untimed(a)
    BY <1>0, GotoGoes, GoesUntimed DEF RecordPC
  <2>4. Untimed(a)
    BY <1>0, <2>2, <2>3, AfterRollbackUntimed, ReturnUntimed
  <2> QED BY <1>0, <2>1, <2>4 DEF StaysUntimed
<1>2. CASE RunInverse(a)
  <2>1. job[a] \in SessionIds /\ sessions[job[a]] # NoRow
    BY <1>2, InverseStatement
  <2>2. ~sessions[job[a]].temp
    BY <2>1 DEF NoLifetimes
  <2>3. timed' = {}
    BY <1>2, <2>2, InverseStatement
  <2>4. UNCHANGED <<schedule, dueRules>>
    BY <1>2 DEF RunInverse, tables, lists
  <2>5. Untimed(a)
    BY <1>0, <1>2, InverseStatement, GoesUntimed DEF RecordPC
  <2> QED BY <1>0, <2>3, <2>4, <2>5 DEF StaysUntimed
<1> QED BY <1>1, <1>2 DEF RollbackStep

LEMMA PassUntimed ==
    ASSUME Inv, NoLifetimes, WatchdogStep \/ EmergencyRollback
    PROVE  StaysUntimed
<1>0. /\ ControlType /\ Watchdog \in Actors /\ Cli \in Actors
      /\ timed = {} /\ dueRules = {}
  BY DEF Inv, TypeOK, Actors, Web, NoLifetimes
<1>1. CASE RollbackExpired
  <2>1. Untimed(Watchdog)
    BY <1>0, <1>1, ProceedUntimed DEF RollbackExpired
  <2> QED BY <1>0, <1>1, <2>1 DEF RollbackExpired, StaysUntimed, tables, firewall
<1>2. CASE ListDue
  <2>1. {r \in Rules : schedule[r] = "due"} = {}
    BY DEF NoLifetimes
  <2>2. NextDue({})
    BY <1>2, <2>1 DEF ListDue
  <2>3. dueRules' = {} /\ Goes(Watchdog, "idle", None)
    BY <1>0, <2>2, TakeGoes DEF NextDue
  <2>4. Untimed(Watchdog)
    BY <2>3, GoesUntimed DEF RecordPC
  <2> QED BY <1>0, <1>2, <2>3, <2>4 DEF ListDue, StaysUntimed, tables, firewall
<1>3. ~ExpireRule /\ ~SetExpired /\ ~SetExpirationFailed
  BY <1>0 DEF NoLifetimes, ExpireRule, SetExpired, SetExpirationFailed, SetExpiry,
              RecordPC
<1>4. CASE EmergencyRollback
  <2>1. Untimed(Cli)
    BY <1>0, <1>4, ProceedUntimed DEF EmergencyRollback
  <2> QED BY <1>0, <1>4, <2>1 DEF EmergencyRollback, StaysUntimed, tables, firewall
<1> QED BY <1>1, <1>2, <1>3, <1>4 DEF WatchdogStep

LEMMA RequestUntimed ==
    ASSUME Inv, NoLifetimes, NEW w \in Workers, Request(w)
    PROVE  StaysUntimed
<1>0. w \in Actors /\ ControlType /\ timed = {} /\ dueRules = {}
  BY DEF Actors, Web, Inv, TypeOK, NoLifetimes
<1>1. UNCHANGED <<schedule, timed, dueRules>>
  BY DEF Request, ReadDraft, ReadForConfirm, RequestRollback, ReadItem, tables,
         firewall, lists
<1>2. ASSUME NEW s \in SessionIds, ReadForConfirm(w, s)
      PROVE  Untimed(w)
  <2>1. sessions[s] # NoRow
    BY <1>2 DEF ReadForConfirm, NoRow
  <2>2. FirstStep(s) \notin {"scheduleExpiry", "expireRule"} \cup RecordPC
    BY <2>1, StepUntimed DEF NoLifetimes
  <2>3. Goes(w, IF s \in overdue THEN "readSession" ELSE FirstStep(s), s)
    BY <1>0, <1>2, TakeGoes DEF ReadForConfirm
  <2> QED BY <2>2, <2>3, GoesUntimed DEF RecordPC
<1>3. ASSUME NEW id, NEW l \in {"readSession", "markApplying", "listRules"}, Take(w, id, l)
      PROVE  Untimed(w)
  BY <1>0, <1>3, TakeGoes, GoesUntimed DEF RecordPC
<1>4. Untimed(w)
  BY <1>2, <1>3 DEF Request, ReadDraft, RequestRollback, ReadItem
<1> QED BY <1>0, <1>1, <1>4 DEF StaysUntimed

LEMMA NoLifetimesStep ==
    ASSUME Undisturbed, Inv, NoLifetimes, Handlers, [Next]_vars
    PROVE  NoLifetimes'
<1>0. timed = {} /\ dueRules = {}
  BY DEF NoLifetimes
<1>1. DraftRequest => StaysUntimed
  BY <1>0 DEF DraftRequest, CreateDraft, StaysUntimed, firewall, control, lists
<1>2. ASSUME NEW i \in ItemIds, PurgeItem(i)
      PROVE  StaysUntimed
  BY <1>0, <1>2 DEF PurgeItem, StaysUntimed, firewall, control, lists
<1>3. ASSUME Environment
      PROVE  StaysUntimed
  <2>1. ASSUME NEW r \in Rules, ScheduleDue(r) \/ TimerEnds(r)
        PROVE  FALSE
    BY <2>1 DEF ScheduleDue, TimerEnds, NoLifetimes
  <2>2. ASSUME NEW s \in SessionIds, Deadline(s)
        PROVE  StaysUntimed
    BY <1>0, <2>2 DEF Deadline, StaysUntimed, tables, firewall, control, lists
  <2>3. Restart => StaysUntimed
    BY <1>0 DEF Restart, StaysUntimed, tables, firewall, control, lists
  <2> QED BY <1>3, <2>1, <2>2, <2>3, NoCrash DEF Environment
<1>4. UNCHANGED vars => StaysUntimed
  BY <1>0 DEF vars, StaysUntimed, tables, firewall, control, lists
<1>5. StaysUntimed
  BY <1>1, <1>2, <1>3, <1>4, RequestUntimed, WorkerUntimed, RollbackUntimed, PassUntimed
     DEF Next
<1>6. \A a \in Actors : pc'[a] \notin {"scheduleExpiry", "expireRule"} \cup RecordPC
  BY <1>5 DEF StaysUntimed, Untimed, NoLifetimes
<1> QED BY <1>5, <1>6, RowsUntimed, ItemsUntimed DEF StaysUntimed, NoLifetimes

----------------------------------------------------------------------------
(* The trials, step by step.                                               *)

LEMMA DoingSame ==
    ASSUME NEW a \in Actors, NEW label, NEW id,
           \A b \in Actors \ {a} : pc'[b] = pc[b] /\ job'[b] = job[b],
           pc[a] # label \/ job[a] # id, pc'[a] # label \/ job'[a] # id
    PROVE  Doing(label, id)' <=> Doing(label, id)
BY DEF Doing

LEMMA BeforeSame ==
    ASSUME NEW r, UNCHANGED start, ConfirmedOn(r)' = ConfirmedOn(r),
           \A s \in ConfirmedOn(r) : sessions'[s].op = sessions[s].op
    PROVE  Before(r)' <=> Before(r)
BY DEF Before, Expected

\* Nothing to do with the trials of rules has happened to a rule.
LEMMA BeforeStays ==
    ASSUME NEW r, UNCHANGED <<sessions, start>>
    PROVE  Before(r)' <=> Before(r)
BY BeforeSame DEF ConfirmedOn

LEMMA StillFits ==
    ASSUME CalmInv, Still
    PROVE  TrialRows' /\ Handlers' /\ RulesFit'
<1>1. TrialRows'
  BY DEF CalmInv, Still, TrialRows, InOrder, SessionsOfDrafts, OfDraft, OnePerDraft,
         OpenIsLast, Unsettled
<1>2. Handlers'
  BY DEF CalmInv, Still, Handlers, AsRead, HasNoSession
<1>3. \A r : Before(r)' <=> Before(r)
  BY BeforeStays DEF Still
<1>4. \A a \in Actors : TryFits(a)'
  BY <1>3 DEF CalmInv, Still, RulesFit, TryFits
<1>5. \A s \in SessionIds : TrialFits(s)'
  BY <1>3 DEF CalmInv, Still, RulesFit, TrialFits, Doing
<1>6. \A r \in Rules : Clear(r)' => (r \in runtime' <=> Before(r)')
  BY <1>3 DEF CalmInv, Still, RulesFit, Clear, Unsettled, HasNoSession
<1> QED BY <1>1, <1>2, <1>4, <1>5, <1>6 DEF RulesFit

LEMMA NewRowFits ==
    ASSUME CalmInv, NEW d \in Drafts, NewRow(d)
    PROVE  TrialRows' /\ Handlers' /\ RulesFit'
<1>0. /\ Inv /\ TrialRows /\ Handlers /\ RulesFit
      /\ UNCHANGED <<sessions, runtime, start>>
  BY DEF CalmInv, NewRow
<1>A. \A a \in Actors :
          \/ pc'[a] = pc[a] /\ job'[a] = job[a]
          \/ pc'[a] = "idle" /\ pc[a] \notin {"setRolledBack", "setRollbackFailed"}
  BY DEF NewRow, RestorePC
<1>1. \A e \in Drafts : drafts[e] # NoRow => drafts'[e] = drafts[e]
  BY DEF NewRow
<1>2. \A s \in SessionIds : sessions[s] # NoRow =>
          /\ sessions[s].draft \in Drafts
          /\ drafts'[sessions[s].draft] = drafts[sessions[s].draft]
  BY <1>0, <1>1 DEF Inv, TypeOK, TablesType, RowsExist, SessionRow
<1>3. TrialRows'
  <2>1. SessionsOfDrafts'
    BY <1>0, <1>2 DEF TrialRows, SessionsOfDrafts, OfDraft
  <2> QED BY <1>0, <2>1 DEF TrialRows, InOrder, OnePerDraft, OpenIsLast, Unsettled
<1>4. \A a \in Actors : pc[a] \in DraftPC =>
          job[a] \in Drafts /\ drafts'[job[a]] = drafts[job[a]]
  BY <1>0, <1>1, DraftInHand
<1>5. Handlers'
  BY <1>0, <1>A, <1>4 DEF Handlers, AsRead, HasNoSession, DraftPC, Deciding, ConfirmPC
<1>6. \A r : Before(r)' <=> Before(r)
  BY <1>0, BeforeStays
<1>7. \A a \in Actors : TryFits(a)'
  BY <1>0, <1>A, <1>4, <1>6 DEF RulesFit, TryFits, DraftPC
<1>8. \A s \in SessionIds : TrialFits(s)'
  BY <1>0, <1>A, <1>6 DEF RulesFit, TrialFits, Doing
<1>9. \A r \in Rules : Clear(r)' => Clear(r)
  BY <1>0, <1>1 DEF Clear, Unsettled, HasNoSession
<1> QED BY <1>0, <1>3, <1>5, <1>6, <1>7, <1>8, <1>9 DEF RulesFit

LEMMA WalkFits ==
    ASSUME CalmInv, NEW a \in Actors, Walk(a)
    PROVE  TrialRows' /\ Handlers' /\ RulesFit'
<1>0. /\ Inv /\ TrialRows /\ Handlers /\ RulesFit
      /\ UNCHANGED <<drafts, sessions, runtime, start>>
      /\ \A b \in Actors \ {a} : pc'[b] = pc[b] /\ job'[b] = job[b]
  BY DEF CalmInv, Walk
<1>1. TrialRows'
  BY <1>0 DEF TrialRows, InOrder, SessionsOfDrafts, OfDraft, OnePerDraft, OpenIsLast,
              Unsettled
<1>2. AsRead(a)'
  <2>1. CASE pc'[a] \notin DraftPC \cup Deciding
    BY <2>1 DEF AsRead
  <2>2. CASE /\ pc'[a] = "markApplying" /\ a \in Workers
             /\ job'[a] \in Drafts /\ drafts[job'[a]].status = "pending"
    <3>1. pc'[a] \notin Deciding
      BY <2>2 DEF Deciding, ConfirmPC
    <3>2. \A s \in SessionIds : sessions[s] # NoRow => sessions[s].draft # job'[a]
      BY <1>0, <2>2 DEF TrialRows, SessionsOfDrafts, OfDraft
    <3>3. HasNoSession(job[a])'
      BY <1>0, <3>2 DEF HasNoSession
    <3> QED BY <1>0, <2>2, <3>1, <3>3 DEF AsRead
  <2>3. CASE /\ pc'[a] \in Deciding \ {"setRolledBack", "setRollbackFailed"}
             /\ job'[a] \in SessionIds /\ sessions[job'[a]].status = "pending"
    <3>1. pc'[a] \notin DraftPC
      BY <2>3 DEF Deciding, ConfirmPC, DraftPC
    <3> QED BY <1>0, <2>3, <3>1 DEF AsRead
  <2> QED BY <2>1, <2>2, <2>3 DEF Walk
<1>3. Handlers'
  BY <1>0, <1>2 DEF Handlers, AsRead, HasNoSession
<1>4. \A r : Before(r)' <=> Before(r)
  BY <1>0, BeforeStays
<1>5. /\ pc'[a] \notin DraftPC \ {"markApplying"}
      /\ pc'[a] \notin {"setRolledBack", "setRollbackFailed"}
      /\ pc[a] \notin {"setRolledBack", "setRollbackFailed"}
  BY DEF Walk, DraftPC, Deciding, ConfirmPC
<1>6. \A b \in Actors : TryFits(b)'
  BY <1>0, <1>4, <1>5 DEF RulesFit, TryFits, DraftPC
<1>7. \A s \in SessionIds : TrialFits(s)'
  <2>1. \A s \in SessionIds :
            /\ Doing("setRolledBack", s)' <=> Doing("setRolledBack", s)
            /\ Doing("setRollbackFailed", s)' <=> Doing("setRollbackFailed", s)
    BY <1>0, <1>5, DoingSame
  <2> QED BY <1>0, <1>4, <2>1 DEF RulesFit, TrialFits
<1>8. \A r \in Rules : Clear(r)' => Clear(r)
  BY <1>0 DEF Clear, Unsettled, HasNoSession
<1> QED BY <1>0, <1>1, <1>3, <1>4, <1>6, <1>7, <1>8 DEF RulesFit

LEMMA CloseDraftFits ==
    ASSUME CalmInv, NEW a \in Actors, CloseDraft(a)
    PROVE  TrialRows' /\ Handlers' /\ RulesFit'
<1>0. /\ Inv /\ TrialRows /\ Handlers /\ RulesFit
      /\ UNCHANGED <<sessions, runtime, start>>
      /\ \A b \in Actors \ {a} : pc'[b] = pc[b] /\ job'[b] = job[b]
      /\ pc[a] \in {"draftConfirmed", "draftRolledBack"}
      /\ pc'[a] \notin DraftPC \cup Deciding
  BY DEF CalmInv, CloseDraft
<1> DEFINE d == sessions[job[a]].draft
<1>1. /\ job[a] \in SessionIds /\ sessions[job[a]] # NoRow
      /\ d \in Drafts /\ drafts[d] # NoRow
      /\ \E x \in {"confirmed", "rolled_back"} : KeepDrafts(x, d)
  BY <1>0, CloseStatement
<1> HIDE DEF d
<1>2. /\ drafts'[d].status \in {"confirmed", "rolled_back"} /\ drafts'[d] # NoRow
      /\ \A e \in Drafts : drafts[e] # NoRow =>
             drafts'[e].op = drafts[e].op /\ drafts'[e].rule = drafts[e].rule
      /\ \A e \in Drafts \ {d} : drafts'[e] = drafts[e]
  BY <1>1 DEF KeepDrafts
<1>3. ~HasNoSession(d)
  BY <1>1 DEF HasNoSession, d
<1>4. \A s \in SessionIds : sessions[s] # NoRow =>
          sessions[s].draft \in Drafts /\ drafts[sessions[s].draft] # NoRow
  BY <1>0 DEF Inv, TypeOK, TablesType, RowsExist, SessionRow
<1>5. TrialRows'
  <2>1. SessionsOfDrafts'
    BY <1>0, <1>2, <1>4 DEF TrialRows, SessionsOfDrafts, OfDraft
  <2> QED BY <1>0, <2>1 DEF TrialRows, InOrder, OnePerDraft, OpenIsLast, Unsettled
<1>6. \A b \in Actors : pc[b] \in DraftPC =>
          job[b] \in Drafts /\ drafts'[job[b]] = drafts[job[b]]
  BY <1>0, <1>2, <1>3, DraftInHand DEF Handlers, AsRead
<1>7. Handlers'
  BY <1>0, <1>6 DEF Handlers, AsRead, HasNoSession
<1>8. \A r : Before(r)' <=> Before(r)
  BY <1>0, BeforeStays
<1>9. \A b \in Actors : TryFits(b)'
  BY <1>0, <1>6, <1>8 DEF RulesFit, TryFits, DraftPC
<1>10. \A s \in SessionIds : TrialFits(s)'
  <2>1. \A s \in SessionIds :
            /\ Doing("setRolledBack", s)' <=> Doing("setRolledBack", s)
            /\ Doing("setRollbackFailed", s)' <=> Doing("setRollbackFailed", s)
    BY <1>0, DoingSame DEF Deciding
  <2> QED BY <1>0, <1>8, <2>1 DEF RulesFit, TrialFits
<1>11. \A r \in Rules : Clear(r)' => Clear(r)
  BY <1>0, <1>2, <1>3 DEF Clear, Unsettled, HasNoSession
<1> QED BY <1>0, <1>5, <1>7, <1>8, <1>9, <1>10, <1>11 DEF RulesFit

\* The trial a worker is about to begin is the only one of its rule.
LEMMA OnlyTrial ==
    ASSUME CalmInv, NEW w \in Workers, pc[w] \in DraftPC
    PROVE  LET r == drafts[job[w]].rule IN
           /\ \A s \in SessionIds :
                  sessions[s] # NoRow /\ sessions[s].rule = r =>
                      sessions[s].status \in {"confirmed", "rolled_back"}
           /\ \A d \in Drafts \ {job[w]} :
                  drafts[d].status = "applying" => drafts[d].rule # r
           /\ \A b \in Actors \ {w} : pc[b] \in DraftPC \cup Deciding => job[b] # job[w]
           /\ \A b \in Actors \ {w} :
                  pc[b] \in DraftPC \ {"markApplying"} => drafts[job[b]].rule # r
<1>0. Inv /\ Calm /\ Handlers /\ w \in Actors
  BY DEF CalmInv, Actors, Web
<1>1. job[w] \in Drafts /\ job[w] # None
  BY <1>0, DraftInHand, IdAssumption
<1>2. \A b \in Actors \ {w} : pc[b] \in DraftPC \cup Deciding => job[b] # job[w]
  BY <1>0, <1>1 DEF Calm, Exclusive, DraftPC, Deciding, ConfirmPC, RestorePC
<1>3. \A d \in Drafts \ {job[w]} :
          drafts[d].status = "applying" => drafts[d].rule # drafts[job[w]].rule
  BY <1>0 DEF Calm, OneTrial
<1>4. ASSUME NEW b \in Actors \ {w}, pc[b] \in DraftPC \ {"markApplying"}
      PROVE  drafts[job[b]].rule # drafts[job[w]].rule
  <2>1. job[b] \in Drafts /\ drafts[job[b]].status = "applying"
    BY <1>0, <1>4, DraftInHand DEF Handlers, AsRead
  <2> QED BY <1>2, <1>3, <1>4, <2>1
<1> QED BY <1>0, <1>2, <1>3, <1>4 DEF Calm, OneTrial

LEMMA MarkApplyingFits ==
    ASSUME CalmInv, NEW w \in Workers, MarkApplying(w)
    PROVE  TrialRows' /\ Handlers' /\ RulesFit'
<1> DEFINE d == job[w]
           r == drafts[job[w]].rule
<1>0. /\ Inv /\ Calm /\ TrialRows /\ Handlers /\ RulesFit
      /\ w \in Actors /\ pc[w] = "markApplying" /\ pc[w] \in DraftPC
  BY DEF CalmInv, Actors, Web, MarkApplying, DraftPC
<1>1. /\ d \in Drafts /\ drafts[d] # NoRow /\ r \in Rules
      /\ KeepDrafts("applying", d)
      /\ Goes(w, "applyRuntime", d) \/ Goes(w, "resetDraft", d)
      /\ UNCHANGED <<sessions, runtime, start>>
  BY <1>0, DraftStatement DEF ResetDraft
<1>2. /\ \A s \in SessionIds :
             sessions[s] # NoRow /\ sessions[s].rule = r =>
                 sessions[s].status \in {"confirmed", "rolled_back"}
      /\ \A e \in Drafts \ {d} :
             drafts[e].status = "applying" => drafts[e].rule # r
      /\ \A b \in Actors \ {w} : pc[b] \in DraftPC \cup Deciding => job[b] # d
  BY <1>0, OnlyTrial
<1>3. HasNoSession(d) /\ drafts[d].status = "pending"
  BY <1>0 DEF Handlers, AsRead
<1>4. drafts[d].op = "delete" <=> r \in runtime
  BY <1>0 DEF Calm, Meaningful
<1> HIDE DEF d, r
<1>5. /\ drafts'[d].status = "applying" /\ drafts'[d] # NoRow
      /\ \A e \in Drafts : drafts[e] # NoRow =>
             drafts'[e].op = drafts[e].op /\ drafts'[e].rule = drafts[e].rule
      /\ \A e \in Drafts \ {d} : drafts'[e] = drafts[e]
  BY <1>1 DEF KeepDrafts
<1>6. /\ pc'[w] \in {"applyRuntime", "resetDraft"} /\ job'[w] = d
      /\ \A b \in Actors \ {w} : pc'[b] = pc[b] /\ job'[b] = job[b]
  BY <1>1 DEF Goes
<1>7. \A s \in SessionIds : sessions[s] # NoRow =>
          /\ sessions[s].draft \in Drafts /\ sessions[s].draft # d
          /\ drafts[sessions[s].draft] # NoRow
  BY <1>0, <1>3 DEF Inv, TypeOK, TablesType, RowsExist, SessionRow, HasNoSession
<1>8. TrialRows'
  <2>1. SessionsOfDrafts'
    BY <1>0, <1>1, <1>5, <1>7 DEF TrialRows, SessionsOfDrafts, OfDraft
  <2> QED BY <1>0, <1>1, <2>1 DEF TrialRows, InOrder, OnePerDraft, OpenIsLast, Unsettled
<1>9. \A b \in Actors \ {w} : pc[b] \in DraftPC =>
          job[b] \in Drafts /\ drafts'[job[b]] = drafts[job[b]]
  BY <1>0, <1>2, <1>5, DraftInHand
<1>10. Handlers'
  <2>1. AsRead(w)'
    BY <1>1, <1>3, <1>5, <1>6 DEF AsRead, HasNoSession, Deciding, ConfirmPC
  <2> QED BY <1>0, <1>1, <1>6, <1>9, <2>1 DEF Handlers, AsRead, HasNoSession
<1>11. \A x : Before(x)' <=> Before(x)
  BY <1>1, BeforeStays
<1>12. r \in runtime <=> Before(r)
  <2>1. Clear(r)
    BY <1>2, <1>3 DEF Clear, Unsettled
  <2> QED BY <1>0, <1>1, <2>1 DEF RulesFit
<1>13. \A b \in Actors : TryFits(b)'
  <2>1. drafts'[d].rule = r /\ drafts'[d].op = drafts[d].op
    BY <1>1, <1>5 DEF r, d
  <2>2. TryFits(w)'
    BY <1>1, <1>4, <1>6, <1>11, <1>12, <2>1 DEF TryFits
  <2>3. \A b \in Actors \ {w} : TryFits(b)'
    BY <1>0, <1>1, <1>6, <1>9, <1>11 DEF RulesFit, TryFits, DraftPC
  <2> QED BY <2>2, <2>3
<1>14. \A s \in SessionIds : TrialFits(s)'
  <2>1. \A s \in SessionIds :
            /\ Doing("setRolledBack", s)' <=> Doing("setRolledBack", s)
            /\ Doing("setRollbackFailed", s)' <=> Doing("setRollbackFailed", s)
    BY <1>0, <1>6, DoingSame
  <2> QED BY <1>0, <1>1, <1>11, <2>1 DEF RulesFit, TrialFits
<1>15. \A x \in Rules : Clear(x)' => Clear(x)
  BY <1>1, <1>3, <1>5 DEF Clear, Unsettled, HasNoSession
<1> QED BY <1>0, <1>1, <1>8, <1>10, <1>11, <1>13, <1>14, <1>15 DEF RulesFit

LEMMA ResetDraftFits ==
    ASSUME CalmInv, NEW w \in Workers, ResetDraft(w)
    PROVE  TrialRows' /\ Handlers' /\ RulesFit'
<1> DEFINE d == job[w]
           r == drafts[job[w]].rule
<1>0. /\ Inv /\ Calm /\ TrialRows /\ Handlers /\ RulesFit
      /\ w \in Actors /\ pc[w] = "resetDraft" /\ pc[w] \in DraftPC
      /\ ~MarkApplying(w)
  BY DEF CalmInv, Actors, Web, ResetDraft, MarkApplying, DraftPC
<1>1. /\ d \in Drafts /\ drafts[d] # NoRow /\ r \in Rules
      /\ KeepDrafts("pending", d)
      /\ Goes(w, "idle", None)
      /\ UNCHANGED <<sessions, runtime, start>>
  BY <1>0, DraftStatement
<1>2. \A b \in Actors \ {w} : pc[b] \in DraftPC \cup Deciding => job[b] # d
  BY <1>0, OnlyTrial
<1>3. HasNoSession(d) /\ drafts[d].status = "applying"
  BY <1>0 DEF Handlers, AsRead
<1>4. r \in runtime <=> Before(r)
  BY <1>0 DEF RulesFit, TryFits
<1> HIDE DEF d, r
<1>5. /\ drafts'[d].status = "pending" /\ drafts'[d] # NoRow
      /\ \A e \in Drafts : drafts[e] # NoRow =>
             drafts'[e].op = drafts[e].op /\ drafts'[e].rule = drafts[e].rule
      /\ \A e \in Drafts \ {d} : drafts'[e] = drafts[e]
  BY <1>1 DEF KeepDrafts
<1>6. /\ pc'[w] = "idle"
      /\ \A b \in Actors \ {w} : pc'[b] = pc[b] /\ job'[b] = job[b]
  BY <1>1 DEF Goes
<1>7. \A s \in SessionIds : sessions[s] # NoRow =>
          /\ sessions[s].draft \in Drafts /\ sessions[s].draft # d
          /\ drafts[sessions[s].draft] # NoRow
  BY <1>0, <1>3 DEF Inv, TypeOK, TablesType, RowsExist, SessionRow, HasNoSession
<1>8. TrialRows'
  <2>1. SessionsOfDrafts'
    BY <1>0, <1>1, <1>5, <1>7 DEF TrialRows, SessionsOfDrafts, OfDraft
  <2> QED BY <1>0, <1>1, <2>1 DEF TrialRows, InOrder, OnePerDraft, OpenIsLast, Unsettled
<1>9. \A b \in Actors \ {w} : pc[b] \in DraftPC =>
          job[b] \in Drafts /\ drafts'[job[b]] = drafts[job[b]]
  BY <1>0, <1>2, <1>5, DraftInHand
<1>10. Handlers'
  <2>1. AsRead(w)'
    BY <1>6 DEF AsRead, Deciding, ConfirmPC, DraftPC
  <2> QED BY <1>0, <1>1, <1>6, <1>9, <2>1 DEF Handlers, AsRead, HasNoSession
<1>11. \A x : Before(x)' <=> Before(x)
  BY <1>1, BeforeStays
<1>12. \A b \in Actors : TryFits(b)'
  <2>1. TryFits(w)'
    BY <1>6 DEF TryFits
  <2>2. \A b \in Actors \ {w} : TryFits(b)'
    BY <1>0, <1>1, <1>6, <1>9, <1>11 DEF RulesFit, TryFits, DraftPC
  <2> QED BY <2>1, <2>2
<1>13. \A s \in SessionIds : TrialFits(s)'
  <2>1. \A s \in SessionIds :
            /\ Doing("setRolledBack", s)' <=> Doing("setRolledBack", s)
            /\ Doing("setRollbackFailed", s)' <=> Doing("setRollbackFailed", s)
    BY <1>0, <1>6, DoingSame
  <2> QED BY <1>0, <1>1, <1>11, <2>1 DEF RulesFit, TrialFits
<1>14. \A x \in Rules \ {r} : Clear(x)' => Clear(x)
  BY <1>1, <1>5 DEF Clear, Unsettled, HasNoSession, r, d
<1> QED BY <1>0, <1>1, <1>4, <1>8, <1>10, <1>11, <1>12, <1>13, <1>14 DEF RulesFit

LEMMA ApplyRuntimeFits ==
    ASSUME CalmInv, NEW w \in Workers, ApplyRuntime(w)
    PROVE  TrialRows' /\ Handlers' /\ RulesFit'
<1> DEFINE d == job[w]
           r == drafts[job[w]].rule
           new == Effect(runtime, TrialOp(d), r)
<1>0. /\ Inv /\ Calm /\ TrialRows /\ Handlers /\ RulesFit
      /\ w \in Actors /\ pc[w] = "applyRuntime" /\ pc[w] \in DraftPC
  BY DEF CalmInv, Actors, Web, ApplyRuntime, DraftPC
<1>1. /\ d \in Drafts /\ drafts[d] # NoRow /\ r \in Rules
      /\ \/ Goes(w, "openSession", d) /\ runtime' = new /\ drafts[d].op # "update"
         \/ Goes(w, "idle", None) /\ runtime' \in {runtime, new}
      /\ UNCHANGED <<drafts, sessions, start>>
  BY <1>0, ApplyStatement
<1>2. /\ \A s \in SessionIds :
             sessions[s] # NoRow /\ sessions[s].rule = r =>
                 sessions[s].status \in {"confirmed", "rolled_back"}
      /\ \A b \in Actors \ {w} : pc[b] \in DraftPC \cup Deciding => job[b] # d
      /\ \A b \in Actors \ {w} :
             pc[b] \in DraftPC \ {"markApplying"} => drafts[job[b]].rule # r
  BY <1>0, OnlyTrial
<1>3. HasNoSession(d) /\ drafts[d].status = "applying"
  BY <1>0 DEF Handlers, AsRead
<1>4. /\ r \in runtime <=> Before(r)
      /\ drafts[d].op = "delete" <=> r \in runtime
  BY <1>0 DEF RulesFit, TryFits
<1>5. /\ \A x \in Rules \ {r} : x \in runtime' <=> x \in runtime
      /\ r \in new <=> drafts[d].op # "delete"
  BY <1>0, <1>1 DEF Effect, TrialOp, Inv, TypeOK, FirewallType
<1> HIDE DEF d, r, new
<1>6. /\ pc'[w] \in {"openSession", "idle"} /\ (pc'[w] = "openSession" => job'[w] = d)
      /\ \A b \in Actors \ {w} : pc'[b] = pc[b] /\ job'[b] = job[b]
  BY <1>1 DEF Goes
<1>7. TrialRows'
  BY <1>0, <1>1 DEF TrialRows, InOrder, SessionsOfDrafts, OfDraft, OnePerDraft,
                    OpenIsLast, Unsettled
<1>8. Handlers'
  <2>1. AsRead(w)'
    BY <1>1, <1>3, <1>6 DEF AsRead, HasNoSession, Deciding, ConfirmPC, DraftPC
  <2> QED BY <1>0, <1>1, <1>6, <2>1 DEF Handlers, AsRead, HasNoSession
<1>9. \A x : Before(x)' <=> Before(x)
  BY <1>1, BeforeStays
<1>10. \A b \in Actors : TryFits(b)'
  <2>1. TryFits(w)'
    <3>1. CASE pc'[w] = "idle"
      BY <3>1 DEF TryFits
    <3>2. CASE pc'[w] = "openSession" /\ runtime' = new
      BY <1>1, <1>4, <1>5, <1>6, <1>9, <3>2 DEF TryFits, r, d
    <3> QED BY <1>1, <3>1, <3>2 DEF Goes
  <2>2. ASSUME NEW b \in Actors \ {w}
        PROVE  TryFits(b)'
    <3>1. CASE pc[b] \in {"resetDraft", "applyRuntime", "openSession"}
      <4>1. pc[b] \in DraftPC \ {"markApplying"}
        BY <3>1 DEF DraftPC
      <4>2. drafts[job[b]].rule \in Rules \ {r}
        BY <1>0, <1>2, <4>1, DraftInHand
      <4> QED BY <1>0, <1>1, <1>5, <1>6, <1>9, <4>2 DEF RulesFit, TryFits
    <3>2. CASE pc[b] \notin {"resetDraft", "applyRuntime", "openSession"}
      BY <1>6, <3>2 DEF TryFits
    <3> QED BY <3>1, <3>2
  <2> QED BY <2>1, <2>2
<1>11. \A s \in SessionIds : TrialFits(s)'
  <2>1. \A s \in SessionIds :
            /\ Doing("setRolledBack", s)' <=> Doing("setRolledBack", s)
            /\ Doing("setRollbackFailed", s)' <=> Doing("setRollbackFailed", s)
    BY <1>0, <1>6, DoingSame
  <2>2. \A s \in SessionIds : sessions[s].status = "pending" =>
            sessions[s].rule \in Rules \ {r}
    BY <1>0, <1>2 DEF Inv, TypeOK, TablesType, SessionRow, NoRow
  <2> QED BY <1>0, <1>1, <1>5, <1>9, <2>1, <2>2 DEF RulesFit, TrialFits
<1>12. \A x \in Rules : Clear(x)' => x # r /\ Clear(x)
  BY <1>1, <1>3 DEF Clear, Unsettled, HasNoSession, r, d
<1> QED BY <1>0, <1>5, <1>7, <1>8, <1>9, <1>10, <1>11, <1>12 DEF RulesFit

\* A session that is opened confirms nothing.
LEMMA BeforeOpened ==
    ASSUME NEW w, NEW s \in SessionIds, Opens(w, s), UNCHANGED start
    PROVE  \A r : ConfirmedOn(r)' = ConfirmedOn(r) /\ (Before(r)' <=> Before(r))
<1>1. /\ sessions[s] = NoRow /\ sessions'[s].status = "pending"
      /\ \A t \in SessionIds \ {s} : sessions'[t] = sessions[t]
  BY DEF Opens, FreshSession
<1>2. \A r : ConfirmedOn(r)' = ConfirmedOn(r)
  BY <1>1 DEF ConfirmedOn, NoRow
<1>3. \A r : \A t \in ConfirmedOn(r) : sessions'[t].op = sessions[t].op
  BY <1>1 DEF ConfirmedOn, NoRow
<1> QED BY <1>2, <1>3, BeforeSame

LEMMA OpenSessionFits ==
    ASSUME CalmInv, NEW w \in Workers, OpenSession(w)
    PROVE  TrialRows' /\ Handlers' /\ RulesFit'
<1> DEFINE d == job[w]
           r == drafts[job[w]].rule
<1>0. /\ Inv /\ Calm /\ TrialRows /\ Handlers /\ RulesFit
      /\ w \in Actors /\ pc[w] = "openSession" /\ pc[w] \in DraftPC
  BY DEF CalmInv, Actors, Web, OpenSession, DraftPC
<1>1. /\ d \in Drafts /\ drafts[d] # NoRow /\ r \in Rules
      /\ Goes(w, "idle", None)
      /\ UNCHANGED <<drafts, runtime, start>>
  BY <1>0, OpenStatement
<1>2. /\ \A t \in SessionIds :
             sessions[t] # NoRow /\ sessions[t].rule = r =>
                 sessions[t].status \in {"confirmed", "rolled_back"}
      /\ \A b \in Actors \ {w} : pc[b] \in DraftPC \cup Deciding => job[b] # d
  BY <1>0, OnlyTrial
<1>3. HasNoSession(d) /\ drafts[d].status = "applying"
  BY <1>0 DEF Handlers, AsRead
<1>4. /\ drafts[d].op = "delete" <=> Before(r)
      /\ drafts[d].op = "delete" <=> r \notin runtime
  BY <1>0 DEF RulesFit, TryFits
<1>5. PICK s \in SessionIds : Opens(w, s)
  BY <1>0, OpenStatement
<1>6. /\ sessions[s] = NoRow /\ sessions'[s] # NoRow
      /\ sessions'[s].status = "pending" /\ sessions'[s].rule = r
      /\ sessions'[s].op = "delete" <=> drafts[d].op = "delete"
      /\ sessions'[s].draft = d
      /\ \A t \in SessionIds \ {s} : sessions'[t] = sessions[t]
      /\ \A t \in SessionIds : t < s => sessions[t] # NoRow
  BY <1>5 DEF Opens, FreshSession, TrialOp
<1> HIDE DEF d, r
<1>7. \A t \in SessionIds : sessions[t] # NoRow => t < s
  BY <1>0, <1>6 DEF TrialRows, InOrder, SessionIds
<1>8. /\ pc'[w] = "idle"
      /\ \A b \in Actors \ {w} : pc'[b] = pc[b] /\ job'[b] = job[b]
  BY <1>1 DEF Goes
<1>9. TrialRows'
  <2>1. InOrder'
    BY <1>0, <1>6, <1>7 DEF TrialRows, InOrder, SessionIds
  <2>2. SessionsOfDrafts'
    <3>1. OfDraft(s)'
      BY <1>1, <1>3, <1>6 DEF OfDraft, d, r
    <3>2. \A t \in SessionIds \ {s} : sessions'[t] # NoRow => OfDraft(t)'
      BY <1>0, <1>1, <1>6 DEF TrialRows, SessionsOfDrafts, OfDraft
    <3> QED BY <3>1, <3>2 DEF SessionsOfDrafts
  <2>3. OnePerDraft'
    BY <1>0, <1>3, <1>6 DEF TrialRows, OnePerDraft, HasNoSession
  <2>4. OpenIsLast'
    <3> SUFFICES ASSUME NEW x \in SessionIds, NEW y \in SessionIds,
                        sessions'[x] # NoRow, sessions'[y] # NoRow,
                        sessions'[x].rule = sessions'[y].rule, Unsettled(x)'
                 PROVE  y =< x
      BY DEF OpenIsLast
    <3>1. CASE x = s
      BY <1>6, <1>7, <3>1 DEF SessionIds
    <3>2. CASE x # s /\ y = s
      <4>1. sessions[x] # NoRow /\ sessions[x].rule = r /\ Unsettled(x)
        BY <1>6, <3>2 DEF Unsettled
      <4> QED BY <1>2, <4>1 DEF Unsettled
    <3>3. CASE x # s /\ y # s
      BY <1>0, <1>6, <3>3 DEF TrialRows, OpenIsLast, Unsettled
    <3> QED BY <3>1, <3>2, <3>3
  <2> QED BY <2>1, <2>2, <2>3, <2>4 DEF TrialRows
<1>10. Handlers'
  <2>1. AsRead(w)'
    BY <1>8 DEF AsRead, Deciding, ConfirmPC, DraftPC
  <2>2. ASSUME NEW b \in Actors \ {w}
        PROVE  AsRead(b)'
    <3>1. /\ AsRead(b) /\ pc'[b] = pc[b] /\ job'[b] = job[b]
          /\ (pc[b] \in DraftPC \cup Deciding => job[b] # d)
      BY <1>0, <1>2, <1>8 DEF Handlers
    <3>2. pc[b] \in DraftPC => HasNoSession(job[b])'
      BY <1>6, <3>1 DEF AsRead, HasNoSession
    <3>3. pc[b] \in Deciding => sessions'[job[b]].status = "pending"
      <4> HAVE pc[b] \in Deciding
      <4>1. pc[b] \in ConfirmPC \cup RollbackPC
        BY DEF Deciding, ConfirmPC, RollbackPC
      <4>2. job[b] \in SessionIds \ {s}
        BY <1>0, <1>6, <4>1, SessionInHand
      <4> QED BY <1>6, <3>1, <4>2 DEF AsRead
    <3> QED BY <1>1, <3>1, <3>2, <3>3 DEF AsRead
  <2> QED BY <2>1, <2>2 DEF Handlers
<1>11. \A x : Before(x)' <=> Before(x)
  BY <1>1, <1>5, BeforeOpened
<1>12. \A b \in Actors : TryFits(b)'
  <2>1. TryFits(w)'
    BY <1>8 DEF TryFits
  <2>2. \A b \in Actors \ {w} : TryFits(b)'
    BY <1>0, <1>1, <1>8, <1>11 DEF RulesFit, TryFits
  <2> QED BY <2>1, <2>2
<1>13. \A t \in SessionIds : TrialFits(t)'
  <2>1. \A t \in SessionIds :
            /\ Doing("setRolledBack", t)' <=> Doing("setRolledBack", t)
            /\ Doing("setRollbackFailed", t)' <=> Doing("setRollbackFailed", t)
    BY <1>0, <1>8, DoingSame
  <2>2. ~Doing("setRolledBack", s) /\ ~Doing("setRollbackFailed", s)
    <3>1. \A b \in Actors : pc[b] \in RollbackPC => sessions[job[b]] # NoRow
      BY <1>0, SessionInHand
    <3> QED BY <1>6, <3>1 DEF Doing, RollbackPC
  <2>3. TrialFits(s)'
    BY <1>1, <1>4, <1>6, <1>11, <2>1, <2>2 DEF TrialFits
  <2>4. \A t \in SessionIds \ {s} : TrialFits(t)'
    BY <1>0, <1>1, <1>6, <1>11, <2>1 DEF RulesFit, TrialFits
  <2> QED BY <2>3, <2>4
<1>14. \A x \in Rules : Clear(x)' => x # r /\ Clear(x)
  <2> SUFFICES ASSUME NEW x \in Rules, Clear(x)'
               PROVE  x # r /\ Clear(x)
    OBVIOUS
  <2>0. x # r
    BY <1>6 DEF Clear, Unsettled
  <2>1. \A t \in SessionIds :
            sessions[t] # NoRow /\ sessions[t].rule = x => ~Unsettled(t)
    BY <1>6 DEF Clear, Unsettled
  <2>2. ASSUME NEW e \in Drafts, drafts[e] # NoRow, drafts[e].status = "applying",
               drafts[e].rule = x
        PROVE  ~HasNoSession(e)
    <3>1. e # d
      BY <2>0, <2>2 DEF r, d
    <3>2. ~HasNoSession(e)'
      BY <1>1, <2>2 DEF Clear
    <3> QED BY <1>6, <3>1, <3>2 DEF HasNoSession
  <2> QED BY <2>0, <2>1, <2>2 DEF Clear
<1> QED BY <1>0, <1>1, <1>9, <1>10, <1>11, <1>12, <1>13, <1>14 DEF RulesFit

\* A pending session in hand: nobody else has it, it is the last of its rule,
\* and no trial of the rule is being made.
LEMMA OnlyHand ==
    ASSUME CalmInv, NEW a \in Actors, pc[a] \in Deciding
    PROVE  LET s == job[a]
               r == sessions[job[a]].rule
           IN
           /\ s \in SessionIds /\ sessions[s] # NoRow /\ sessions[s].status = "pending"
           /\ r \in Rules /\ sessions[s].op \in {"add", "delete"}
           /\ \A b \in Actors \ {a} : pc[b] \in DraftPC \cup Deciding => job[b] # s
           /\ \A t \in SessionIds \ {s} :
                  sessions[t] # NoRow /\ sessions[t].rule = r =>
                      t =< s /\ ~Unsettled(t)
           /\ \A b \in Actors : pc[b] \in DraftPC => drafts[job[b]].rule # r
<1> DEFINE s == job[a]
           r == sessions[job[a]].rule
<1>0. Inv /\ Calm /\ TrialRows /\ Handlers
  BY DEF CalmInv
<1>1. pc[a] \in ConfirmPC \cup RollbackPC
  BY DEF Deciding, ConfirmPC, RollbackPC
<1>2. /\ s \in SessionIds /\ sessions[s] # NoRow /\ sessions[s].status = "pending"
      /\ r \in Rules /\ sessions[s].op \in {"add", "delete"}
  BY <1>0, <1>1, SessionInHand DEF Handlers, AsRead
<1>3. \A b \in Actors \ {a} : pc[b] \in DraftPC \cup Deciding => job[b] # s
  BY <1>0, <1>1, <1>2, IdAssumption DEF Calm, Exclusive, DraftPC, Deciding, ConfirmPC,
                                 RestorePC
<1>4. \A t \in SessionIds \ {s} :
          sessions[t] # NoRow /\ sessions[t].rule = r => t =< s /\ ~Unsettled(t)
  BY <1>0, <1>2 DEF TrialRows, OpenIsLast, Unsettled, SessionIds
<1>5. \A b \in Actors : pc[b] \in DraftPC => drafts[job[b]].rule # r
  BY <1>0, <1>2 DEF Handlers, AsRead, Calm, OneTrial
<1> QED BY <1>2, <1>3, <1>4, <1>5

\* The rows of a session's statement, and whom it leaves alone.
LEMMA SessionRowsFit ==
    ASSUME CalmInv, NEW a \in Actors, pc[a] \in Deciding, Leaves(a),
           NEW x \in {"confirmed", "rolled_back", "rollback_failed"},
           KeepSessions(x, job[a]), UNCHANGED <<drafts, runtime, start>>
    PROVE  TrialRows' /\ Handlers'
<1> DEFINE s == job[a]
<1>0. Inv /\ TrialRows /\ Handlers
  BY DEF CalmInv
<1>1. /\ s \in SessionIds /\ sessions[s] # NoRow /\ sessions[s].status = "pending"
      /\ \A b \in Actors \ {a} : pc[b] \in DraftPC \cup Deciding => job[b] # s
  BY OnlyHand
<1> HIDE DEF s
<1>2. /\ sessions'[s].status = x /\ sessions'[s] # NoRow
      /\ \A t \in SessionIds : sessions[t] # NoRow =>
             /\ sessions'[t] # NoRow
             /\ sessions'[t].op = sessions[t].op /\ sessions'[t].rule = sessions[t].rule
             /\ sessions'[t].draft = sessions[t].draft
      /\ \A t \in SessionIds \ {s} : sessions'[t] = sessions[t]
  BY DEF KeepSessions, s
<1>3. \A t \in SessionIds :
          /\ sessions'[t] # NoRow <=> sessions[t] # NoRow
          /\ sessions[t] # NoRow /\ Unsettled(t)' => Unsettled(t)
  BY <1>1, <1>2 DEF Unsettled
<1>4. TrialRows'
  <2>1. InOrder'
    BY <1>0, <1>3 DEF TrialRows, InOrder
  <2>2. SessionsOfDrafts'
    BY <1>0, <1>2, <1>3 DEF TrialRows, SessionsOfDrafts, OfDraft
  <2>3. OnePerDraft'
    BY <1>0, <1>2, <1>3 DEF TrialRows, OnePerDraft
  <2>4. OpenIsLast'
    BY <1>0, <1>2, <1>3 DEF TrialRows, OpenIsLast
  <2> QED BY <2>1, <2>2, <2>3, <2>4 DEF TrialRows
<1>5. AsRead(a)'
  BY DEF Leaves, AsRead
<1>6. ASSUME NEW b \in Actors \ {a}
      PROVE  AsRead(b)'
  <2>1. /\ AsRead(b) /\ pc'[b] = pc[b] /\ job'[b] = job[b]
        /\ (pc[b] \in DraftPC \cup Deciding => job[b] # s)
    BY <1>0, <1>1 DEF Handlers, Leaves
  <2>2. pc[b] \in DraftPC => HasNoSession(job[b])'
    BY <1>2, <1>3, <2>1 DEF AsRead, HasNoSession
  <2>3. pc[b] \in Deciding => job[b] \in SessionIds
    <3>1. pc[b] \in Deciding => pc[b] \in ConfirmPC \cup RollbackPC
      BY DEF Deciding, ConfirmPC, RollbackPC
    <3> QED BY <1>0, <3>1, SessionInHand
  <2> QED BY <1>2, <2>1, <2>2, <2>3 DEF AsRead
<1> QED BY <1>4, <1>5, <1>6 DEF Handlers

\* ... and of the rules.
LEMMA SessionRulesFit ==
    ASSUME CalmInv, NEW a \in Actors, pc[a] \in Deciding, Leaves(a),
           NEW x \in {"confirmed", "rolled_back", "rollback_failed"},
           KeepSessions(x, job[a]), UNCHANGED <<drafts, runtime, start>>,
           \A r \in Rules : r # sessions[job[a]].rule => (Before(r)' <=> Before(r)),
           \A r \in Rules : r = sessions[job[a]].rule /\ x # "rollback_failed" =>
               (r \in runtime <=> Before(r)')
    PROVE  RulesFit'
<1>0. RulesFit /\ Inv
  BY DEF CalmInv
<1>1. PICK s \in SessionIds : s = job[a]
  BY OnlyHand
<1>2. PICK r \in Rules : r = sessions[job[a]].rule
  BY OnlyHand
<1>3. /\ sessions[s] # NoRow /\ sessions[s].status = "pending" /\ sessions[s].rule = r
      /\ \A b \in Actors \ {a} : pc[b] \in DraftPC \cup Deciding => job[b] # s
      /\ \A t \in SessionIds \ {s} :
             sessions[t] # NoRow /\ sessions[t].rule = r => ~Unsettled(t)
      /\ \A b \in Actors : pc[b] \in DraftPC => drafts[job[b]].rule # r
  BY <1>1, <1>2, OnlyHand
<1>4. /\ sessions'[s].status = x /\ sessions'[s] # NoRow
      /\ sessions'[s].rule = r
      /\ \A t \in SessionIds \ {s} : sessions'[t] = sessions[t]
  BY <1>1, <1>3 DEF KeepSessions
<1>5. \A b \in Actors : TryFits(b)'
  <2>1. TryFits(a)'
    BY DEF Leaves, TryFits, DraftPC
  <2>2. ASSUME NEW b \in Actors \ {a}
        PROVE  TryFits(b)'
    <3>1. CASE pc[b] \in {"resetDraft", "applyRuntime", "openSession"}
      <4>1. pc[b] \in DraftPC
        BY <3>1 DEF DraftPC
      <4>2. drafts[job[b]].rule \in Rules /\ drafts[job[b]].rule # sessions[job[a]].rule
        BY <1>0, <1>2, <1>3, <4>1, DraftInHand
      <4> QED BY <1>0, <4>2 DEF RulesFit, TryFits, Leaves
    <3>2. CASE pc[b] \notin {"resetDraft", "applyRuntime", "openSession"}
      BY <3>2 DEF TryFits, Leaves
    <3> QED BY <3>1, <3>2
  <2> QED BY <2>1, <2>2
<1>6. \A t \in SessionIds : TrialFits(t)'
  <2>1. TrialFits(s)'
    BY <1>4 DEF TrialFits
  <2>2. ASSUME NEW t \in SessionIds \ {s}, sessions[t].status = "pending"
        PROVE  TrialFits(t)'
    <3>1. sessions[t].rule \in Rules /\ sessions[t].rule # sessions[job[a]].rule
      BY <1>0, <1>2, <1>3, <2>2
         DEF Inv, TypeOK, TablesType, SessionRow, NoRow, Unsettled
    <3>2. /\ Doing("setRolledBack", t)' <=> Doing("setRolledBack", t)
          /\ Doing("setRollbackFailed", t)' <=> Doing("setRollbackFailed", t)
      BY <1>1, <2>2, DoingSame DEF Leaves, Deciding
    <3>3. sessions'[t] = sessions[t]
      BY <1>4, <2>2
    <3>4. PICK y \in Rules : y = sessions[t].rule
      BY <3>1
    <3>5. (Before(y)' <=> Before(y)) /\ (y \in runtime' <=> y \in runtime)
      BY <3>1, <3>4
    <3>6. TrialFits(t)
      BY <1>0 DEF RulesFit
    <3> QED BY <3>2, <3>3, <3>4, <3>5, <3>6 DEF TrialFits
  <2>3. \A t \in SessionIds \ {s} : sessions[t].status # "pending" => TrialFits(t)'
    BY <1>4 DEF TrialFits
  <2> QED BY <2>1, <2>2, <2>3
<1>7. ASSUME NEW y \in Rules, Clear(y)'
      PROVE  y \in runtime' <=> Before(y)'
  <2>1. CASE y = r
    <3>1. x # "rollback_failed"
      BY <1>4, <1>7, <2>1 DEF Clear, Unsettled
    <3> QED BY <1>2, <2>1, <3>1
  <2>2. CASE y # r
    <3>1. Clear(y)
      <4>1. \A t \in SessionIds :
                sessions[t] # NoRow /\ sessions[t].rule = y => ~Unsettled(t)
        BY <1>3, <1>4, <1>7, <2>2 DEF Clear, Unsettled
      <4>2. \A d \in Drafts : HasNoSession(d) => HasNoSession(d)'
        <5>1. sessions'[s].draft = sessions[s].draft
          BY <1>1, <1>3 DEF KeepSessions
        <5> QED BY <1>3, <1>4, <5>1 DEF HasNoSession
      <4> QED BY <1>7, <4>1, <4>2 DEF Clear
    <3> QED BY <1>0, <1>2, <2>2, <3>1 DEF RulesFit
  <2> QED BY <2>1, <2>2
<1> QED BY <1>5, <1>6, <1>7 DEF RulesFit

\* A confirmation decides what becomes of its rule.
LEMMA BeforeConfirmed ==
    ASSUME CalmInv, NEW w \in Workers, SetConfirmed(w)
    PROVE  LET s == job[w] IN
           /\ pc[w] = "setConfirmed" /\ pc[w] \in Deciding
           /\ KeepSessions("confirmed", s) /\ Leaves(w)
           /\ UNCHANGED <<drafts, runtime, start>>
           /\ \A y \in Rules : y # sessions[s].rule =>
                  ConfirmedOn(y)' = ConfirmedOn(y) /\ (Before(y)' <=> Before(y))
           /\ \A y \in Rules : y = sessions[s].rule =>
                  /\ s \in ConfirmedOn(y)' /\ \A t \in ConfirmedOn(y)' : t =< s
                  /\ Before(y)' <=> sessions[s].op = "add"
<1>0. /\ Inv /\ TrialRows /\ RulesFit /\ w \in Actors
      /\ pc[w] = "setConfirmed" /\ pc[w] \in Deciding
  BY DEF CalmInv, Actors, Web, SetConfirmed, Deciding, ConfirmPC
<1>1. /\ KeepSessions("confirmed", job[w]) /\ Leaves(w)
      /\ UNCHANGED <<drafts, runtime, start>>
  <2>1. ~SetRolledBack(w) /\ ~SetRollbackFailed(w)
    BY <1>0 DEF SetRolledBack, SetRollbackFailed
  <2> QED BY <1>0, <2>1, SessionStatement
<1>2. PICK s \in SessionIds : s = job[w]
  BY <1>0, OnlyHand
<1>3. PICK r \in Rules : r = sessions[job[w]].rule
  BY <1>0, OnlyHand
<1>4. /\ sessions[s] # NoRow /\ sessions[s].status = "pending" /\ sessions[s].rule = r
      /\ sessions[s].op \in {"add", "delete"}
      /\ \A b \in Actors \ {w} : pc[b] \in DraftPC \cup Deciding => job[b] # s
      /\ \A t \in SessionIds \ {s} :
             sessions[t] # NoRow /\ sessions[t].rule = r => t =< s /\ ~Unsettled(t)
  BY <1>0, <1>2, <1>3, OnlyHand
<1>5. /\ sessions'[s].status = "confirmed" /\ sessions'[s].rule = r
      /\ sessions'[s].op = sessions[s].op
      /\ \A t \in SessionIds \ {s} : sessions'[t] = sessions[t]
  BY <1>1, <1>2, <1>4 DEF KeepSessions
<1>6. \A y \in Rules : y # r => ConfirmedOn(y)' = ConfirmedOn(y) /\ (Before(y)' <=> Before(y))
  <2> SUFFICES ASSUME NEW y \in Rules, y # r
               PROVE  ConfirmedOn(y)' = ConfirmedOn(y) /\ (Before(y)' <=> Before(y))
    OBVIOUS
  <2>1. ConfirmedOn(y)' = ConfirmedOn(y)
    BY <1>4, <1>5 DEF ConfirmedOn
  <2>2. \A t \in ConfirmedOn(y) : sessions'[t].op = sessions[t].op
    BY <1>4, <1>5 DEF ConfirmedOn
  <2> QED BY <1>1, <2>1, <2>2, BeforeSame
<1>7. /\ s \in ConfirmedOn(r)' /\ \A t \in ConfirmedOn(r)' : t =< s
      /\ Before(r)' <=> sessions[s].op = "add"
  <2>1. s \in ConfirmedOn(r)' /\ \A t \in ConfirmedOn(r)' : t \in SessionIds /\ t =< s
    BY <1>4, <1>5 DEF ConfirmedOn, NoRow, SessionIds
  <2>2. \A t \in ConfirmedOn(r)' : (\A u \in ConfirmedOn(r)' : u =< t) => t = s
    BY <2>1 DEF SessionIds
  <2> QED BY <1>5, <2>1, <2>2 DEF Before, Expected
<1> QED BY <1>0, <1>1, <1>2, <1>3, <1>6, <1>7

LEMMA SetConfirmedFits ==
    ASSUME CalmInv, NEW w \in Workers, SetConfirmed(w)
    PROVE  TrialRows' /\ Handlers' /\ RulesFit'
<1>0. /\ Inv /\ RulesFit /\ w \in Actors
      /\ pc[w] = "setConfirmed" /\ pc[w] \in Deciding
      /\ KeepSessions("confirmed", job[w]) /\ Leaves(w)
      /\ UNCHANGED <<drafts, runtime, start>>
  BY BeforeConfirmed DEF CalmInv, Actors, Web
<1>1. TrialRows' /\ Handlers'
  BY <1>0, SessionRowsFit
<1>2. \A y \in Rules : y # sessions[job[w]].rule => (Before(y)' <=> Before(y))
  BY BeforeConfirmed
<1>3. ASSUME NEW y \in Rules, y = sessions[job[w]].rule
      PROVE  y \in runtime <=> Before(y)'
  <2>1. /\ job[w] \in SessionIds /\ sessions[job[w]].status = "pending"
        /\ sessions[job[w]].op \in {"add", "delete"}
        /\ \A b \in Actors \ {w} : pc[b] \in DraftPC \cup Deciding => job[b] # job[w]
    BY <1>0, OnlyHand
  <2>2. ~Doing("setRolledBack", job[w]) /\ ~Doing("setRollbackFailed", job[w])
    BY <1>0, <2>1 DEF Doing, Deciding
  <2>3. y \in runtime <=> sessions[job[w]].op = "add"
    BY <1>0, <1>3, <2>1, <2>2 DEF RulesFit, TrialFits
  <2> QED BY <1>3, <2>3, BeforeConfirmed
<1>4. RulesFit'
  BY <1>0, <1>2, <1>3, SessionRulesFit
<1> QED BY <1>1, <1>4

\* A rollback's statement confirms nothing.
LEMMA BeforeKept ==
    ASSUME CalmInv, NEW a \in Actors, pc[a] \in Deciding,
           NEW x \in {"rolled_back", "rollback_failed"}, KeepSessions(x, job[a]),
           UNCHANGED start, NEW r
    PROVE  ConfirmedOn(r)' = ConfirmedOn(r) /\ (Before(r)' <=> Before(r))
<1>1. PICK s \in SessionIds : s = job[a]
  BY OnlyHand
<1>2. sessions[s].status = "pending"
  BY <1>1, OnlyHand
<1>3. /\ sessions'[s].status = x
      /\ \A t \in SessionIds \ {s} : sessions'[t] = sessions[t]
  BY <1>1 DEF KeepSessions
<1>4. ConfirmedOn(r)' = ConfirmedOn(r)
  BY <1>2, <1>3 DEF ConfirmedOn
<1>5. \A t \in ConfirmedOn(r) : sessions'[t].op = sessions[t].op
  BY <1>2, <1>3 DEF ConfirmedOn
<1> QED BY <1>4, <1>5, BeforeSame

LEMMA SetRolledBackFits ==
    ASSUME CalmInv, NEW a \in Actors, SetRolledBack(a)
    PROVE  TrialRows' /\ Handlers' /\ RulesFit'
<1>0. /\ Inv /\ RulesFit /\ pc[a] = "setRolledBack" /\ pc[a] \in Deciding
  BY DEF CalmInv, SetRolledBack, Deciding
<1>1. /\ KeepSessions("rolled_back", job[a]) /\ Leaves(a)
      /\ UNCHANGED <<drafts, runtime, start>>
  <2>1. ~SetConfirmed(a) /\ ~SetRollbackFailed(a)
    BY <1>0 DEF SetConfirmed, SetRollbackFailed
  <2> QED BY <1>0, <2>1, SessionStatement
<1>2. \A y : Before(y)' <=> Before(y)
  BY <1>0, <1>1, BeforeKept
<1>3. ASSUME NEW y \in Rules, y = sessions[job[a]].rule
      PROVE  y \in runtime <=> Before(y)
  <2>1. job[a] \in SessionIds /\ sessions[job[a]].status = "pending"
    BY <1>0, OnlyHand
  <2>2. Doing("setRolledBack", job[a])
    BY <1>0 DEF Doing
  <2> QED BY <1>0, <1>3, <2>1, <2>2 DEF RulesFit, TrialFits
<1>4. TrialRows' /\ Handlers'
  BY <1>0, <1>1, SessionRowsFit
<1>5. RulesFit'
  BY <1>0, <1>1, <1>2, <1>3, SessionRulesFit
<1> QED BY <1>4, <1>5

LEMMA SetRollbackFailedFits ==
    ASSUME CalmInv, NEW a \in Actors, SetRollbackFailed(a)
    PROVE  TrialRows' /\ Handlers' /\ RulesFit'
<1>0. /\ Inv /\ pc[a] = "setRollbackFailed" /\ pc[a] \in Deciding
  BY DEF CalmInv, SetRollbackFailed, Deciding
<1>1. /\ KeepSessions("rollback_failed", job[a]) /\ Leaves(a)
      /\ UNCHANGED <<drafts, runtime, start>>
  <2>1. ~SetConfirmed(a) /\ ~SetRolledBack(a)
    BY <1>0 DEF SetConfirmed, SetRolledBack
  <2> QED BY <1>0, <2>1, SessionStatement
<1>2. \A y : Before(y)' <=> Before(y)
  BY <1>0, <1>1, BeforeKept
<1>3. TrialRows' /\ Handlers'
  BY <1>0, <1>1, SessionRowsFit
<1>4. RulesFit'
  BY <1>0, <1>1, <1>2, SessionRulesFit
<1> QED BY <1>3, <1>4

LEMMA RunInverseFits ==
    ASSUME CalmInv, NEW a \in Actors, RunInverse(a)
    PROVE  TrialRows' /\ Handlers' /\ RulesFit'
<1>0. /\ Inv /\ TrialRows /\ Handlers /\ RulesFit
      /\ pc[a] = "inverse" /\ pc[a] \in Deciding
  BY DEF CalmInv, RunInverse, Deciding
<1>1. PICK s \in SessionIds : s = job[a]
  BY <1>0, OnlyHand
<1>2. PICK r \in Rules : r = sessions[job[a]].rule
  BY <1>0, OnlyHand
<1>3. /\ sessions[s] # NoRow /\ sessions[s].status = "pending" /\ sessions[s].rule = r
      /\ sessions[s].op \in {"add", "delete"}
      /\ \A b \in Actors \ {a} : pc[b] \in DraftPC \cup Deciding => job[b] # s
      /\ \A t \in SessionIds \ {s} :
             sessions[t] # NoRow /\ sessions[t].rule = r => ~Unsettled(t)
      /\ \A b \in Actors : pc[b] \in DraftPC => drafts[job[b]].rule # r
  BY <1>0, <1>1, <1>2, OnlyHand
<1> DEFINE new == Effect(runtime, Inverse(sessions[s].op), r)
<1>4. /\ \/ Goes(a, "setRolledBack", s) /\ runtime' = new
         \/ Goes(a, "setRollbackFailed", s) /\ runtime' \in {runtime, new}
      /\ UNCHANGED <<drafts, sessions, start>>
  BY <1>0, <1>1, <1>2, InverseStatement
<1>5. /\ \A y \in Rules \ {r} : y \in runtime' <=> y \in runtime
      /\ r \in new <=> sessions[s].op = "delete"
  BY <1>3, <1>4 DEF Effect, Inverse
<1> HIDE DEF new
<1>6. /\ pc'[a] \in {"setRolledBack", "setRollbackFailed"} /\ job'[a] = s
      /\ pc'[a] = "setRolledBack" => runtime' = new
      /\ \A b \in Actors \ {a} : pc'[b] = pc[b] /\ job'[b] = job[b]
  BY <1>4 DEF Goes
<1>7. TrialRows'
  BY <1>0, <1>4 DEF TrialRows, InOrder, SessionsOfDrafts, OfDraft, OnePerDraft,
                    OpenIsLast, Unsettled
<1>8. Handlers'
  <2>1. AsRead(a)'
    BY <1>3, <1>4, <1>6 DEF AsRead, DraftPC
  <2> QED BY <1>0, <1>4, <1>6, <2>1 DEF Handlers, AsRead, HasNoSession
<1>9. \A y : Before(y)' <=> Before(y)
  BY <1>4, BeforeStays
<1>10. \A b \in Actors : TryFits(b)'
  <2>1. TryFits(a)'
    BY <1>6 DEF TryFits
  <2>2. ASSUME NEW b \in Actors \ {a}
        PROVE  TryFits(b)'
    <3>1. CASE pc[b] \in {"resetDraft", "applyRuntime", "openSession"}
      <4>1. pc[b] \in DraftPC
        BY <3>1 DEF DraftPC
      <4>2. drafts[job[b]].rule \in Rules \ {r}
        BY <1>0, <1>3, <4>1, DraftInHand
      <4> QED BY <1>0, <1>4, <1>5, <1>6, <1>9, <4>2 DEF RulesFit, TryFits
    <3>2. CASE pc[b] \notin {"resetDraft", "applyRuntime", "openSession"}
      BY <1>6, <3>2 DEF TryFits
    <3> QED BY <3>1, <3>2
  <2> QED BY <2>1, <2>2
<1>11. \A t \in SessionIds : TrialFits(t)'
  <2>1. TrialFits(s)'
    <3>1. sessions[s].op = "delete" <=> Before(r)
      BY <1>0, <1>3 DEF RulesFit, TrialFits
    <3>2. CASE pc'[a] = "setRolledBack"
      <4>1. Doing("setRolledBack", s)'
        BY <1>6, <3>2 DEF Doing
      <4> QED BY <1>3, <1>4, <1>5, <1>6, <1>9, <3>1, <3>2, <4>1 DEF TrialFits
    <3>3. CASE pc'[a] = "setRollbackFailed"
      <4>1. Doing("setRollbackFailed", s)' /\ ~Doing("setRolledBack", s)'
        BY <1>3, <1>6, <3>3 DEF Doing, Deciding
      <4> QED BY <1>3, <1>4, <1>9, <3>1, <4>1 DEF TrialFits
    <3> QED BY <1>6, <3>2, <3>3
  <2>2. ASSUME NEW t \in SessionIds \ {s}, sessions[t].status = "pending"
        PROVE  TrialFits(t)'
    <3>1. sessions[t].rule \in Rules \ {r}
      BY <1>0, <1>3, <2>2 DEF Inv, TypeOK, TablesType, SessionRow, NoRow, Unsettled
    <3>2. /\ Doing("setRolledBack", t)' <=> Doing("setRolledBack", t)
          /\ Doing("setRollbackFailed", t)' <=> Doing("setRollbackFailed", t)
      BY <1>1, <1>6, <2>2, DoingSame
    <3> QED BY <1>0, <1>4, <1>5, <1>9, <3>1, <3>2 DEF RulesFit, TrialFits
  <2>3. \A t \in SessionIds \ {s} : sessions[t].status # "pending" => TrialFits(t)'
    BY <1>4 DEF TrialFits
  <2> QED BY <2>1, <2>2, <2>3
<1>12. \A y \in Rules : Clear(y)' => y # r /\ Clear(y)
  BY <1>3, <1>4 DEF Clear, Unsettled, HasNoSession
<1> QED BY <1>0, <1>5, <1>7, <1>8, <1>9, <1>10, <1>11, <1>12 DEF RulesFit

----------------------------------------------------------------------------
(* The invariant.                                                          *)

LEMMA CalmStart ==
    ASSUME Undisturbed, CalmInit
    PROVE  CalmInv
<1>0. Init /\ Inv
  BY InitInv DEF CalmInit
<1>1. /\ \A d \in Drafts : drafts[d] = NoRow
      /\ \A s \in SessionIds : sessions[s] = NoRow
      /\ \A a \in Actors : pc[a] = "idle" /\ job[a] = None
      /\ \A i \in ItemIds : items[i] = NoRow
      /\ \A r \in Rules : schedule[r] = "none"
      /\ timed = {} /\ dueRules = {} /\ start.runtime = runtime
  BY <1>0 DEF Init
<1>2. Workers \subseteq Actors
  BY DEF Actors, Web
<1>3. Calm
  BY <1>1, <1>2 DEF Calm, Exclusive, OneTrial, Meaningful, DraftPC
<1>4. NoLifetimes
  BY <1>1 DEF NoLifetimes, RecordPC
<1>5. TrialRows
  BY <1>1 DEF TrialRows, InOrder, SessionsOfDrafts, OnePerDraft, OpenIsLast
<1>6. Handlers
  BY <1>1 DEF Handlers, AsRead, DraftPC, Deciding, ConfirmPC
<1>7. RulesFit
  <2>1. \A s \in SessionIds : sessions[s].status = "none"
    BY <1>1 DEF NoRow
  <2>2. \A r \in Rules : Before(r) <=> r \in runtime
    BY <1>1, <2>1 DEF Before, Expected, ConfirmedOn
  <2> QED BY <1>1, <2>1, <2>2 DEF RulesFit, TryFits, TrialFits
<1> QED BY <1>0, <1>3, <1>4, <1>5, <1>6, <1>7 DEF CalmInv

LEMMA CalmStep ==
    ASSUME Undisturbed, CalmInv, [CalmNext]_vars
    PROVE  CalmInv' /\ [Next]_vars
<1>0. Inv /\ Calm /\ NoLifetimes /\ Handlers /\ [Next]_vars
  BY DEF CalmInv, CalmNext
<1>1. Inv'
  BY <1>0, StepInv
<1>2. Calm'
  BY <1>0 DEF CalmNext, Calm, Exclusive, OneTrial, Meaningful, vars, tables, firewall,
              control
<1>3. NoLifetimes'
  BY <1>0, NoLifetimesStep
<1>4. TrialRows' /\ Handlers' /\ RulesFit'
  BY <1>0, StepKind, StillFits, NewRowFits, WalkFits, CloseDraftFits, MarkApplyingFits,
     ResetDraftFits, ApplyRuntimeFits, OpenSessionFits, SetConfirmedFits, RunInverseFits,
     SetRolledBackFits, SetRollbackFailedFits
<1> QED BY <1>0, <1>1, <1>2, <1>3, <1>4 DEF CalmInv

THEOREM CalmInvHolds ==
    ASSUME Undisturbed
    PROVE  CalmSpec => []CalmInv
<1>1. CalmInit => CalmInv
  BY CalmStart
<1>2. CalmInv /\ [CalmNext]_vars => CalmInv'
  BY CalmStep
<1> QED BY <1>1, <1>2, PTL DEF CalmSpec

\* When nobody is in the middle of a handler, every trial of a rule is settled
\* and none of its drafts is stranded, the firewall holds what the confirmed
\* changes made of the rule and no trace of the others, however the trials of
\* different rules interleaved and whichever calls failed, before or after their
\* effect (begin_rule_apply, confirm_apply, rollback_apply).  CalmSpec keeps
\* two trials of one rule apart, and two handlers of one session.
THEOREM SettledTrialsFit ==
    ASSUME Undisturbed
    PROVE  CalmSpec => []RuntimeSettled
<1>1. ASSUME CalmInv, NEW r \in Rules, Settled(r), ~Stranded(r)
      PROVE  r \in runtime <=> Expected(r, start.runtime)
  <2>1. Clear(r)
    BY <1>1 DEF Settled, Stranded, Clear, Unsettled
  <2> QED BY <1>1, <2>1 DEF CalmInv, RulesFit, Before
<1>2. CalmInv => RuntimeSettled
  BY <1>1 DEF RuntimeSettled
<1> QED BY <1>2, CalmInvHolds, PTL

----------------------------------------------------------------------------
(* The refinement of DraftLifecycle: what each step does to the phases.    *)

LEMMA PhaseSame ==
    ASSUME NEW d \in Drafts, SessionOf(d)' = SessionOf(d),
           SessionOf(d) = {} =>
               /\ drafts'[d] = drafts[d]
               /\ Doing("openSession", d)' <=> Doing("openSession", d),
           \A s \in SessionOf(d) : SessionPhase(s)' = SessionPhase(s)
    PROVE  Phase(d)' = Phase(d)
<1>1. CASE SessionOf(d) = {}
  BY <1>1 DEF Phase, DraftPhase
<1>2. CASE SessionOf(d) # {}
  <2> DEFINE s == CHOOSE x \in SessionOf(d) : TRUE
  <2>1. s \in SessionOf(d)
    BY <1>2
  <2>2. Phase(d) = SessionPhase(s)
    BY <1>2 DEF Phase
  <2>3. Phase(d)' = SessionPhase(s)'
    BY <1>2 DEF Phase
  <2> QED BY <2>1, <2>2, <2>3
<1> QED BY <1>1, <1>2

\* A session that is not touched, and no rollback of it either.
LEMMA SessionPhaseSame ==
    ASSUME NEW s, sessions'[s].status = sessions[s].status,
           Doing("setRolledBack", s)' <=> Doing("setRolledBack", s),
           Doing("setRollbackFailed", s)' <=> Doing("setRollbackFailed", s)
    PROVE  SessionPhase(s)' = SessionPhase(s)
BY DEF SessionPhase

LEMMA NoSessionOf ==
    ASSUME NEW d
    PROVE  /\ HasNoSession(d) <=> SessionOf(d) = {}
           /\ HasNoSession(d)' <=> SessionOf(d)' = {}
BY DEF HasNoSession, SessionOf

LEMMA TheSessionOf ==
    ASSUME NEW s \in SessionIds, NEW d, sessions[s] # NoRow, sessions[s].draft = d,
           OnePerDraft
    PROVE  Phase(d) = SessionPhase(s)
<1>1. SessionOf(d) = {s}
  BY DEF OnePerDraft, SessionOf
<1> QED BY <1>1 DEF Phase

LEMMA TheSessionOfNext ==
    ASSUME NEW s \in SessionIds, NEW d, sessions'[s] # NoRow, sessions'[s].draft = d,
           OnePerDraft'
    PROVE  Phase(d)' = SessionPhase(s)'
<1>1. SessionOf(d)' = {s}
  BY DEF OnePerDraft, SessionOf
<1> QED BY <1>1 DEF Phase

\* Steps of the abstract machine.
LEMMA MapMove ==
    ASSUME NEW d \in Drafts, NEW from, NEW to, Phase(d) = from, Phase(d)' = to,
           \A e \in Drafts \ {d} : Phase(e)' = Phase(e)
    PROVE  Lifecycle!Move(d, from, to)
BY DEF Lifecycle!Move

LEMMA MapStutter ==
    ASSUME \A e \in Drafts : Phase(e)' = Phase(e),
           \A e \in Drafts : Change(e)' = Change(e),
           UNCHANGED runtime
    PROVE  UNCHANGED Lifecycle!vars
BY DEF Lifecycle!vars

\* What a change asks for is in the draft, whatever its status.
LEMMA ChangeSame ==
    ASSUME NEW d, NEW x, drafts[d] # NoRow, KeepDrafts(x, d)
    PROVE  \A e \in Drafts : Change(e)' = Change(e)
BY DEF KeepDrafts, Change

LEMMA ChangeStays ==
    ASSUME UNCHANGED drafts
    PROVE  \A e \in Drafts : Change(e)' = Change(e)
BY DEF Change

\* Only an actor's own row is moved by it.
LEMMA OthersSame ==
    ASSUME NEW a \in Actors, NEW i,
           \A b \in Actors \ {a} : pc'[b] = pc[b] /\ job'[b] = job[b],
           job[a] = i \/ pc[a] \notin {"openSession", "setRolledBack", "setRollbackFailed"},
           job'[a] = i \/ pc'[a] \notin {"openSession", "setRolledBack", "setRollbackFailed"}
    PROVE  \A j : j # i =>
               /\ Doing("openSession", j)' <=> Doing("openSession", j)
               /\ Doing("setRolledBack", j)' <=> Doing("setRolledBack", j)
               /\ Doing("setRollbackFailed", j)' <=> Doing("setRollbackFailed", j)
<1>1. ASSUME NEW j, j # i, NEW l \in {"openSession", "setRolledBack", "setRollbackFailed"}
      PROVE  Doing(l, j)' <=> Doing(l, j)
  <2>1. pc[a] # l \/ job[a] # j
    BY <1>1
  <2>2. pc'[a] # l \/ job'[a] # j
    BY <1>1
  <2> QED BY <2>1, <2>2, DoingSame
<1> QED BY <1>1

LEMMA NobodysSame ==
    ASSUME NEW a \in Actors,
           \A b \in Actors \ {a} : pc'[b] = pc[b] /\ job'[b] = job[b],
           pc[a] \notin {"openSession", "setRolledBack", "setRollbackFailed"},
           pc'[a] \notin {"openSession", "setRolledBack", "setRollbackFailed"}
    PROVE  \A j :
               /\ Doing("openSession", j)' <=> Doing("openSession", j)
               /\ Doing("setRolledBack", j)' <=> Doing("setRolledBack", j)
               /\ Doing("setRollbackFailed", j)' <=> Doing("setRollbackFailed", j)
<1>1. ASSUME NEW j, NEW l \in {"openSession", "setRolledBack", "setRollbackFailed"}
      PROVE  Doing(l, j)' <=> Doing(l, j)
  BY DoingSame
<1> QED BY <1>1

\* The phases of drafts whose rows and handlers are left alone.
LEMMA PhasesStay ==
    ASSUME NEW D \in SUBSET Drafts, UNCHANGED sessions,
           \A d \in D : SessionOf(d) = {} =>
               /\ drafts'[d] = drafts[d]
               /\ Doing("openSession", d)' <=> Doing("openSession", d),
           \A d \in D : \A s \in SessionOf(d) :
               /\ Doing("setRolledBack", s)' <=> Doing("setRolledBack", s)
               /\ Doing("setRollbackFailed", s)' <=> Doing("setRollbackFailed", s)
    PROVE  \A d \in D : Phase(d)' = Phase(d)
<1> SUFFICES ASSUME NEW d \in D
             PROVE  Phase(d)' = Phase(d)
  OBVIOUS
<1>1. SessionOf(d)' = SessionOf(d)
  BY DEF SessionOf
<1>2. \A s \in SessionOf(d) : SessionPhase(s)' = SessionPhase(s)
  BY SessionPhaseSame
<1> QED BY <1>1, <1>2, PhaseSame

LEMMA StillMaps ==
    ASSUME Still
    PROVE  UNCHANGED Lifecycle!vars
<1>1. \A l, j : Doing(l, j)' <=> Doing(l, j)
  BY DEF Still, Doing
<1>2. \A d \in Drafts : Phase(d)' = Phase(d)
  BY <1>1, PhasesStay DEF Still
<1> QED BY <1>2, ChangeStays, MapStutter DEF Still

LEMMA WalkMaps ==
    ASSUME NEW a \in Actors, Walk(a)
    PROVE  UNCHANGED Lifecycle!vars
<1>1. /\ pc[a] \notin {"openSession", "setRolledBack", "setRollbackFailed"}
      /\ pc'[a] \notin {"openSession", "setRolledBack", "setRollbackFailed"}
  BY DEF Walk, DraftPC, Deciding, ConfirmPC
<1>2. \A d \in Drafts : Phase(d)' = Phase(d)
  BY <1>1, NobodysSame, PhasesStay DEF Walk
<1> QED BY <1>2, ChangeStays, MapStutter DEF Walk

LEMMA NewRowMaps ==
    ASSUME CalmInv, Rules # {}, NEW d \in Drafts, NewRow(d)
    PROVE  Lifecycle!Create(d)
<1>0. Inv /\ UNCHANGED <<sessions, runtime, start>>
  BY DEF CalmInv, NewRow
<1>1. SessionOf(d) = {} /\ SessionOf(d)' = {}
  <2>1. \A s \in SessionIds : sessions[s] # NoRow => sessions[s].draft # d
    BY <1>0 DEF NewRow, Inv, RowsExist
  <2> QED BY <1>0, <2>1 DEF SessionOf
<1>2. Phase(d) = "none" /\ Phase(d)' = "draft"
  BY <1>1 DEF Phase, DraftPhase, NewRow, NoRow
<1>3. \A l \in {"openSession", "setRolledBack", "setRollbackFailed"} :
          \A j : Doing(l, j)' <=> Doing(l, j)
  BY DEF NewRow, RestorePC, Doing
<1>4. \A e \in Drafts \ {d} : Phase(e)' = Phase(e)
  BY <1>0, <1>3, PhasesStay DEF NewRow
<1>5. Lifecycle!Move(d, "none", "draft")
  BY <1>2, <1>4, MapMove
<1>6. Change(d)' \in [rule : Rules, present : BOOLEAN]
  BY DEF NewRow, Change, DraftRow, NoRow
<1>7. \A e \in Drafts \ {d} : Change(e)' = Change(e)
  BY DEF NewRow, Change
<1>8. \E r \in Rules, p \in BOOLEAN :
          [e \in Drafts |-> Change(e)]' =
              [[e \in Drafts |-> Change(e)] EXCEPT ![d] = [rule |-> r, present |-> p]]
  <2>1. PICK r \in Rules, p \in BOOLEAN : Change(d)' = [rule |-> r, present |-> p]
    BY <1>6
  <2> QED BY <1>7, <2>1
<1> QED BY <1>0, <1>5, <1>8 DEF Lifecycle!Create

LEMMA CloseDraftMaps ==
    ASSUME CalmInv, NEW a \in Actors, CloseDraft(a)
    PROVE  UNCHANGED Lifecycle!vars
<1>0. Inv /\ UNCHANGED <<sessions, runtime, start>>
  BY DEF CalmInv, CloseDraft
<1>1. PICK d \in Drafts : d = sessions[job[a]].draft
  BY <1>0, CloseStatement
<1>2. /\ job[a] \in SessionIds /\ sessions[job[a]] # NoRow
      /\ drafts[d] # NoRow /\ \E x \in {"confirmed", "rolled_back"} : KeepDrafts(x, d)
  BY <1>0, <1>1, CloseStatement
<1>3. SessionOf(d) # {}
  BY <1>1, <1>2 DEF SessionOf
<1>4. /\ pc[a] \notin {"openSession", "setRolledBack", "setRollbackFailed"}
      /\ pc'[a] \notin {"openSession", "setRolledBack", "setRollbackFailed"}
  BY DEF CloseDraft, DraftPC, Deciding, ConfirmPC
<1>5. \A e \in Drafts \ {d} : drafts'[e] = drafts[e]
  BY <1>2 DEF KeepDrafts
<1>6. \A e \in Drafts : Phase(e)' = Phase(e)
  BY <1>0, <1>3, <1>4, <1>5, NobodysSame, PhasesStay DEF CloseDraft
<1> QED BY <1>0, <1>2, <1>6, ChangeSame, MapStutter

LEMMA DraftStatementMaps ==
    ASSUME CalmInv, NEW w \in Workers, MarkApplying(w) \/ ResetDraft(w)
    PROVE  \E d \in Drafts : Lifecycle!Submit(d) \/ Lifecycle!SendBack(d)
<1>0. /\ Inv /\ Handlers /\ w \in Actors
      /\ pc[w] \in {"markApplying", "resetDraft"} /\ pc[w] \in DraftPC
  BY DEF CalmInv, Actors, Web, MarkApplying, ResetDraft, DraftPC
<1>1. PICK d \in Drafts : d = job[w]
  BY <1>0, DraftInHand
<1>2. /\ drafts[d] # NoRow
      /\ KeepDrafts(IF MarkApplying(w) THEN "applying" ELSE "pending", d)
      /\ pc'[w] \notin {"openSession", "setRolledBack", "setRollbackFailed"}
      /\ \A b \in Actors \ {w} : pc'[b] = pc[b] /\ job'[b] = job[b]
      /\ UNCHANGED <<sessions, runtime, start>>
  BY <1>0, <1>1, DraftStatement DEF Goes
<1>3. /\ HasNoSession(d)
      /\ drafts[d].status = IF MarkApplying(w) THEN "pending" ELSE "applying"
  BY <1>0, <1>1 DEF Handlers, AsRead, MarkApplying, ResetDraft
<1>4. SessionOf(d) = {} /\ SessionOf(d)' = {}
  BY <1>2, <1>3, NoSessionOf DEF SessionOf
<1>5. ~Doing("openSession", d) /\ ~Doing("openSession", d)'
  <2>1. \A b \in Actors \ {w} : pc[b] \in DraftPC \cup Deciding => job[b] # d
    BY <1>0, <1>1, OnlyTrial
  <2> QED BY <1>0, <1>2, <2>1 DEF Doing, DraftPC
<1>6. /\ drafts'[d] # NoRow
      /\ drafts'[d].status = IF MarkApplying(w) THEN "applying" ELSE "pending"
      /\ \A e \in Drafts \ {d} : drafts'[e] = drafts[e]
  BY <1>2 DEF KeepDrafts
<1>7. /\ Phase(d) = IF MarkApplying(w) THEN "draft" ELSE "applying"
      /\ Phase(d)' = IF MarkApplying(w) THEN "applying" ELSE "draft"
  BY <1>2, <1>3, <1>4, <1>5, <1>6 DEF Phase, DraftPhase
<1>8. \A e \in Drafts \ {d} : Phase(e)' = Phase(e)
  BY <1>0, <1>2, <1>6, NobodysSame, PhasesStay
<1>9. Lifecycle!Move(d, IF MarkApplying(w) THEN "draft" ELSE "applying",
                        IF MarkApplying(w) THEN "applying" ELSE "draft")
  BY <1>7, <1>8, MapMove
<1>10. [e \in Drafts |-> Change(e)]' = [e \in Drafts |-> Change(e)]
  BY <1>2, ChangeSame
<1> QED BY <1>2, <1>9, <1>10 DEF Lifecycle!Submit, Lifecycle!SendBack

LEMMA ApplyRuntimeMaps ==
    ASSUME CalmInv, NEW w \in Workers, ApplyRuntime(w)
    PROVE  \/ UNCHANGED Lifecycle!vars
           \/ \E d \in Drafts : Lifecycle!Try(d) \/ Lifecycle!Strand(d)
<1>0. /\ Inv /\ Handlers /\ RulesFit /\ w \in Actors
      /\ pc[w] = "applyRuntime" /\ pc[w] \in DraftPC
  BY DEF CalmInv, Actors, Web, ApplyRuntime, DraftPC
<1>1. PICK d \in Drafts : d = job[w]
  BY <1>0, DraftInHand
<1> DEFINE new == Effect(runtime, TrialOp(d), drafts[d].rule)
<1>2. /\ drafts[d] # NoRow
      /\ \/ Goes(w, "openSession", d) /\ runtime' = new
         \/ Goes(w, "idle", None) /\ runtime' \in {runtime, new}
      /\ UNCHANGED <<drafts, sessions, start>>
  BY <1>0, <1>1, ApplyStatement
<1>3. /\ HasNoSession(d) /\ drafts[d].status = "applying"
      /\ drafts[d].op = "delete" <=> drafts[d].rule \in runtime
  BY <1>0, <1>1 DEF Handlers, AsRead, RulesFit, TryFits
<1>4. SessionOf(d) = {} /\ SessionOf(d)' = {}
  BY <1>2, <1>3 DEF HasNoSession, SessionOf
<1>5. \A b \in Actors \ {w} : pc[b] \in DraftPC \cup Deciding => job[b] # d
  BY <1>0, <1>1, OnlyTrial
<1>6. Phase(d) = "applying"
  <2>1. ~Doing("openSession", d)
    BY <1>0, <1>5 DEF Doing, DraftPC
  <2> QED BY <1>2, <1>3, <1>4, <2>1 DEF Phase, DraftPhase
<1>7. /\ Change(d).rule = drafts[d].rule
      /\ Change(d).present = (drafts[d].op # "delete")
      /\ [e \in Drafts |-> Change(e)][d] = Change(d)
  BY <1>2 DEF Change
<1>8. new = Lifecycle!With(Change(d).rule, Change(d).present)
  BY <1>7 DEF Lifecycle!With, Effect, TrialOp
<1>9. [e \in Drafts |-> Change(e)]' = [e \in Drafts |-> Change(e)]
  BY <1>2, ChangeStays
<1> HIDE DEF new
<1>10. CASE Goes(w, "openSession", d) /\ runtime' = new
  <2>1. Doing("openSession", d)'
    BY <1>0, <1>10 DEF Goes, Doing
  <2>2. Phase(d)' = "trial"
    BY <1>2, <1>3, <1>4, <2>1 DEF Phase, DraftPhase
  <2>3. \A e \in Drafts \ {d} : Phase(e)' = Phase(e)
    <3>1. \A j : j # d => (Doing("openSession", j)' <=> Doing("openSession", j))
      BY <1>0, <1>10, OthersSame DEF Goes
    <3>2. \A j : /\ Doing("setRolledBack", j)' <=> Doing("setRolledBack", j)
                 /\ Doing("setRollbackFailed", j)' <=> Doing("setRollbackFailed", j)
      BY <1>0, <1>10, DoingSame DEF Goes
    <3> QED BY <1>2, <3>1, <3>2, PhasesStay
  <2>4. Lifecycle!Move(d, "applying", "trial")
    BY <1>6, <2>2, <2>3, MapMove
  <2>5. (Change(d).rule \in runtime) # Change(d).present
    BY <1>3, <1>7
  <2> QED BY <1>7, <1>8, <1>9, <1>10, <2>4, <2>5 DEF Lifecycle!Try
<1>11. CASE Goes(w, "idle", None) /\ runtime' \in {runtime, new}
  <2>1. \A e \in Drafts : Phase(e)' = Phase(e)
    BY <1>0, <1>2, <1>11, NobodysSame, PhasesStay DEF Goes
  <2>2. CASE UNCHANGED runtime
    BY <1>2, <2>1, <2>2, ChangeStays, MapStutter
  <2>3. CASE runtime' = new
    <3>1. [e \in Drafts |-> Phase(e)]' = [e \in Drafts |-> Phase(e)]
      BY <2>1
    <3> QED BY <1>6, <1>7, <1>8, <1>9, <2>3, <3>1 DEF Lifecycle!Strand
  <2> QED BY <1>11, <2>2, <2>3
<1> QED BY <1>2, <1>10, <1>11

LEMMA OpenSessionMaps ==
    ASSUME CalmInv, OnePerDraft', NEW w \in Workers, OpenSession(w)
    PROVE  UNCHANGED Lifecycle!vars
<1>0. /\ Inv /\ Handlers /\ w \in Actors
      /\ pc[w] = "openSession" /\ pc[w] \in DraftPC
  BY DEF CalmInv, Actors, Web, OpenSession, DraftPC
<1>1. PICK d \in Drafts : d = job[w]
  BY <1>0, DraftInHand
<1>2. /\ drafts[d] # NoRow /\ Goes(w, "idle", None)
      /\ UNCHANGED <<drafts, runtime, start>>
  BY <1>0, <1>1, OpenStatement
<1>3. PICK s \in SessionIds : Opens(w, s)
  BY <1>0, OpenStatement
<1>4. /\ sessions[s] = NoRow /\ sessions'[s] # NoRow
      /\ sessions'[s].status = "pending" /\ sessions'[s].draft = d
      /\ \A t \in SessionIds \ {s} : sessions'[t] = sessions[t]
  BY <1>1, <1>3 DEF Opens, FreshSession
<1>5. HasNoSession(d) /\ drafts[d].status = "applying"
  BY <1>0, <1>1 DEF Handlers, AsRead
<1>6. \A j : /\ j # d => (Doing("openSession", j)' <=> Doing("openSession", j))
             /\ Doing("setRolledBack", j)' <=> Doing("setRolledBack", j)
             /\ Doing("setRollbackFailed", j)' <=> Doing("setRollbackFailed", j)
  BY <1>0, <1>1, <1>2, OthersSame, DoingSame DEF Goes
<1>7. Phase(d) = "trial"
  BY <1>0, <1>1, <1>2, <1>5, NoSessionOf DEF Phase, DraftPhase, Doing
<1>8. Phase(d)' = "trial"
  <2>1. ~Doing("setRolledBack", s) /\ ~Doing("setRollbackFailed", s)
    <3>1. \A b \in Actors : pc[b] \in RollbackPC => sessions[job[b]] # NoRow
      BY <1>0, SessionInHand
    <3> QED BY <1>4, <3>1 DEF Doing, RollbackPC
  <2>2. SessionPhase(s)' = "trial"
    BY <1>4, <1>6, <2>1 DEF SessionPhase
  <2> QED BY <1>4, <2>2, TheSessionOfNext
<1>9. ASSUME NEW e \in Drafts \ {d}
      PROVE  Phase(e)' = Phase(e)
  <2>1. SessionOf(e)' = SessionOf(e) /\ s \notin SessionOf(e)
    BY <1>4 DEF SessionOf
  <2>2. \A t \in SessionOf(e) : sessions'[t] = sessions[t]
    BY <1>4, <2>1 DEF SessionOf
  <2>3. \A t \in SessionOf(e) : SessionPhase(t)' = SessionPhase(t)
    BY <1>6, <2>2, SessionPhaseSame
  <2> QED BY <1>2, <1>6, <2>1, <2>3, PhaseSame
<1> QED BY <1>2, <1>7, <1>8, <1>9, ChangeStays, MapStutter

\* What a session's step does to the phase of its draft.
LEMMA HandMaps ==
    ASSUME CalmInv, NEW a \in Actors, pc[a] \in Deciding
    PROVE  LET s == job[a]
               d == sessions[job[a]].draft
           IN
           /\ d \in Drafts /\ drafts[d] # NoRow
           /\ Change(d) = [rule |-> sessions[s].rule, present |-> sessions[s].op # "delete"]
           /\ Phase(d) = CASE pc[a] = "setRolledBack" -> "rolled_back"
                           [] pc[a] = "setRollbackFailed" -> "rollback_failed"
                           [] OTHER -> "trial"
<1> DEFINE s == job[a]
           d == sessions[job[a]].draft
<1>0. Inv /\ TrialRows
  BY DEF CalmInv
<1>1. /\ s \in SessionIds /\ sessions[s] # NoRow /\ sessions[s].status = "pending"
      /\ \A b \in Actors \ {a} : pc[b] \in DraftPC \cup Deciding => job[b] # s
  BY OnlyHand
<1>2. pc[a] \in ConfirmPC \cup RollbackPC
  BY DEF Deciding, ConfirmPC, RollbackPC
<1>3. d \in Drafts /\ drafts[d] # NoRow
  BY <1>0, <1>2, SessionInHand
<1>4. /\ sessions[s].rule = drafts[d].rule
      /\ sessions[s].op = "delete" <=> drafts[d].op = "delete"
  BY <1>0, <1>1 DEF TrialRows, SessionsOfDrafts, OfDraft
<1>5. Change(d) = [rule |-> sessions[s].rule, present |-> sessions[s].op # "delete"]
  BY <1>3, <1>4 DEF Change
<1>6. Phase(d) = SessionPhase(s)
  BY <1>0, <1>1, TheSessionOf DEF TrialRows
<1>7. /\ Doing("setRolledBack", s) <=> pc[a] = "setRolledBack"
      /\ Doing("setRollbackFailed", s) <=> pc[a] = "setRollbackFailed"
  BY <1>1 DEF Doing, Deciding
<1>8. SessionPhase(s) = CASE pc[a] = "setRolledBack" -> "rolled_back"
                          [] pc[a] = "setRollbackFailed" -> "rollback_failed"
                          [] OTHER -> "trial"
  BY <1>1, <1>7 DEF SessionPhase
<1> QED BY <1>3, <1>5, <1>6, <1>8

LEMMA SessionStatementMaps ==
    ASSUME CalmInv, OnePerDraft', NEW a \in Actors,
           SetConfirmed(a) \/ SetRolledBack(a) \/ SetRollbackFailed(a)
    PROVE  \/ UNCHANGED Lifecycle!vars
           \/ \E d \in Drafts : Lifecycle!Confirm(d)
<1>0. /\ Inv /\ pc[a] \in {"setConfirmed", "setRolledBack", "setRollbackFailed"}
      /\ pc[a] \in Deciding
  BY DEF CalmInv, SetConfirmed, SetRolledBack, SetRollbackFailed, Deciding, ConfirmPC
<1> DEFINE x == CASE pc[a] = "setConfirmed" -> "confirmed"
                  [] pc[a] = "setRolledBack" -> "rolled_back"
                  [] OTHER -> "rollback_failed"
<1>1. KeepSessions(x, job[a]) /\ Leaves(a) /\ UNCHANGED <<drafts, runtime, start>>
  BY <1>0, SessionStatement DEF SetConfirmed, SetRolledBack, SetRollbackFailed
<1>2. PICK s \in SessionIds : s = job[a]
  BY <1>0, OnlyHand
<1>3. PICK d \in Drafts : d = sessions[job[a]].draft
  BY <1>0, HandMaps
<1>4. /\ sessions[s] # NoRow /\ sessions[s].draft = d
      /\ Phase(d) = IF pc[a] = "setConfirmed" THEN "trial" ELSE x
  BY <1>0, <1>2, <1>3, OnlyHand, HandMaps
<1>5. /\ sessions'[s] # NoRow /\ sessions'[s].status = x /\ sessions'[s].draft = d
      /\ \A t \in SessionIds \ {s} : sessions'[t] = sessions[t]
  BY <1>1, <1>2, <1>4 DEF KeepSessions
<1>6. Phase(d)' = x
  <2>1. x # "pending"
    OBVIOUS
  <2>2. SessionPhase(s)' = x
    BY <1>5, <2>1 DEF SessionPhase
  <2> QED BY <1>5, <2>2, TheSessionOfNext
<1>7. ASSUME NEW e \in Drafts \ {d}
      PROVE  Phase(e)' = Phase(e)
  <2>1. \A j : /\ Doing("openSession", j)' <=> Doing("openSession", j)
               /\ j # s => /\ Doing("setRolledBack", j)' <=> Doing("setRolledBack", j)
                           /\ Doing("setRollbackFailed", j)' <=> Doing("setRollbackFailed", j)
    <3>1. /\ pc[a] # "openSession"
          /\ pc'[a] \notin {"openSession", "setRolledBack", "setRollbackFailed"}
      BY <1>0, <1>1 DEF Leaves, DraftPC, Deciding
    <3> QED BY <1>1, <1>2, <3>1, OthersSame, DoingSame DEF Leaves
  <2>2. SessionOf(e)' = SessionOf(e) /\ s \notin SessionOf(e)
    BY <1>4, <1>5 DEF SessionOf
  <2>3. \A t \in SessionOf(e) : sessions'[t] = sessions[t]
    BY <1>5, <2>2 DEF SessionOf
  <2>4. \A t \in SessionOf(e) : SessionPhase(t)' = SessionPhase(t)
    BY <2>1, <2>2, <2>3, SessionPhaseSame
  <2> QED BY <1>1, <2>1, <2>2, <2>4, PhaseSame
<1>8. CASE pc[a] = "setConfirmed"
  <2>1. Lifecycle!Move(d, "trial", "confirmed")
    BY <1>4, <1>6, <1>7, <1>8, MapMove
  <2>2. [e \in Drafts |-> Change(e)]' = [e \in Drafts |-> Change(e)]
    BY <1>1, ChangeStays
  <2> QED BY <1>1, <2>1, <2>2 DEF Lifecycle!Confirm
<1>9. CASE pc[a] # "setConfirmed"
  <2>1. \A e \in Drafts : Phase(e)' = Phase(e)
    BY <1>4, <1>6, <1>7, <1>9
  <2> QED BY <1>1, <2>1, ChangeStays, MapStutter
<1> QED BY <1>8, <1>9

LEMMA RunInverseMaps ==
    ASSUME CalmInv, NEW a \in Actors, RunInverse(a)
    PROVE  \E d \in Drafts : Lifecycle!RollBack(d) \/ Lifecycle!FailRollBack(d)
<1>0. /\ Inv /\ TrialRows /\ pc[a] = "inverse" /\ pc[a] \in Deciding
  BY DEF CalmInv, RunInverse, Deciding
<1>1. PICK s \in SessionIds : s = job[a]
  BY <1>0, OnlyHand
<1>2. PICK d \in Drafts : d = sessions[job[a]].draft
  BY <1>0, HandMaps
<1>3. /\ sessions[s] # NoRow /\ sessions[s].status = "pending" /\ sessions[s].draft = d
      /\ sessions[s].op \in {"add", "delete"}
      /\ \A b \in Actors \ {a} : pc[b] \in DraftPC \cup Deciding => job[b] # s
  BY <1>0, <1>1, <1>2, OnlyHand
<1>4. /\ Phase(d) = "trial"
      /\ Change(d) = [rule |-> sessions[s].rule, present |-> sessions[s].op # "delete"]
  BY <1>0, <1>1, <1>2, HandMaps
<1> DEFINE new == Effect(runtime, Inverse(sessions[s].op), sessions[s].rule)
<1>5. /\ \/ Goes(a, "setRolledBack", s) /\ runtime' = new
         \/ Goes(a, "setRollbackFailed", s) /\ runtime' \in {runtime, new}
      /\ UNCHANGED <<drafts, sessions, start>>
  BY <1>0, <1>1, InverseStatement
<1>6. /\ [e \in Drafts |-> Change(e)][d] = Change(d)
      /\ new = Lifecycle!With(Change(d).rule, ~Change(d).present)
  <2>1. /\ Change(d).rule = sessions[s].rule
        /\ Change(d).present = (sessions[s].op # "delete")
    BY <1>4
  <2>2. new = Lifecycle!With(sessions[s].rule, sessions[s].op = "delete")
    BY <1>3 DEF Lifecycle!With, Effect, Inverse
  <2>3. (~Change(d).present) = (sessions[s].op = "delete")
    BY <2>1
  <2> QED BY <2>1, <2>2, <2>3
<1>7. [e \in Drafts |-> Change(e)]' = [e \in Drafts |-> Change(e)]
  BY <1>5, ChangeStays
<1> HIDE DEF new
<1>8. /\ pc'[a] \in {"setRolledBack", "setRollbackFailed"} /\ job'[a] = s
      /\ \A b \in Actors \ {a} : pc'[b] = pc[b] /\ job'[b] = job[b]
  BY <1>5 DEF Goes
<1>9. Phase(d)' = IF pc'[a] = "setRolledBack" THEN "rolled_back" ELSE "rollback_failed"
  <2>1. /\ Doing("setRolledBack", s)' <=> pc'[a] = "setRolledBack"
        /\ Doing("setRollbackFailed", s)' <=> pc'[a] = "setRollbackFailed"
    BY <1>3, <1>8 DEF Doing, Deciding
  <2>2. SessionPhase(s)' =
            IF pc'[a] = "setRolledBack" THEN "rolled_back" ELSE "rollback_failed"
    BY <1>3, <1>5, <1>8, <2>1 DEF SessionPhase
  <2>3. OnePerDraft'
    BY <1>0, <1>5 DEF TrialRows, OnePerDraft
  <2> QED BY <1>3, <1>5, <2>2, <2>3, TheSessionOfNext
<1>10. \A e \in Drafts \ {d} : Phase(e)' = Phase(e)
  <2>1. \A j : /\ Doing("openSession", j)' <=> Doing("openSession", j)
               /\ j # s => /\ Doing("setRolledBack", j)' <=> Doing("setRolledBack", j)
                           /\ Doing("setRollbackFailed", j)' <=> Doing("setRollbackFailed", j)
    BY <1>0, <1>1, <1>8, OthersSame, DoingSame
  <2>2. \A e \in Drafts \ {d} : s \notin SessionOf(e)
    BY <1>3 DEF SessionOf
  <2> QED BY <1>5, <2>1, <2>2, PhasesStay
<1>11. CASE pc'[a] = "setRolledBack"
  <2>1. runtime' = new
    BY <1>5, <1>11 DEF Goes
  <2>2. Lifecycle!Move(d, "trial", "rolled_back")
    BY <1>4, <1>9, <1>10, <1>11, MapMove
  <2> QED BY <1>6, <1>7, <2>1, <2>2 DEF Lifecycle!RollBack
<1>12. CASE pc'[a] = "setRollbackFailed"
  <2>1. Lifecycle!Move(d, "trial", "rollback_failed")
    BY <1>4, <1>9, <1>10, <1>12, MapMove
  <2>2. runtime' \in {runtime, new}
    BY <1>5
  <2> QED BY <1>6, <1>7, <2>1, <2>2 DEF Lifecycle!FailRollBack
<1> QED BY <1>8, <1>11, <1>12

LEMMA StepMaps ==
    ASSUME Undisturbed, Rules # {}, CalmInv, [CalmNext]_vars
    PROVE  Lifecycle!Next \/ UNCHANGED Lifecycle!vars
<1>0. Inv /\ NoLifetimes /\ Handlers
  BY DEF CalmInv
<1>1. [Next]_vars /\ OnePerDraft'
  BY CalmStep DEF CalmInv, TrialRows
<1>2. Workers \subseteq Actors
  BY DEF Actors, Web
<1> QED BY <1>0, <1>1, <1>2, StepKind, StillMaps, NewRowMaps, WalkMaps, CloseDraftMaps,
           DraftStatementMaps, ApplyRuntimeMaps, OpenSessionMaps, SessionStatementMaps,
           RunInverseMaps
        DEF Lifecycle!Next

LEMMA StartMaps ==
    ASSUME Rules # {}, CalmInit
    PROVE  Lifecycle!Init
<1>1. /\ \A d \in Drafts : drafts[d] = NoRow
      /\ \A s \in SessionIds : sessions[s] = NoRow
      /\ runtime \in SUBSET Rules
  BY DEF CalmInit, Init
<1>2. \A d \in Drafts : Phase(d) = "none"
  BY <1>1 DEF Phase, DraftPhase, SessionOf
<1>3. \A d \in Drafts : Change(d) \in [rule : Rules, present : BOOLEAN]
  BY <1>1 DEF Change, AnyChange
<1> QED BY <1>1, <1>2, <1>3 DEF Lifecycle!Init

\* The interleaved, failing handlers carry out the documented state machine:
\* every step of theirs is a step of the trial of one draft or none, and no
\* change of the firewall happens but in such a step, whichever calls fail and
\* whichever steps interleave that CalmSpec lets: those of different trials
\* (docs/api.md; begin_rule_apply, confirm_apply, rollback_apply).
THEOREM LifecycleImplemented ==
    ASSUME Undisturbed, Rules # {}
    PROVE  CalmSpec => ImplementsLifecycle
<1>1. CalmInit => Lifecycle!Init
  BY StartMaps
<1>2. CalmInv /\ [CalmNext]_vars => [Lifecycle!Next]_(Lifecycle!vars)
  BY StepMaps
<1> QED BY <1>1, <1>2, CalmInvHolds, PTL DEF CalmSpec, ImplementsLifecycle, Lifecycle!Spec

----------------------------------------------------------------------------
(* Confirmed changes.                                                      *)

\* Only a confirmation changes what the confirmed changes make of a rule.
LEMMA ConfirmedStays ==
    ASSUME Undisturbed, CalmInv, [Next]_vars, NEW r
    PROVE  \/ ConfirmedOn(r)' = ConfirmedOn(r) /\ (Before(r)' <=> Before(r))
           \/ \E w \in Workers : SetConfirmed(w)
<1>0. Inv /\ NoLifetimes /\ Handlers
  BY DEF CalmInv
<1> DEFINE Goal == ConfirmedOn(r)' = ConfirmedOn(r) /\ (Before(r)' <=> Before(r))
<1>1. UNCHANGED <<sessions, start>> => Goal
  BY BeforeStays DEF ConfirmedOn
<1>2. ASSUME NEW w \in Workers, OpenSession(w)
      PROVE  Goal
  BY <1>0, <1>2, OpenStatement, BeforeOpened
<1>3. ASSUME NEW a \in Actors, SetRolledBack(a) \/ SetRollbackFailed(a)
      PROVE  Goal
  <2>1. pc[a] \in Deciding /\ pc[a] # "setConfirmed"
    BY <1>3 DEF SetRolledBack, SetRollbackFailed, Deciding
  <2>2. ~SetConfirmed(a)
    BY <2>1 DEF SetConfirmed
  <2>3. /\ UNCHANGED start
        /\ KeepSessions("rolled_back", job[a]) \/ KeepSessions("rollback_failed", job[a])
    BY <1>0, <1>3, <2>2, SessionStatement
  <2> QED BY <2>1, <2>3, BeforeKept
<1>4. ASSUME NEW w \in Workers, MarkApplying(w) \/ ResetDraft(w) \/ ApplyRuntime(w)
      PROVE  UNCHANGED <<sessions, start>>
  BY <1>4 DEF MarkApplying, ResetDraft, ApplyRuntime, tables, world
<1>5. ASSUME NEW a \in Actors, RunInverse(a)
      PROVE  UNCHANGED <<sessions, start>>
  BY <1>5 DEF RunInverse, tables
<1> HIDE DEF Goal
<1> QED BY <1>0, <1>1, <1>2, <1>3, <1>4, <1>5, StepKind
        DEF Still, NewRow, Walk, CloseDraft, Goal

LEMMA HasLastStep ==
    ASSUME Undisturbed, CalmInv, HasLast, [Next]_vars
    PROVE  HasLast'
<1> SUFFICES ASSUME NEW r \in Rules, ConfirmedOn(r)' # {}
             PROVE  \E s \in ConfirmedOn(r)' : \A t \in ConfirmedOn(r)' : t =< s
  BY DEF HasLast
<1>1. CASE ConfirmedOn(r)' = ConfirmedOn(r)
  BY <1>1 DEF HasLast
<1>2. ASSUME NEW w \in Workers, SetConfirmed(w)
      PROVE  \E s \in ConfirmedOn(r)' : \A t \in ConfirmedOn(r)' : t =< s
  BY <1>1, <1>2, BeforeConfirmed
<1> QED BY <1>1, <1>2, ConfirmedStays

----------------------------------------------------------------------------
(* The permanent rules.                                                    *)

PersistPC == Persisted \cup {"undoPersist"}

\* Nobody comes to, leaves or moves among the steps after the permanent call.
Apart ==
    /\ UNCHANGED <<permanent, start>>
    /\ faults' = faults \/ faults < MaxFaults
    /\ \A a \in Actors : pc[a] \in PersistPC \/ pc'[a] \in PersistPC =>
           pc'[a] = pc[a] /\ job'[a] = job[a]

LEMMA LeavesApart ==
    ASSUME NEW a \in Actors, Leaves(a), pc[a] \notin PersistPC,
           UNCHANGED <<permanent, start, faults>>
    PROVE  Apart
<1>1. pc'[a] \notin PersistPC
  BY DEF Leaves, Deciding, ConfirmPC, PersistPC, Persisted
<1> QED BY <1>1 DEF Leaves, Apart

LEMMA GoesApart ==
    ASSUME NEW a \in Actors, NEW label, NEW id, Goes(a, label, id),
           pc[a] \notin PersistPC, label \notin PersistPC,
           UNCHANGED <<permanent, start>>, faults' = faults \/ faults < MaxFaults
    PROVE  Apart
BY DEF Goes, Apart

LEMMA CallFaults ==
    ASSUME Inv, NEW op, NEW r, NEW temp, NEW res \in Results(runtime, op, r),
           RuntimeCall(op, r, temp, res)
    PROVE  UNCHANGED permanent /\ (faults' = faults \/ faults < MaxFaults)
<1>1. faults \in Nat
  BY BoundAssumption DEF Inv, TypeOK, WorldType
<1>2. res.fault = 0 \/ faults < MaxFaults
  BY DEF Results, Faulty
<1> QED BY <1>1, <1>2 DEF RuntimeCall

LEMMA RequestApart ==
    ASSUME Backend = "firewalld", Inv, NoLifetimes, NEW w \in Workers, Request(w)
    PROVE  Apart
<1>0. /\ w \in Actors /\ ControlType
      /\ UNCHANGED <<permanent, start, faults>> /\ pc[w] = "idle"
  BY DEF Actors, Web, Inv, TypeOK, Request, ReadDraft, ReadForConfirm, RequestRollback,
         ReadItem, firewall, world
<1>1. ASSUME NEW s \in SessionIds, ReadForConfirm(w, s)
      PROVE  \E l \in {"readSession", "persist"} : Take(w, s, l)
  BY <1>1 DEF ReadForConfirm, NoLifetimes, NoRow, FirstStep
<1>2. \E id : \E l \in {"readSession", "persist", "markApplying", "listRules"} : Take(w, id, l)
  BY <1>1 DEF Request, ReadDraft, RequestRollback, ReadItem
<1>3. \E id : \E l \in {"readSession", "persist", "markApplying", "listRules"} : Goes(w, l, id)
  BY <1>0, <1>2, TakeGoes
<1> QED BY <1>0, <1>3, GoesApart DEF PersistPC, Persisted

LEMMA WorkerApart ==
    ASSUME Inv, NoLifetimes, NEW w \in Workers, WorkerStep(w)
    PROVE  \/ Apart
           \/ Persist(w) \/ UndoPersist(w) \/ AddRecycleItem(w) \/ MarkRestored(w)
           \/ SetConfirmed(w)
<1>0. w \in Actors /\ ControlType
  BY DEF Actors, Web, Inv, TypeOK
<1>1. CASE MarkApplying(w) \/ ResetDraft(w)
  <2>1. /\ UNCHANGED <<permanent, start, faults>>
        /\ pc[w] \in {"markApplying", "resetDraft"}
    BY <1>1 DEF MarkApplying, ResetDraft, firewall, world
  <2>2. \E l \in {"applyRuntime", "resetDraft", "idle"} : \E id : Goes(w, l, id)
    BY <1>0, <1>1, DraftStatement
  <2> QED BY <1>0, <2>1, <2>2, GoesApart DEF PersistPC, Persisted
<1>2. CASE ApplyRuntime(w)
  <2>1. UNCHANGED permanent /\ (faults' = faults \/ faults < MaxFaults)
    BY <1>2, CallFaults DEF ApplyRuntime
  <2>2. UNCHANGED start /\ pc[w] = "applyRuntime"
    BY <1>2 DEF ApplyRuntime
  <2>3. \E l \in {"openSession", "idle"} : \E id : Goes(w, l, id)
    BY <1>0, <1>2, ApplyStatement
  <2> QED BY <1>0, <2>1, <2>2, <2>3, GoesApart DEF PersistPC, Persisted
<1>3. CASE OpenSession(w) \/ DraftConfirmed(w)
  <2>1. /\ UNCHANGED <<permanent, start, faults>>
        /\ pc[w] \in {"openSession", "draftConfirmed"} /\ Return(w)
    BY <1>3 DEF OpenSession, DraftConfirmed, firewall, world
  <2> QED BY <1>0, <2>1, ReturnLeaves, LeavesApart DEF PersistPC, Persisted
<1>4. ~ScheduleExpiry(w)
  BY <1>0 DEF ScheduleExpiry, NoLifetimes
<1>5. CASE ListRules(w) \/ MarkFound(w)
  <2>1. /\ UNCHANGED <<permanent, start, faults>>
        /\ pc[w] \in {"listRules", "markFound"}
        /\ Return(w) \/ Goto(w, "markFound")
    BY <1>5 DEF ListRules, MarkFound, firewall, world
  <2>2. \E l \in {"idle", "markFound"} : \E id : Goes(w, l, id)
    BY <1>0, <2>1, ReturnGoes, GotoGoes
  <2> QED BY <1>0, <2>1, <2>2, GoesApart DEF PersistPC, Persisted
<1> QED BY <1>1, <1>2, <1>3, <1>4, <1>5 DEF WorkerStep

LEMMA RollbackApart ==
    ASSUME Inv, NEW a \in Actors, RollbackStep(a)
    PROVE  Apart
<1>0. ControlType
  BY DEF Inv, TypeOK
<1>1. CASE ReadSession(a) \/ DraftRolledBack(a)
  <2>1. /\ UNCHANGED <<permanent, start, faults>>
        /\ pc[a] \in {"readSession", "draftRolledBack"}
        /\ AfterRollback(a) \/ Goto(a, "inverse")
    BY <1>1 DEF ReadSession, DraftRolledBack, firewall, world
  <2>2. pc[a] \notin PersistPC
    BY <2>1 DEF PersistPC, Persisted
  <2>3. CASE AfterRollback(a)
    BY <1>0, <2>1, <2>2, <2>3, AfterRollbackLeaves, LeavesApart
  <2>4. CASE Goto(a, "inverse")
    BY <1>0, <2>1, <2>2, <2>4, GotoGoes, GoesApart DEF PersistPC, Persisted
  <2> QED BY <2>1, <2>3, <2>4
<1>2. CASE RunInverse(a)
  <2>1. UNCHANGED permanent /\ (faults' = faults \/ faults < MaxFaults)
    BY <1>2, CallFaults DEF RunInverse
  <2>2. UNCHANGED start /\ pc[a] = "inverse"
    BY <1>2 DEF RunInverse
  <2>3. \E l \in {"setRolledBack", "setRollbackFailed"} : \E id : Goes(a, l, id)
    BY <1>0, <1>2, InverseStatement
  <2> QED BY <1>0, <2>1, <2>2, <2>3, GoesApart DEF PersistPC, Persisted
<1>3. CASE SetRolledBack(a) \/ SetRollbackFailed(a)
  <2>1. /\ UNCHANGED <<permanent, start, faults>>
        /\ pc[a] \in {"setRolledBack", "setRollbackFailed"}
    BY <1>3 DEF SetRolledBack, SetRollbackFailed, firewall, world
  <2>2. Leaves(a)
    BY <1>3, SessionStatement
  <2> QED BY <2>1, <2>2, LeavesApart DEF PersistPC, Persisted
<1> QED BY <1>1, <1>2, <1>3 DEF RollbackStep

LEMMA PassApart ==
    ASSUME Inv, NoLifetimes, WatchdogStep \/ EmergencyRollback
    PROVE  Apart
<1>0. ControlType /\ Watchdog \in Actors /\ Cli \in Actors
  BY DEF Inv, TypeOK, Actors, Web
<1>1. CASE RollbackExpired
  <2>1. Leaves(Watchdog)
    BY <1>0, <1>1, ProceedLeaves DEF RollbackExpired
  <2> QED BY <1>0, <1>1, <2>1, LeavesApart
          DEF RollbackExpired, firewall, world, PersistPC, Persisted
<1>2. CASE ListDue
  <2>1. Leaves(Watchdog)
    BY <1>0, <1>2, NextDueLeaves DEF ListDue
  <2> QED BY <1>0, <1>2, <2>1, LeavesApart
          DEF ListDue, firewall, world, PersistPC, Persisted
<1>3. ~ExpireRule /\ ~SetExpired /\ ~SetExpirationFailed
  BY <1>0 DEF NoLifetimes, ExpireRule, SetExpired, SetExpirationFailed, SetExpiry,
              RecordPC
<1>4. CASE EmergencyRollback
  <2>1. Leaves(Cli)
    BY <1>0, <1>4, ProceedLeaves DEF EmergencyRollback
  <2> QED BY <1>0, <1>4, <2>1, LeavesApart
          DEF EmergencyRollback, firewall, PersistPC, Persisted
<1> QED BY <1>1, <1>2, <1>3, <1>4 DEF WatchdogStep

LEMMA PermanentKind ==
    ASSUME Undisturbed, Backend = "firewalld", Inv, NoLifetimes, [Next]_vars
    PROVE  \/ Apart
           \/ \E w \in Workers : \/ Persist(w) \/ UndoPersist(w) \/ AddRecycleItem(w)
                                 \/ MarkRestored(w) \/ SetConfirmed(w)
<1>1. DraftRequest => Apart
  BY DEF DraftRequest, CreateDraft, Apart, firewall, control, world
<1>2. ASSUME NEW i \in ItemIds, PurgeItem(i)
      PROVE  Apart
  BY <1>2 DEF PurgeItem, Apart, firewall, control, world
<1>3. ASSUME Environment
      PROVE  Apart
  <2>1. ASSUME NEW r \in Rules, ScheduleDue(r) \/ TimerEnds(r)
        PROVE  FALSE
    BY <2>1 DEF ScheduleDue, TimerEnds, NoLifetimes
  <2>2. ASSUME NEW s \in SessionIds, Deadline(s)
        PROVE  Apart
    BY <2>2 DEF Deadline, Apart, firewall, control
  <2>3. Restart => Apart
    BY DEF Restart, Apart, firewall, control
  <2> QED BY <1>3, <2>1, <2>2, <2>3, NoCrash DEF Environment
<1>4. UNCHANGED vars => Apart
  BY DEF vars, Apart, firewall, control, world
<1> QED BY <1>1, <1>2, <1>3, <1>4, RequestApart, WorkerApart, RollbackApart, PassApart
        DEF Next

\* Two trials past the permanent call are of two rules.
LEMMA OnlyPersisting ==
    ASSUME CalmInv, NEW a \in Actors, pc[a] \in {"persist"} \cup PersistPC,
           NEW b \in Actors, b # a, pc[b] \in {"persist"} \cup PersistPC
    PROVE  sessions[job[b]].rule # sessions[job[a]].rule
<1>1. {"persist"} \cup PersistPC \subseteq Deciding
  BY DEF PersistPC, Persisted, Deciding, ConfirmPC
<1>2. /\ job[b] \in SessionIds /\ sessions[job[b]] # NoRow
      /\ sessions[job[b]].status = "pending"
  BY <1>1, OnlyHand
<1>3. job[b] # job[a]
  BY <1>1, OnlyHand
<1> QED BY <1>1, <1>2, <1>3, OnlyHand DEF Unsettled

LEMMA PermanentApart ==
    ASSUME CalmInv, PermanentFits, RowsStay, Apart,
           \A r \in Rules : Before(r)' <=> Before(r)
    PROVE  PermanentFits'
<1>1. ASSUME NEW a \in Actors, pc'[a] \in PersistPC
      PROVE  /\ pc'[a] = pc[a] /\ job'[a] = job[a]
             /\ sessions'[job[a]].op = sessions[job[a]].op
             /\ sessions'[job[a]].rule = sessions[job[a]].rule
  <2>1. pc'[a] = pc[a] /\ job'[a] = job[a]
    BY <1>1 DEF Apart
  <2>2. pc[a] \in Deciding
    BY <1>1, <2>1 DEF PersistPC, Persisted, Deciding, ConfirmPC
  <2>3. job[a] \in SessionIds /\ sessions[job[a]] # NoRow
    BY <2>2, OnlyHand
  <2> QED BY <2>1, <2>3 DEF RowsStay
<1>2. ASSUME NEW a \in Actors, pc[a] \in PersistPC
      PROVE  pc'[a] = pc[a]
  BY <1>2 DEF Apart
<1>3. start'.permanent = start'.runtime /\ permanent' = permanent
  BY DEF Apart, PermanentFits
<1>4. ASSUME NEW a \in Actors
      PROVE  /\ pc'[a] = "undoPersist" => faults' = MaxFaults
             /\ pc'[a] \in Persisted =>
                    (sessions'[job'[a]].op = "delete"
                         <=> sessions'[job'[a]].rule \notin permanent')
  <2>1. CASE pc'[a] = "undoPersist"
    <3>1. faults = MaxFaults
      BY <1>1, <2>1 DEF PermanentFits, PersistPC
    <3>2. ~(faults < MaxFaults)
      BY <3>1, BoundAssumption
    <3> QED BY <2>1, <3>1, <3>2 DEF Apart, Persisted
  <2>2. CASE pc'[a] \in Persisted
    BY <1>1, <1>3, <2>2 DEF PermanentFits, PersistPC, Persisted
  <2> QED BY <2>1, <2>2
<1>5. ASSUME NEW r \in Rules, ~Persisting(r)'
      PROVE  r \in permanent' <=> Before(r)'
  <2>1. ~Persisting(r)
    BY <1>1, <1>2, <1>5 DEF Persisting, PersistPC
  <2> QED BY <1>3, <2>1 DEF PermanentFits
<1> QED BY <1>3, <1>4, <1>5 DEF PermanentFits

\* A confirmation that goes on concerns its own rule only.
LEMMA PermanentGoes ==
    ASSUME CalmInv, PermanentFits, RowsStay, NEW w \in Actors,
           pc[w] \in {"persist"} \cup PersistPC,
           NEW s, s = job[w], NEW r, r = sessions[s].rule,
           NEW label, Goes(w, label, s), UNCHANGED start,
           \A x \in Rules \ {r} :
               (x \in permanent' <=> x \in permanent) /\ (Before(x)' <=> Before(x)),
           faults = MaxFaults \/ label = "undoPersist" => faults' = MaxFaults,
           label \in Persisted => (sessions[s].op = "delete" <=> r \notin permanent'),
           label \notin PersistPC => (r \in permanent' <=> Before(r)')
    PROVE  PermanentFits'
<1>0. {"persist"} \cup PersistPC \subseteq Deciding
  BY DEF PersistPC, Persisted, Deciding, ConfirmPC
<1>1. ASSUME NEW a \in Actors, pc[a] \in {"persist"} \cup PersistPC
      PROVE  /\ job[a] \in SessionIds /\ sessions[job[a]].rule \in Rules
             /\ sessions'[job[a]].op = sessions[job[a]].op
             /\ sessions'[job[a]].rule = sessions[job[a]].rule
  <2>1. /\ job[a] \in SessionIds /\ sessions[job[a]] # NoRow
        /\ sessions[job[a]].rule \in Rules
    BY <1>0, <1>1, OnlyHand
  <2> QED BY <2>1 DEF RowsStay
<1>2. \A a \in Actors \ {w} : pc'[a] = pc[a] /\ job'[a] = job[a]
  BY DEF Goes
<1>3. pc'[w] = label /\ job'[w] = s
  BY DEF Goes
<1>4. ASSUME NEW a \in Actors \ {w}, pc[a] \in PersistPC
      PROVE  sessions[job[a]].rule # r
  BY <1>4, OnlyPersisting
<1>5. start'.permanent = start'.runtime
  BY DEF PermanentFits
<1>6. ASSUME NEW a \in Actors
      PROVE  /\ pc'[a] = "undoPersist" => faults' = MaxFaults
             /\ pc'[a] \in Persisted =>
                    (sessions'[job'[a]].op = "delete"
                         <=> sessions'[job'[a]].rule \notin permanent')
  <2>1. CASE a = w
    BY <1>1, <1>3, <2>1
  <2>2. CASE a # w
    <3>1. pc'[a] = pc[a] /\ job'[a] = job[a]
      BY <1>2, <2>2
    <3>2. pc'[a] = "undoPersist" => faults' = MaxFaults
      BY <3>1 DEF PermanentFits
    <3>3. ASSUME pc'[a] \in Persisted
          PROVE  sessions'[job'[a]].op = "delete"
                     <=> sessions'[job'[a]].rule \notin permanent'
      <4>1. pc[a] \in PersistPC
        BY <3>1, <3>3 DEF PersistPC
      <4>2. sessions[job[a]].op = "delete" <=> sessions[job[a]].rule \notin permanent
        BY <3>1, <3>3 DEF PermanentFits
      <4>3. sessions[job[a]].rule \in Rules \ {r}
        BY <1>1, <1>4, <2>2, <4>1
      <4> QED BY <1>1, <3>1, <4>1, <4>2, <4>3
    <3> QED BY <3>2, <3>3
  <2> QED BY <2>1, <2>2
<1>7. ASSUME NEW x \in Rules, ~Persisting(x)'
      PROVE  x \in permanent' <=> Before(x)'
  <2>1. CASE x = r
    <3>1. label \notin PersistPC
      BY <1>1, <1>3, <1>7, <2>1 DEF Persisting, PersistPC
    <3> QED BY <2>1, <3>1
  <2>2. CASE x # r
    <3>1. ~Persisting(x)
      BY <1>1, <1>2, <1>7, <2>2 DEF Persisting, PersistPC
    <3> QED BY <2>2, <3>1 DEF PermanentFits
  <2> QED BY <2>1, <2>2
<1> QED BY <1>5, <1>6, <1>7 DEF PermanentFits

\* What is known of the session whose confirmation is at w.
LEMMA ConfirmingFits ==
    ASSUME CalmInv, PermanentFits, NEW w \in Actors,
           pc[w] \in {"persist"} \cup PersistPC
    PROVE  LET s == job[w]
               r == sessions[job[w]].rule
           IN
           /\ s \in SessionIds /\ r \in Rules /\ sessions[s].op \in {"add", "delete"}
           /\ sessions[s].op = "delete" <=> Before(r)
           /\ pc[w] = "persist" => (r \in permanent <=> Before(r))
<1>0. {"persist"} \cup PersistPC \subseteq Deciding
  BY DEF PersistPC, Persisted, Deciding, ConfirmPC
<1>1. PICK s \in SessionIds : s = job[w]
  BY <1>0, OnlyHand
<1>2. PICK r \in Rules : r = sessions[s].rule
  BY <1>0, <1>1, OnlyHand
<1>3. sessions[s].op \in {"add", "delete"} /\ sessions[s].status = "pending"
  BY <1>0, <1>1, OnlyHand
<1>4. sessions[s].op = "delete" <=> Before(r)
  BY <1>2, <1>3 DEF CalmInv, RulesFit, TrialFits
<1>5. ASSUME pc[w] = "persist"
      PROVE  r \in permanent <=> Before(r)
  <2>1. ~Persisting(r)
    BY <1>1, <1>2, <1>5, OnlyPersisting DEF Persisting, PersistPC, Persisted
  <2> QED BY <2>1 DEF PermanentFits
<1> QED BY <1>1, <1>2, <1>3, <1>4, <1>5

LEMMA PersistFits ==
    ASSUME Backend = "firewalld", MaxFaults =< 1, CalmInv, PermanentFits, RowsStay,
           NEW w \in Workers, Persist(w), \A r \in Rules : Before(r)' <=> Before(r)
    PROVE  PermanentFits'
<1>0. /\ w \in Actors /\ ControlType /\ pc[w] = "persist" /\ UNCHANGED start
      /\ faults \in Nat /\ MaxFaults \in Nat
  BY BoundAssumption DEF CalmInv, Inv, TypeOK, WorldType, Actors, Web, Persist
<1>1. PICK s \in SessionIds : s = job[w]
  BY <1>0, ConfirmingFits
<1>2. PICK r \in Rules : r = sessions[s].rule
  BY <1>0, <1>1, ConfirmingFits
<1>3. /\ sessions[s].op \in {"add", "delete"}
      /\ sessions[s].op = "delete" <=> r \in permanent
  BY <1>0, <1>1, <1>2, ConfirmingFits
<1>4. PICK res \in Results(permanent, sessions[s].op, r) :
          /\ PermanentCall(sessions[s].op, r, res)
          /\ Goto(w, IF res.ok THEN AfterPersist(s) ELSE "undoPersist")
  BY <1>1, <1>2 DEF Persist
<1>5. Goes(w, IF res.ok THEN AfterPersist(s) ELSE "undoPersist", s)
  BY <1>0, <1>1, <1>4, GotoGoes
<1>6. AfterPersist(s) \in Persisted
  BY DEF AfterPersist, AfterSchedule, AfterRecycle, Persisted
<1>7. ~Refused(permanent, sessions[s].op, r)
  BY <1>3 DEF Refused
<1>8. permanent' \in {permanent, Effect(permanent, sessions[s].op, r)}
  BY <1>4, <1>7 DEF Results, Faulty, PermanentCall
<1>9. \A x \in Rules \ {r} : x \in permanent' <=> x \in permanent
  BY <1>8 DEF Effect
<1>10. CASE res.ok
  <2>1. permanent' = Effect(permanent, sessions[s].op, r) /\ faults' = faults
    BY <1>0, <1>4, <1>7, <1>10 DEF Results, Faulty, PermanentCall
  <2>2. sessions[s].op = "delete" <=> r \notin permanent'
    BY <1>3, <2>1 DEF Effect
  <2>3. Goes(w, AfterPersist(s), s)
    BY <1>5, <1>10
  <2>4. AfterPersist(s) # "undoPersist" /\ AfterPersist(s) \in PersistPC
    BY <1>6 DEF Persisted, PersistPC
  <2> QED BY <1>0, <1>1, <1>2, <1>9, <2>1, <2>2, <2>3, <2>4, PermanentGoes
<1>11. CASE ~res.ok
  <2>1. faults' = faults + 1 /\ faults < MaxFaults
    BY <1>4, <1>7, <1>11 DEF Results, Faulty, PermanentCall
  <2>2. faults' = MaxFaults
    BY <1>0, <2>1
  <2>3. Goes(w, "undoPersist", s)
    BY <1>5, <1>11
  <2>4. "undoPersist" \in PersistPC /\ "undoPersist" \notin Persisted
    BY DEF Persisted, PersistPC
  <2> QED BY <1>0, <1>1, <1>2, <1>9, <2>2, <2>3, <2>4, PermanentGoes
<1> QED BY <1>10, <1>11

LEMMA UndoPersistFits ==
    ASSUME Backend = "firewalld", MaxFaults =< 1, CalmInv, PermanentFits, RowsStay,
           NEW w \in Workers, UndoPersist(w), \A r \in Rules : Before(r)' <=> Before(r)
    PROVE  PermanentFits'
<1>0. /\ w \in Actors /\ ControlType /\ pc[w] = "undoPersist" /\ UNCHANGED start
      /\ pc[w] \in PersistPC /\ faults \in Nat /\ MaxFaults \in Nat
  BY BoundAssumption
     DEF CalmInv, Inv, TypeOK, WorldType, Actors, Web, UndoPersist, PersistPC
<1>1. PICK s \in SessionIds : s = job[w]
  BY <1>0, ConfirmingFits
<1>2. PICK r \in Rules : r = sessions[s].rule
  BY <1>0, <1>1, ConfirmingFits
<1>3. /\ sessions[s].op \in {"add", "delete"}
      /\ sessions[s].op = "delete" <=> Before(r)
  BY <1>0, <1>1, <1>2, ConfirmingFits
<1>4. faults = MaxFaults
  BY <1>0 DEF PermanentFits
<1>5. PICK res \in Results(permanent, Inverse(sessions[s].op), r) :
          PermanentCall(Inverse(sessions[s].op), r, res)
  BY <1>1, <1>2 DEF UndoPersist
<1>6. Goes(w, "readSession", s)
  BY <1>0, <1>1, GotoGoes DEF UndoPersist
<1>7. Faulty(permanent, Inverse(sessions[s].op), r) = {}
  BY <1>0, <1>4 DEF Faulty
<1>8. /\ faults' = faults
      /\ IF sessions[s].op = "delete"
         THEN permanent' = permanent \cup {r}
         ELSE permanent' = permanent \ {r}
  BY <1>0, <1>3, <1>5, <1>7 DEF Results, Refused, Effect, Inverse, PermanentCall
<1>9. \A x \in Rules \ {r} : x \in permanent' <=> x \in permanent
  BY <1>8
<1>10. r \in permanent' <=> Before(r)'
  BY <1>3, <1>8
<1>11. "readSession" \notin PersistPC \cup {"undoPersist"}
  BY DEF PersistPC, Persisted
<1> QED BY <1>0, <1>1, <1>2, <1>4, <1>6, <1>8, <1>9, <1>10, <1>11, PermanentGoes
        DEF PersistPC

\* The steps between the permanent call and the statement that confirms.
LEMMA BinStepFits ==
    ASSUME Backend = "firewalld", CalmInv, PermanentFits, RowsStay, NEW w \in Workers,
           AddRecycleItem(w) \/ MarkRestored(w),
           \A r \in Rules : Before(r)' <=> Before(r)
    PROVE  PermanentFits'
<1>0. /\ w \in Actors /\ ControlType /\ pc[w] \in Persisted /\ pc[w] \in PersistPC
      /\ UNCHANGED <<start, permanent, faults>>
  BY DEF CalmInv, Inv, TypeOK, Actors, Web, AddRecycleItem, MarkRestored, PersistPC,
         Persisted, firewall, world
<1>1. PICK s \in SessionIds : s = job[w]
  BY <1>0, ConfirmingFits
<1>2. PICK r \in Rules : r = sessions[s].rule
  BY <1>0, <1>1, ConfirmingFits
<1>3. sessions[s].op = "delete" <=> r \notin permanent
  BY <1>0, <1>1, <1>2 DEF PermanentFits
<1>4. PICK label \in {AfterRecycle(s), "setConfirmed"} : Goto(w, label)
  BY <1>1 DEF AddRecycleItem, MarkRestored
<1>5. Goes(w, label, s)
  BY <1>0, <1>1, <1>4, GotoGoes
<1>6. label \in Persisted /\ label \in PersistPC /\ label # "undoPersist"
  BY <1>4 DEF AfterRecycle, Persisted, PersistPC
<1> QED BY <1>0, <1>1, <1>2, <1>3, <1>5, <1>6, PermanentGoes

LEMMA ConfirmFits ==
    ASSUME CalmInv, PermanentFits, RowsStay, NEW w \in Workers, SetConfirmed(w)
    PROVE  PermanentFits'
<1>0. /\ w \in Actors /\ ControlType /\ pc[w] \in Persisted /\ pc[w] \in PersistPC
      /\ UNCHANGED <<start, permanent, faults>>
  BY DEF CalmInv, Inv, TypeOK, Actors, Web, SetConfirmed, PersistPC, Persisted,
         firewall, world
<1>1. PICK s \in SessionIds : s = job[w]
  BY <1>0, ConfirmingFits
<1>2. PICK r \in Rules : r = sessions[s].rule
  BY <1>0, <1>1, ConfirmingFits
<1>3. /\ sessions[s].op = "delete" <=> r \notin permanent
      /\ sessions[s].op \in {"add", "delete"}
  BY <1>0, <1>1, <1>2, ConfirmingFits DEF PermanentFits
<1>4. /\ \A y \in Rules \ {r} : Before(y)' <=> Before(y)
      /\ Before(r)' <=> sessions[s].op = "add"
  BY <1>1, <1>2, BeforeConfirmed
<1>5. Goes(w, "draftConfirmed", s)
  BY <1>0, <1>1, GotoGoes DEF SetConfirmed
<1>6. "draftConfirmed" \notin PersistPC
  BY DEF Persisted, PersistPC
<1> QED BY <1>0, <1>1, <1>2, <1>3, <1>4, <1>5, <1>6, PermanentGoes DEF Persisted, PersistPC

LEMMA PermanentStart ==
    ASSUME Undisturbed, Backend = "firewalld", CalmInit
    PROVE  PermanentFits
<1>1. Init /\ permanent = runtime
  BY DEF CalmInit
<1>2. /\ \A s \in SessionIds : sessions[s].status = "none"
      /\ \A a \in Actors : pc[a] = "idle"
      /\ start.permanent = start.runtime /\ start.runtime = runtime
  BY <1>1 DEF Init, NoRow
<1>3. \A r \in Rules : Before(r) <=> r \in permanent
  BY <1>1, <1>2 DEF Before, Expected, ConfirmedOn
<1> QED BY <1>1, <1>2, <1>3 DEF PermanentFits, Persisted

LEMMA PermanentStep ==
    ASSUME Undisturbed, Backend = "firewalld", MaxFaults =< 1,
           CalmInv, PermanentFits, [CalmNext]_vars
    PROVE  PermanentFits'
<1>0. Inv /\ NoLifetimes /\ RowsStay /\ [Next]_vars
  BY CalmStep, StepInv DEF CalmInv
<1>1. ASSUME NEW w \in Workers, SetConfirmed(w)
      PROVE  PermanentFits'
  BY <1>0, <1>1, ConfirmFits
<1>2. ASSUME \A w \in Workers : ~SetConfirmed(w)
      PROVE  PermanentFits'
  <2>1. \A r \in Rules : Before(r)' <=> Before(r)
    BY <1>0, <1>2, ConfirmedStays
  <2> QED BY <1>0, <1>2, <2>1, PermanentKind, PermanentApart, PersistFits,
             UndoPersistFits, BinStepFits
<1> QED BY <1>1, <1>2

\* When nobody is in the middle of a handler and every trial of a rule is
\* settled, firewalld's permanent rules hold what the confirmed changes made of
\* it and no trace of the others: a permanent call that failed after it took
\* effect has been compensated (confirm_apply).  Under CalmSpec, and of one
\* failing call: where the call and its compensation both fail, the
\* permanent rules keep the change although its session is rolled back.
THEOREM SettledTrialsPermanent ==
    ASSUME Undisturbed, Backend = "firewalld", MaxFaults =< 1
    PROVE  CalmSpec => []PermanentSettled
<1>1. CalmInit => CalmInv /\ PermanentFits
  BY CalmStart, PermanentStart
<1>2. CalmInv /\ PermanentFits /\ [CalmNext]_vars => CalmInv' /\ PermanentFits'
  BY CalmStep, PermanentStep
<1>3. CalmInv /\ PermanentFits => PermanentSettled
  <2>1. ASSUME PermanentFits, NEW r \in Rules, Settled(r)
        PROVE  r \in permanent <=> Expected(r, start.permanent)
    <3>1. ~Persisting(r)
      BY <2>1 DEF Settled, Quiet, Persisting, Persisted
    <3> QED BY <2>1, <3>1 DEF PermanentFits, Before
  <2> QED BY <2>1 DEF PermanentSettled
<1> QED BY <1>1, <1>2, <1>3, PTL DEF CalmSpec

----------------------------------------------------------------------------
(* The recycle bin.                                                        *)

LEMMA ItemsStep ==
    ASSUME Inv, ItemsOfSessions, [Next]_vars
    PROVE  ItemsOfSessions'
<1>0. RowsStay /\ TablesType
  BY StepInv DEF Inv, TypeOK
<1> SUFFICES ASSUME NEW i \in ItemIds, items'[i] # NoRow
             PROVE  /\ sessions'[items'[i].session] # NoRow
                    /\ items'[i].rule = sessions'[items'[i].session].rule
  BY DEF ItemsOfSessions
<1>1. CASE items[i] # NoRow
  <2>1. items[i].session \in SessionIds
    BY <1>0, <1>1 DEF TablesType, ItemRow
  <2> QED BY <1>0, <1>1, <2>1 DEF ItemsOfSessions, RowsStay
<1>2. CASE items[i] = NoRow
  <2>1. PICK w \in Workers :
            /\ AddRecycleItem(w)
            /\ items'[i].session = job[w] /\ items'[i].rule = sessions[job[w]].rule
    BY <1>2, NewItem
  <2>2. w \in Actors /\ pc[w] \in ConfirmPC
    BY <2>1 DEF Actors, Web, AddRecycleItem, ConfirmPC
  <2>3. job[w] \in SessionIds /\ sessions[job[w]] # NoRow
    BY <2>2, SessionInHand
  <2> QED BY <1>0, <2>1, <2>3 DEF RowsStay
<1> QED BY <1>1, <1>2

\* A rule the confirmed changes took away was deleted by one of them, which
\* wrote it to the recycle bin.
LEMMA TakenIsInBin ==
    ASSUME CalmInv, PermanentFits, HasLast, ItemsOfSessions, ConfirmedDeleteInBin
    PROVE  NothingLost
<1> SUFFICES ASSUME Quiet, NEW r \in start.permanent, r \notin permanent
             PROVE  HasItem(r)
  BY DEF NothingLost
<1>0. r \in Rules /\ TablesType
  BY DEF CalmInv, Inv, TypeOK, WorldType
<1>1. ~Persisting(r)
  BY DEF Quiet, Persisting, Persisted
<1>2. ~Before(r) /\ r \in start.runtime
  BY <1>0, <1>1 DEF PermanentFits
<1>3. ConfirmedOn(r) # {}
  BY <1>2 DEF Before, Expected
<1>4. PICK s \in ConfirmedOn(r) : \A t \in ConfirmedOn(r) : t =< s
  BY <1>0, <1>3 DEF HasLast
<1>5. sessions[s].op # "add"
  BY <1>2, <1>3, <1>4 DEF Before, Expected
<1>6. /\ s \in SessionIds /\ sessions[s].status = "confirmed" /\ sessions[s].rule = r
      /\ sessions[s].op = "delete"
  BY <1>0, <1>4, <1>5 DEF ConfirmedOn, TablesType, SessionRow, NoRow
<1>7. InBin(s)
  BY <1>6 DEF ConfirmedDeleteInBin
<1> QED BY <1>6, <1>7 DEF InBin, ItemsOfSessions, HasItem

LostInv ==
    CalmInv /\ PermanentFits /\ HasLast /\ ItemsOfSessions /\ BinWritten /\ ConfirmedDeleteInBin

\* Under a calm administrator (CalmSpec: one trial of a rule at a time, no two
\* handlers with the same draft or session in hand, permanent = runtime at the
\* start), without crashes and lifetimes and of at most one failing call: once
\* nobody is in the middle of a handler, a rule that was permanent and is no
\* longer has been written to the recycle bin, so neither a failing permanent
\* call nor its compensation loses one (confirm_apply).  Of other interleavings
\* DeletionsAreKept says what is left of it; where the permanent rules were not
\* the runtime rules the compensation itself deletes one (ApplyCompensation).
THEOREM NoRuleLost ==
    ASSUME Undisturbed, Backend = "firewalld", MaxFaults =< 1
    PROVE  CalmSpec => []NothingLost
<1>1. CalmInit => LostInv
  <2> SUFFICES ASSUME CalmInit PROVE LostInv
    OBVIOUS
  <2>1. CalmInv /\ Init
    BY CalmStart DEF CalmInit
  <2>2. /\ \A s \in SessionIds : sessions[s].status = "none"
        /\ \A a \in Actors : pc[a] = "idle"
        /\ \A i \in ItemIds : items[i] = NoRow
    BY <2>1 DEF Init, NoRow
  <2>3. HasLast /\ ItemsOfSessions /\ BinWritten /\ ConfirmedDeleteInBin
    BY <2>2 DEF HasLast, ConfirmedOn, ItemsOfSessions, BinWritten, ConfirmedDeleteInBin
  <2> QED BY <2>1, <2>3, PermanentStart DEF LostInv
<1>2. LostInv /\ [CalmNext]_vars => LostInv'
  <2> SUFFICES ASSUME LostInv, [CalmNext]_vars PROVE LostInv'
    OBVIOUS
  <2>1. CalmInv' /\ [Next]_vars /\ BinInv
    BY CalmStep DEF LostInv, BinInv, CalmInv
  <2>2. PermanentFits' /\ HasLast' /\ ItemsOfSessions'
    BY <2>1, PermanentStep, HasLastStep, ItemsStep DEF LostInv, BinInv
  <2>3. BinWritten' /\ ConfirmedDeleteInBin'
    BY <2>1, WrittenStep, InBinStep
  <2> QED BY <2>1, <2>2, <2>3 DEF LostInv
<1>3. LostInv => NothingLost
  BY TakenIsInBin DEF LostInv
<1> QED BY <1>1, <1>2, <1>3, PTL DEF CalmSpec

=============================================================================
