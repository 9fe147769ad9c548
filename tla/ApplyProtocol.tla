--------------------------- MODULE ApplyProtocol ---------------------------
(***************************************************************************)
(* The trial of one firewall rule: draft -> trial -> confirmation or       *)
(* rollback, as wallpilot/control.py and wallpilot/storage.py carry it     *)
(* out.  Every step below is one SQLite transaction or one adapter call of *)
(* a handler; the threads of the web server, its watchdog and the          *)
(* emergency-rollback process interleave between any two of them, because  *)
(* the code holds no lock across them.                                     *)
(*                                                                         *)
(* The web process talks to the firewall through the root agent, as the    *)
(* deployment units install it.                                            *)
(***************************************************************************)
EXTENDS Naturals, FiniteSets

CONSTANTS
    Backend,       \* "firewalld" or "ufw": the active backend, fixed here
    Rules,         \* rules, told apart by what the backend tells apart
    Aliased,       \* rules that can be written with another fingerprint
    Guarded,       \* rules whose changes ask for the TOTP and the hostname
    Drafts,        \* draft ids
    DraftOps,      \* the operations the administrator asks for
    Lifetimes,     \* subset of BOOLEAN: does a rule to add have a lifetime?
    Workers,       \* threads of the web server's pool
    Watchdog,      \* the watchdog task of the web server
    Cli,           \* the `wallpilot emergency-rollback` process
    CatchesTimeout,\* does the watchdog catch what ends its wait? Python >= 3.11
    MaxSessions,   \* bound: apply sessions ever created
    MaxItems,      \* bound: recycle bin rows ever created
    MaxFaults,     \* bound: adapter calls that fail on their own
    MaxCrashes,    \* bound: stops of the web process, reboots included
    MaxEmergencies,\* bound: emergency rollbacks started by hand
    None           \* no id

SessionIds == 1 .. MaxSessions
ItemIds    == 1 .. MaxItems
Web        == Workers \cup {Watchdog}
Passers    == {Watchdog, Cli}
Actors     == Web \cup {Cli}

ASSUME BackendAssumption == Backend \in {"firewalld", "ufw"}
ASSUME BoundAssumption ==
    /\ MaxSessions \in Nat /\ MaxItems \in Nat /\ MaxFaults \in Nat
    /\ MaxCrashes \in Nat /\ MaxEmergencies \in Nat
ASSUME OpsAssumption ==
    /\ DraftOps \subseteq {"add", "delete", "restore", "update"}
    /\ Lifetimes \subseteq BOOLEAN
    /\ Aliased \subseteq Rules /\ Guarded \subseteq Rules
ASSUME VersionAssumption == CatchesTimeout \in BOOLEAN
ASSUME ActorAssumption ==
    /\ Watchdog \notin Workers /\ Cli \notin Workers /\ Cli # Watchdog
ASSUME IdAssumption == None \notin SessionIds \cup ItemIds \cup Drafts \cup Rules

VARIABLES
    drafts,     \* table drafts
    sessions,   \* table apply_sessions
    overdue,    \* sessions whose deadline has passed
    items,      \* table recycle_bin
    schedule,   \* table temporary_rules, by rule
    runtime,    \* the rules in force (for ufw, its only rule set)
    permanent,  \* firewalld's permanent rules; ufw leaves them alone
    timed,      \* runtime rules firewalld itself will drop
    pc,         \* where each actor is
    job,        \* the id the actor works on: draft, session or rule
    todo,       \* sessions left in the pass of the watchdog or the CLI
    dueRules,   \* lapsed temporary rules left in the watchdog's pass
    up,         \* is the web process running?
    watching,   \* will its watchdog task begin another round?
    restartDue, \* will systemd start the web process again?
    stopPost,   \* is an ExecStopPost emergency-rollback owed?
    faults, crashes, emergencies,   \* counters of the bounds
    start       \* history: the firewall's rules at the start

tables   == <<drafts, sessions, items, schedule>>
firewall == <<runtime, permanent, timed>>
lists    == <<todo, dueRules>>
control  == <<pc, job, lists>>
process  == <<up, watching, restartDue, stopPost, crashes, emergencies>>
world    == <<overdue, process, faults, start>>
vars == <<tables, firewall, control, world>>

----------------------------------------------------------------------------
(* Rows.  NoRow is the absence of a row.                                   *)

NoRow == [status |-> "none"]

DraftRow ==
    [status : {"pending", "applying", "confirmed", "rolled_back"},
     op     : {"add", "delete", "restore", "update"},
     rule   : Rules,
     temp   : BOOLEAN,             \* temporary_seconds > 0
     item   : ItemIds \cup {None}] \* recycle_id

SessionRow ==
    [status : {"pending", "confirmed", "rolled_back", "rollback_failed"},
     op     : {"add", "delete"},
     rule   : Rules,
     temp   : BOOLEAN,
     draft  : Drafts,
     item   : ItemIds \cup {None}] \* restore_recycle_id

ItemRow ==
    [status  : {"deleted", "restored", "purged"},
     rule    : Rules,
     temp    : BOOLEAN,
     session : SessionIds]         \* history: whose confirmation added it

DraftPC   == {"markApplying", "resetDraft", "applyRuntime", "openSession"}
ConfirmPC == {"persist", "undoPersist", "scheduleExpiry", "addRecycleItem",
              "markRestored", "setConfirmed", "draftConfirmed"}
RollbackPC == {"readSession", "inverse", "setRolledBack", "draftRolledBack",
               "setRollbackFailed"}
RestorePC == {"listRules", "markFound"}
RecordPC  == {"setExpired", "setExpirationFailed"}
ExpiryPC  == {"listDue", "expireRule"} \cup RecordPC

----------------------------------------------------------------------------
(* The adapter.  firewalld refuses to add a rule it has and to remove one  *)
(* it has not, in either configuration; ufw answers both with success.     *)
(* The agent refuses a rule "update".  Any call may also fail on its own,  *)
(* before or after it took effect (the client gives up after 15 seconds,   *)
(* the agent's work goes on).                                              *)

\* Mutant: an agent that takes any operation.
RefusedWhateverOp(rules, op, r) ==
    Backend = "firewalld" /\ (op = "delete" <=> r \notin rules)

Refused(rules, op, r) ==
    \/ op = "update"
    \/ Backend = "firewalld" /\ (op = "delete" <=> r \notin rules)

Effect(rules, op, r) == IF op = "delete" THEN rules \ {r} ELSE rules \cup {r}

Faulty(rules, op, r) ==
    IF faults < MaxFaults
    THEN {[ok |-> FALSE, rules |-> x, fault |-> 1] :
              x \in {rules, Effect(rules, op, r)}}
    ELSE {}

Results(rules, op, r) ==
    IF Refused(rules, op, r)
    THEN {[ok |-> FALSE, rules |-> rules, fault |-> 0]}
    ELSE {[ok |-> TRUE, rules |-> Effect(rules, op, r), fault |-> 0]}
         \cup Faulty(rules, op, r)

Inverse(op) == IF op = "add" THEN "delete" ELSE "add"

\* A call on the runtime configuration; firewalld starts a timer for a rule
\* added with a lifetime and forgets it when the rule goes.
RuntimeCall(op, r, temp, res) ==
    /\ runtime' = res.rules
    /\ faults' = faults + res.fault
    /\ timed' = IF Backend = "firewalld" /\ op # "delete" /\ temp /\ r \notin runtime
                THEN (timed \cup {r}) \cap res.rules
                ELSE timed \cap res.rules
    /\ UNCHANGED permanent

PermanentCall(op, r, res) ==
    /\ permanent' = res.rules
    /\ faults' = faults + res.fault
    /\ UNCHANGED <<runtime, timed>>

----------------------------------------------------------------------------
Init ==
    /\ drafts = [d \in Drafts |-> NoRow]
    /\ sessions = [s \in SessionIds |-> NoRow]
    /\ overdue = {}
    /\ items = [i \in ItemIds |-> NoRow]
    /\ schedule = [r \in Rules |-> "none"]
    /\ runtime \in SUBSET Rules
    /\ permanent \in IF Backend = "firewalld" THEN SUBSET Rules ELSE {{}}
    /\ timed = {}
    /\ pc = [a \in Actors |-> "idle"]
    /\ job = [a \in Actors |-> None]
    /\ todo = [a \in Passers |-> {}]
    /\ dueRules = {}
    /\ up = TRUE /\ watching = TRUE /\ restartDue = FALSE /\ stopPost = FALSE
    /\ faults = 0 /\ crashes = 0 /\ emergencies = 0
    /\ start = [runtime |-> runtime, permanent |-> permanent]

----------------------------------------------------------------------------
(* Control flow of an actor.                                               *)

Goto(a, label) == pc' = [pc EXCEPT ![a] = label] /\ UNCHANGED job

Take(a, id, label) ==
    pc' = [pc EXCEPT ![a] = label] /\ job' = [job EXCEPT ![a] = id]

Return(a) == Take(a, None, "idle")

\* Mutant: a round of the watchdog that never reaches the temporary rules.
ProceedNoExpiry(a, S) ==
    \/ S = {} /\ Return(a) /\ UNCHANGED todo
    \/ \E s \in S :
           /\ \A t \in S : s =< t
           /\ Take(a, s, "readSession")
           /\ todo' = [todo EXCEPT ![a] = S \ {s}]

\* A pass works on its sessions oldest first; after the last one the watchdog
\* looks at the temporary rules and the CLI process ends.
Proceed(a, S) ==
    \/ /\ S = {}
       /\ Take(a, None, IF a = Watchdog THEN "listDue" ELSE "idle")
       /\ UNCHANGED todo
    \/ \E s \in S :
           /\ \A t \in S : s =< t
           /\ Take(a, s, "readSession")
           /\ todo' = [todo EXCEPT ![a] = S \ {s}]

\* What follows a rollback that did not raise: a worker answers its request.
AfterRollback(a) ==
    \/ a \in Passers /\ Proceed(a, todo[a])
    \/ a \in Workers /\ Return(a) /\ UNCHANGED todo

\* An exception ends the request, the watchdog's round or the CLI process.
Raise(a) ==
    /\ Return(a)
    /\ todo' = IF a \in Passers THEN [todo EXCEPT ![a] = {}] ELSE todo

----------------------------------------------------------------------------
(* POST /drafts.  The duplicate check compares fingerprints; that of a rule *)
(* drafted with a lifetime has it, that of the rule as listed has not.     *)

CreateDraft(d, op, r, temp) ==
    /\ up
    /\ drafts[d] = NoRow
    /\ op = "add" => r \notin runtime \/ r \in Aliased \/ temp
    /\ temp \in Lifetimes
    /\ drafts' = [drafts EXCEPT ![d] =
           [status |-> "pending", op |-> op, rule |-> r, temp |-> temp,
            item |-> None]]
    /\ UNCHANGED <<sessions, items, schedule, firewall, control, world>>

(* POST /recycle-bin/{id}/restore.  The row is read ...                    *)

ReadItem(w, i) ==
    /\ up /\ pc[w] = "idle"
    /\ items[i].status = "deleted"
    /\ Take(w, i, "listRules")
    /\ UNCHANGED <<tables, firewall, lists, world>>

\* ... and the rules are listed, which may fail.  A rule that is there is
\* marked restored in the next step; its fingerprint tells, so an aliased one
\* or one with a lifetime may go unnoticed.  For the others a draft is written.
ListRules(w) ==
    LET i == job[w] IN
    /\ pc[w] = "listRules"
    /\ \/ /\ items[i].rule \in runtime
          /\ Goto(w, "markFound")
          /\ UNCHANGED drafts
       \/ /\ items[i].rule \notin runtime \/ items[i].rule \in Aliased
             \/ items[i].temp
          /\ \E d \in Drafts :
                 /\ drafts[d] = NoRow
                 /\ drafts' = [drafts EXCEPT ![d] =
                        [status |-> "pending", op |-> "restore",
                         rule |-> items[i].rule, temp |-> items[i].temp,
                         item |-> i]]
          /\ Return(w)
       \/ Return(w) /\ UNCHANGED drafts
    /\ UNCHANGED <<sessions, items, schedule, firewall, lists, world>>

\* An UPDATE: a row purged meanwhile stays away.
SetRestored(i) ==
    items' = [items EXCEPT ![i].status =
                  IF @ = "purged" THEN "purged" ELSE "restored"]

MarkFound(w) ==
    /\ pc[w] = "markFound"
    /\ SetRestored(job[w])
    /\ Return(w)
    /\ UNCHANGED <<drafts, sessions, schedule, firewall, lists, world>>

(* POST /recycle-bin/{id}/purge.                                           *)

PurgeItem(i) ==
    /\ up
    /\ items[i].status \in {"deleted", "restored"}
    /\ items' = [items EXCEPT ![i].status = "purged"]
    /\ UNCHANGED <<drafts, sessions, schedule, firewall, control, world>>

----------------------------------------------------------------------------
(* POST /drafts/{id}/confirm: confirm_draft, confirm_draft_code and        *)
(* begin_rule_apply.                                                       *)

\* Bound: a request starts only if a session id is left for it.
SessionRoom ==
    Cardinality({w \in Workers : pc[w] \in DraftPC})
        < Cardinality({s \in SessionIds : sessions[s] = NoRow})

\* The draft row is read and its status checked ...
ReadDraft(w, d) ==
    /\ up /\ pc[w] = "idle"
    /\ drafts[d].status = "pending"
    /\ SessionRoom
    /\ Take(w, d, "markApplying")
    /\ UNCHANGED <<tables, firewall, lists, world>>

\* ... and in another transaction, unconditionally, marked 'applying'.  A
\* draft that asks for the TOTP and the hostname may fail either.
MarkApplying(w) ==
    /\ pc[w] = "markApplying"
    /\ drafts' = [drafts EXCEPT ![job[w]].status = "applying"]
    /\ \/ Goto(w, "applyRuntime")
       \/ drafts[job[w]].rule \in Guarded /\ Goto(w, "resetDraft")
    /\ UNCHANGED <<sessions, items, schedule, firewall, lists, world>>

ResetDraft(w) ==
    /\ pc[w] = "resetDraft"
    /\ drafts' = [drafts EXCEPT ![job[w]].status = "pending"]
    /\ Return(w)
    /\ UNCHANGED <<sessions, items, schedule, firewall, lists, world>>

TrialOp(d) == IF drafts[d].op = "restore" THEN "add" ELSE drafts[d].op

\* Mutant: a session is opened for a call that raised, too.
ApplyRuntimeUnchecked(w) ==
    /\ pc[w] = "applyRuntime"
    /\ LET d == job[w] IN
       \E res \in Results(runtime, TrialOp(d), drafts[d].rule) :
           RuntimeCall(TrialOp(d), drafts[d].rule, drafts[d].temp, res)
    /\ Goto(w, "openSession")
    /\ UNCHANGED <<tables, overdue, lists, process, start>>

\* The change is tried at runtime.  If the call raises, the request ends and
\* the draft stays 'applying'.
ApplyRuntime(w) ==
    /\ pc[w] = "applyRuntime"
    /\ LET d == job[w] IN
       \E res \in Results(runtime, TrialOp(d), drafts[d].rule) :
           /\ RuntimeCall(TrialOp(d), drafts[d].rule, drafts[d].temp, res)
           /\ IF res.ok THEN Goto(w, "openSession") ELSE Return(w)
    /\ UNCHANGED <<tables, overdue, lists, process, start>>

FreshSession(s) ==
    /\ sessions[s] = NoRow
    /\ \A t \in SessionIds : t < s => sessions[t] # NoRow

OpenSession(w) ==
    /\ pc[w] = "openSession"
    /\ \E s \in SessionIds :
           /\ FreshSession(s)
           /\ sessions' = [sessions EXCEPT ![s] =
                  [status |-> "pending", op |-> TrialOp(job[w]),
                   rule |-> drafts[job[w]].rule, temp |-> drafts[job[w]].temp,
                   draft |-> job[w], item |-> drafts[job[w]].item]]
    /\ Return(w)
    /\ UNCHANGED <<drafts, items, schedule, firewall, lists, world>>

----------------------------------------------------------------------------
(* POST /apply-sessions/{id}/confirm: confirm_apply.                       *)

AfterRecycle(s) ==
    IF sessions[s].item # None THEN "markRestored" ELSE "setConfirmed"

\* Mutant: a confirmed deletion skips the recycle bin.
AfterScheduleNoBin(s) == AfterRecycle(s)

AfterSchedule(s) ==
    IF sessions[s].op = "delete" THEN "addRecycleItem" ELSE AfterRecycle(s)

AfterPersist(s) ==
    IF Backend = "ufw" /\ sessions[s].op = "add" /\ sessions[s].temp
    THEN "scheduleExpiry" ELSE AfterSchedule(s)

FirstStep(s) ==
    IF Backend = "firewalld" /\ ~sessions[s].temp
    THEN "persist" ELSE AfterPersist(s)

\* Bound: a confirmation starts only if a recycle bin row is left for it.
ItemRoom ==
    Cardinality({w \in Workers : pc[w] \in ConfirmPC})
        < Cardinality({i \in ItemIds : items[i] = NoRow})

\* Mutant: a confirmation that does not look at the deadline.
ReadForConfirmLate(w, s) ==
    /\ up /\ pc[w] = "idle"
    /\ sessions[s].status = "pending"
    /\ sessions[s].op = "delete" => ItemRoom
    /\ Take(w, s, FirstStep(s))
    /\ UNCHANGED <<tables, firewall, lists, world>>

\* The session row is read, its status and its deadline checked; too late, it
\* is rolled back instead.
ReadForConfirm(w, s) ==
    /\ up /\ pc[w] = "idle"
    /\ sessions[s].status = "pending"
    /\ sessions[s].op = "delete" => ItemRoom
    /\ Take(w, s, IF s \in overdue THEN "readSession" ELSE FirstStep(s))
    /\ UNCHANGED <<tables, firewall, lists, world>>

\* Mutant: a permanent call that raised is not compensated.
PersistNoUndo(w) ==
    /\ pc[w] = "persist"
    /\ LET s == job[w] IN
       \E res \in Results(permanent, sessions[s].op, sessions[s].rule) :
           /\ PermanentCall(sessions[s].op, sessions[s].rule, res)
           /\ Goto(w, IF res.ok THEN AfterPersist(s) ELSE "readSession")
    /\ UNCHANGED <<tables, overdue, lists, process, start>>

\* Mutant: the answer of the permanent call is not looked at.
PersistUnchecked(w) ==
    /\ pc[w] = "persist"
    /\ LET s == job[w] IN
       \E res \in Results(permanent, sessions[s].op, sessions[s].rule) :
           PermanentCall(sessions[s].op, sessions[s].rule, res)
    /\ Goto(w, AfterPersist(job[w]))
    /\ UNCHANGED <<tables, overdue, lists, process, start>>

Persist(w) ==
    /\ pc[w] = "persist"
    /\ LET s == job[w] IN
       \E res \in Results(permanent, sessions[s].op, sessions[s].rule) :
           /\ PermanentCall(sessions[s].op, sessions[s].rule, res)
           /\ Goto(w, IF res.ok THEN AfterPersist(s) ELSE "undoPersist")
    /\ UNCHANGED <<tables, overdue, lists, process, start>>

\* Mutant: the compensation repeats the change.
UndoPersistRepeats(w) ==
    /\ pc[w] = "undoPersist"
    /\ LET s == job[w] IN
       \E res \in Results(permanent, sessions[s].op, sessions[s].rule) :
           PermanentCall(sessions[s].op, sessions[s].rule, res)
    /\ Goto(w, "readSession")
    /\ UNCHANGED <<tables, overdue, lists, process, start>>

\* The inverse is written permanently, whatever it answers; then rollback.
UndoPersist(w) ==
    /\ pc[w] = "undoPersist"
    /\ LET s == job[w] IN
       \E res \in Results(permanent, Inverse(sessions[s].op), sessions[s].rule) :
           PermanentCall(Inverse(sessions[s].op), sessions[s].rule, res)
    /\ Goto(w, "readSession")
    /\ UNCHANGED <<tables, overdue, lists, process, start>>

ScheduleExpiry(w) ==
    /\ pc[w] = "scheduleExpiry"
    /\ schedule' = [schedule EXCEPT ![sessions[job[w]].rule] = "active"]
    /\ Goto(w, AfterSchedule(job[w]))
    /\ UNCHANGED <<drafts, sessions, items, firewall, lists, world>>

FreshItem(i) ==
    /\ items[i] = NoRow
    /\ \A j \in ItemIds : j < i => items[j] # NoRow

AddRecycleItem(w) ==
    /\ pc[w] = "addRecycleItem"
    /\ \E i \in ItemIds :
           /\ FreshItem(i)
           /\ items' = [items EXCEPT ![i] =
                  [status |-> "deleted", rule |-> sessions[job[w]].rule,
                   temp |-> sessions[job[w]].temp, session |-> job[w]]]
    /\ Goto(w, AfterRecycle(job[w]))
    /\ UNCHANGED <<drafts, sessions, schedule, firewall, lists, world>>

MarkRestored(w) ==
    /\ pc[w] = "markRestored"
    /\ SetRestored(sessions[job[w]].item)
    /\ Goto(w, "setConfirmed")
    /\ UNCHANGED <<drafts, sessions, schedule, firewall, lists, world>>

SetConfirmed(w) ==
    /\ pc[w] = "setConfirmed"
    /\ sessions' = [sessions EXCEPT ![job[w]].status = "confirmed"]
    /\ Goto(w, "draftConfirmed")
    /\ UNCHANGED <<drafts, items, schedule, firewall, lists, world>>

DraftConfirmed(w) ==
    /\ pc[w] = "draftConfirmed"
    /\ drafts' = [drafts EXCEPT ![sessions[job[w]].draft].status = "confirmed"]
    /\ Return(w)
    /\ UNCHANGED <<sessions, items, schedule, firewall, lists, world>>

----------------------------------------------------------------------------
(* rollback_apply, run by a worker, the watchdog or the CLI process.       *)

\* POST /apply-sessions/{id}/rollback.
RequestRollback(w, s) ==
    /\ up /\ pc[w] = "idle"
    /\ sessions[s].status = "pending"
    /\ Take(w, s, "readSession")
    /\ UNCHANGED <<tables, firewall, lists, world>>

ReadSession(a) ==
    /\ pc[a] = "readSession"
    /\ IF sessions[job[a]].status = "pending"
       THEN Goto(a, "inverse") /\ UNCHANGED todo
       ELSE AfterRollback(a)
    /\ UNCHANGED <<tables, firewall, dueRules, world>>

\* Mutant: the answer of the inverse call is not looked at.
RunInverseUnchecked(a) ==
    /\ pc[a] = "inverse"
    /\ LET s == job[a] IN
       \E res \in Results(runtime, Inverse(sessions[s].op), sessions[s].rule) :
           RuntimeCall(Inverse(sessions[s].op), sessions[s].rule,
                       sessions[s].temp, res)
    /\ Goto(a, "setRolledBack")
    /\ UNCHANGED <<tables, overdue, lists, process, start>>

RunInverse(a) ==
    /\ pc[a] = "inverse"
    /\ LET s == job[a] IN
       \E res \in Results(runtime, Inverse(sessions[s].op), sessions[s].rule) :
           /\ RuntimeCall(Inverse(sessions[s].op), sessions[s].rule,
                          sessions[s].temp, res)
           /\ Goto(a, IF res.ok THEN "setRolledBack" ELSE "setRollbackFailed")
    /\ UNCHANGED <<tables, overdue, lists, process, start>>

SetRolledBack(a) ==
    /\ pc[a] = "setRolledBack"
    /\ sessions' = [sessions EXCEPT ![job[a]].status = "rolled_back"]
    /\ Goto(a, "draftRolledBack")
    /\ UNCHANGED <<drafts, items, schedule, firewall, lists, world>>

DraftRolledBack(a) ==
    /\ pc[a] = "draftRolledBack"
    /\ drafts' = [drafts EXCEPT ![sessions[job[a]].draft].status = "rolled_back"]
    /\ AfterRollback(a)
    /\ UNCHANGED <<sessions, items, schedule, firewall, dueRules, world>>

SetRollbackFailed(a) ==
    /\ pc[a] = "setRollbackFailed"
    /\ sessions' = [sessions EXCEPT ![job[a]].status = "rollback_failed"]
    /\ Raise(a)
    /\ UNCHANGED <<drafts, items, schedule, firewall, dueRules, world>>

----------------------------------------------------------------------------
(* The watchdog's round: rollback_expired, then expire_temporary_rules.    *)

Pending == {s \in SessionIds : sessions[s].status = "pending"}

\* Mutant: the comparison of the deadline with the time is turned round.
RollbackUnexpired ==
    /\ up /\ watching /\ pc[Watchdog] = "idle"
    /\ Proceed(Watchdog, Pending \ overdue)
    /\ watching' = CatchesTimeout
    /\ UNCHANGED <<tables, firewall, dueRules, overdue, up, restartDue, stopPost,
                   crashes, emergencies, faults, start>>

\* The wait after the round ends in asyncio.TimeoutError.  Where that is not
\* the TimeoutError the loop catches, the task ends and this was its last.
RollbackExpired ==
    /\ up /\ watching /\ pc[Watchdog] = "idle"
    /\ Proceed(Watchdog, Pending \cap overdue)
    /\ watching' = CatchesTimeout
    /\ UNCHANGED <<tables, firewall, dueRules, overdue, up, restartDue, stopPost,
                   crashes, emergencies, faults, start>>

NextDue(S) ==
    /\ dueRules' = S
    /\ Take(Watchdog, None, IF S = {} THEN "idle" ELSE "expireRule")

ListDue ==
    /\ pc[Watchdog] = "listDue"
    /\ NextDue({r \in Rules : schedule[r] = "due"})
    /\ UNCHANGED <<tables, firewall, todo, world>>

ExpireRule ==
    /\ pc[Watchdog] = "expireRule"
    /\ \E r \in dueRules : \E res \in Results(runtime, "delete", r) :
           /\ RuntimeCall("delete", r, TRUE, res)
           /\ dueRules' = dueRules \ {r}
           /\ Take(Watchdog, r,
                   IF res.ok THEN "setExpired" ELSE "setExpirationFailed")
    /\ UNCHANGED <<tables, overdue, todo, process, start>>

SetExpiry(label, status) ==
    /\ pc[Watchdog] = label
    /\ schedule' = [schedule EXCEPT ![job[Watchdog]] = status]
    /\ NextDue(dueRules)
    /\ UNCHANGED <<drafts, sessions, items, firewall, todo, world>>

SetExpired == SetExpiry("setExpired", "expired")
SetExpirationFailed == SetExpiry("setExpirationFailed", "expiration_failed")

----------------------------------------------------------------------------
(* `wallpilot emergency-rollback`: by hand, or as ExecStopPost.            *)

EmergencyRollback ==
    /\ pc[Cli] = "idle"
    /\ \/ stopPost /\ stopPost' = FALSE /\ UNCHANGED emergencies
       \/ /\ emergencies < MaxEmergencies
          /\ emergencies' = emergencies + 1
          /\ UNCHANGED stopPost
    /\ Proceed(Cli, Pending)
    /\ UNCHANGED <<tables, firewall, dueRules, overdue, up, watching, restartDue,
                   crashes, faults, start>>

----------------------------------------------------------------------------
(* The environment: time, the web process's life, the host's.              *)

Deadline(s) ==
    /\ sessions[s].status = "pending" /\ s \notin overdue
    /\ overdue' = overdue \cup {s}
    /\ UNCHANGED <<tables, firewall, control, process, faults, start>>

ScheduleDue(r) ==
    /\ schedule[r] = "active"
    /\ schedule' = [schedule EXCEPT ![r] = "due"]
    /\ UNCHANGED <<drafts, sessions, items, firewall, control, world>>

TimerEnds(r) ==
    /\ r \in timed
    /\ timed' = timed \ {r}
    /\ runtime' = runtime \ {r}
    /\ UNCHANGED <<tables, permanent, control, world>>

\* Every thread of the killed actors is gone with what it had read.
Kill(Gone) ==
    /\ pc' = [a \in Actors |-> IF a \in Gone THEN "idle" ELSE pc[a]]
    /\ job' = [a \in Actors |-> IF a \in Gone THEN None ELSE job[a]]
    /\ todo' = [a \in Passers |-> IF a \in Gone THEN {} ELSE todo[a]]
    /\ dueRules' = {}

\* The web process ends, by a failure or a kill (failed) or because the
\* administrator stops the unit; systemd runs ExecStopPost, and starts the
\* process again after a failure only.
Crash(failed) ==
    /\ up /\ crashes < MaxCrashes
    /\ up' = FALSE /\ stopPost' = TRUE /\ crashes' = crashes + 1
    /\ restartDue' = failed
    /\ Kill(Web)
    /\ UNCHANGED <<tables, overdue, firewall, watching, emergencies, faults, start>>

\* The host goes down at once; firewalld comes back with its permanent rules,
\* and the units, being enabled, are started.
Reboot ==
    /\ crashes < MaxCrashes
    /\ up' = FALSE /\ stopPost' = FALSE /\ crashes' = crashes + 1
    /\ restartDue' = TRUE
    /\ Kill(Actors)
    /\ runtime' = IF Backend = "firewalld" THEN permanent ELSE runtime
    /\ timed' = {}
    /\ UNCHANGED <<tables, overdue, permanent, watching, emergencies, faults, start>>

\* The web process starts once ExecStopPost is done, by systemd or by hand.
Restart ==
    /\ ~up /\ ~stopPost /\ pc[Cli] = "idle"
    /\ up' = TRUE /\ watching' = TRUE /\ restartDue' = FALSE
    /\ UNCHANGED <<tables, firewall, control, overdue, stopPost, crashes,
                   emergencies, faults, start>>

----------------------------------------------------------------------------
Request(w) ==
    \/ \E d \in Drafts : ReadDraft(w, d)
    \/ \E s \in SessionIds : ReadForConfirm(w, s) \/ RequestRollback(w, s)
    \/ "restore" \in DraftOps /\ \E i \in ItemIds : ReadItem(w, i)

WorkerStep(w) ==
    \/ ListRules(w) \/ MarkFound(w)
    \/ MarkApplying(w) \/ ResetDraft(w) \/ ApplyRuntime(w) \/ OpenSession(w)
    \/ Persist(w) \/ UndoPersist(w) \/ ScheduleExpiry(w) \/ AddRecycleItem(w)
    \/ MarkRestored(w) \/ SetConfirmed(w) \/ DraftConfirmed(w)

RollbackStep(a) ==
    \/ ReadSession(a) \/ RunInverse(a) \/ SetRolledBack(a)
    \/ DraftRolledBack(a) \/ SetRollbackFailed(a)

WatchdogStep ==
    \/ RollbackExpired \/ ListDue \/ ExpireRule \/ SetExpired
    \/ SetExpirationFailed

\* A draft made with the operation 'restore' is one made with 'add' that skips
\* the duplicate check, which Aliased covers.
DraftRequest ==
    \E d \in Drafts, op \in DraftOps \ {"restore"}, r \in Rules, temp \in BOOLEAN :
        CreateDraft(d, op, r, temp)

Environment ==
    \/ \E s \in SessionIds : Deadline(s)
    \/ \E r \in Rules : ScheduleDue(r) \/ TimerEnds(r)
    \/ \E failed \in BOOLEAN : Crash(failed)
    \/ Reboot \/ Restart

Next ==
    \/ DraftRequest
    \/ \E i \in ItemIds : PurgeItem(i)
    \/ \E w \in Workers : Request(w) \/ WorkerStep(w)
    \/ \E a \in Actors : RollbackStep(a)
    \/ WatchdogStep
    \/ EmergencyRollback
    \/ Environment

Spec == Init /\ [][Next]_vars

\* The watchdog's loop, while it has rounds left, the threads at work and the
\* CLI process go on, for a call that is not answered is given up after 15
\* seconds; time passes; systemd runs ExecStopPost and restarts what failed.
Fairness ==
    /\ WF_vars(WatchdogStep \/ RollbackStep(Watchdog))
    /\ WF_vars(RollbackStep(Cli))
    /\ \A w \in Workers : WF_vars(WorkerStep(w) \/ RollbackStep(w))
    /\ \A s \in SessionIds : WF_vars(Deadline(s))
    /\ WF_vars(stopPost /\ EmergencyRollback)
    /\ WF_vars(restartDue /\ Restart)

FairSpec == Spec /\ Fairness

----------------------------------------------------------------------------
(* Types, and what each actor holds where it is.                           *)

Labels == {"idle"} \cup DraftPC \cup ConfirmPC \cup RollbackPC \cup ExpiryPC
                   \cup RestorePC
Ids    == {None} \cup Drafts \cup SessionIds \cup ItemIds \cup Rules

TablesType ==
    /\ drafts \in [Drafts -> {NoRow} \cup DraftRow]
    /\ sessions \in [SessionIds -> {NoRow} \cup SessionRow]
    /\ items \in [ItemIds -> {NoRow} \cup ItemRow]
    /\ schedule \in [Rules -> {"none", "active", "due", "expired",
                               "expiration_failed"}]

FirewallType ==
    /\ runtime \in SUBSET Rules /\ permanent \in SUBSET Rules
    /\ timed \in SUBSET runtime

ControlType ==
    /\ pc \in [Actors -> Labels]
    /\ job \in [Actors -> Ids]
    /\ todo \in [Passers -> SUBSET SessionIds]
    /\ dueRules \in SUBSET Rules

WorldType ==
    /\ overdue \in SUBSET SessionIds
    /\ up \in BOOLEAN /\ stopPost \in BOOLEAN
    /\ watching \in BOOLEAN /\ restartDue \in BOOLEAN
    /\ faults \in 0 .. MaxFaults /\ crashes \in 0 .. MaxCrashes
    /\ emergencies \in 0 .. MaxEmergencies
    /\ start \in [runtime : SUBSET Rules, permanent : SUBSET Rules]

TypeOK == TablesType /\ FirewallType /\ ControlType /\ WorldType

\* Every id a row or a handler holds is the id of a row.
RowsExist ==
    /\ \A d \in Drafts :
           drafts[d] # NoRow /\ drafts[d].item # None => items[drafts[d].item] # NoRow
    /\ \A s \in SessionIds : sessions[s] # NoRow =>
           /\ drafts[sessions[s].draft] # NoRow
           /\ sessions[s].item # None => items[sessions[s].item] # NoRow
    /\ \A a \in Passers : \A s \in todo[a] : sessions[s] # NoRow

Holds(a) ==
    /\ pc[a] \in DraftPC => job[a] \in Drafts /\ drafts[job[a]] # NoRow
    /\ pc[a] = "openSession" => drafts[job[a]].op # "update"
    /\ pc[a] \in ConfirmPC \cup RollbackPC =>
           job[a] \in SessionIds /\ sessions[job[a]] # NoRow
    /\ pc[a] = "markRestored" => sessions[job[a]].item # None
    /\ pc[a] \in RestorePC => job[a] \in ItemIds /\ items[job[a]] # NoRow
    /\ pc[a] \in RecordPC => job[a] \in Rules

HoldsRow == \A a \in Actors : Holds(a)

InBin(s) == \E i \in ItemIds : items[i] # NoRow /\ items[i].session = s

\* A confirmation that has passed the recycle bin has written to it.
BinWritten ==
    \A a \in Actors, s \in SessionIds :
        /\ pc[a] \in {"markRestored", "setConfirmed"} /\ job[a] = s
        /\ sessions[s].op = "delete"
        => InBin(s)

\* Every confirmed deletion has left a row in the recycle bin, or had: the
\* row is written before the session is marked, whatever crashes, fails or
\* answers twice (confirm_apply, README.en.md "recoverable deletion").
ConfirmedDeleteInBin ==
    \A s \in SessionIds :
        sessions[s].status = "confirmed" /\ sessions[s].op = "delete" =>
            InBin(s)

\* A confirmation marks a row restored only once its rule is permanent:
\* whatever the permanent call answered, and though the watchdog may be undoing
\* the trial it confirms (confirm_apply).  firewalld, one request at a time;
\* rules with a lifetime are never permanent.
RestoredIsBack ==
    [][\A w \in Workers :
           MarkRestored(w) => LET s == sessions[job[w]] IN s.temp \/ s.rule \in permanent]_vars

\* A restoration that found its rule in force marks the row restored while the
\* rule is there (restore_recycle, 'already_restored').
FoundIsBack ==
    [][\A w \in Workers : MarkFound(w) => items[job[w]].rule \in runtime]_vars

Confirming(s) == \E w \in Workers : pc[w] \in ConfirmPC /\ job[w] = s

\* A session whose deadline has passed while no confirmation of it was under
\* way is never confirmed afterwards, by whoever asks and however often
\* (confirm_apply; README.en.md "Confirm connectivity within 90 seconds, or
\* the watchdog rolls it back").
Lapsed(s) ==
    /\ sessions[s].status \in {"pending", "rolled_back", "rollback_failed"}
    /\ s \in overdue /\ ~Confirming(s)
LapsedStaysLapsed == [][\A s \in SessionIds : Lapsed(s) => Lapsed(s)']_vars

Quiet == up /\ \A a \in Actors : pc[a] = "idle"

HasItem(r) == \E i \in ItemIds : items[i] # NoRow /\ items[i].rule = r
Asked(r)   == \E d \in Drafts : drafts[d] # NoRow /\ drafts[d].op = "add"
                                 /\ drafts[d].rule = r

\* Once nobody is in the middle of a handler, a rule that was permanent and
\* no longer is has been written to the recycle bin: neither a failing call
\* nor its compensation loses a permanent rule (README.en.md "Moves deleted
\* rules [...] into an integrity-checked recycle bin before permanent
\* removal").
NothingLost == Quiet => \A r \in start.permanent \ permanent : HasItem(r)

\* The same with whatever requests race each other, the watchdog and the
\* emergency process, over one session or several: nothing that is deleted is
\* lost.  Without a crash and of at most one call that fails on its own; where
\* nobody asks to add the rule, for a refused addition is "compensated" by a
\* permanent deletion (confirm_apply; ApplyCompensation.cfg).
DeletionsKept ==
    Quiet /\ crashes = 0 /\ faults =< 1 =>
        \A r \in start.permanent \ permanent : HasItem(r) \/ Asked(r)

\* What the confirmed changes alone make of a rule.
ConfirmedOn(r) ==
    {s \in SessionIds : sessions[s].status = "confirmed" /\ sessions[s].rule = r}
Expected(r, before) ==
    IF ConfirmedOn(r) = {}
    THEN r \in before
    ELSE \E s \in ConfirmedOn(r) : /\ \A t \in ConfirmedOn(r) : t =< s
                                   /\ sessions[s].op = "add"

\* Nothing on trial, nothing under way, no rollback known to have failed.
Settled(r) ==
    /\ Quiet
    /\ \A s \in SessionIds :
           sessions[s] # NoRow /\ sessions[s].rule = r =>
               sessions[s].status \in {"confirmed", "rolled_back"}

\* A draft whose runtime call raised, or whose request died, stays 'applying'.
Stranded(r) ==
    \E d \in Drafts : drafts[d].status = "applying" /\ drafts[d].rule = r

\* When every trial of a rule is settled, the firewall holds what the
\* confirmed changes made of it and no trace of the others (README.en.md
\* "Unconfirmed changes roll back automatically").
RuntimeSettled ==
    \A r \in Rules : Settled(r) /\ ~Stranded(r) =>
        (r \in runtime <=> Expected(r, start.runtime))

\* The same for firewalld's permanent rules.
PermanentSettled ==
    \A r \in Rules : Settled(r) /\ ~Stranded(r) =>
        (r \in permanent <=> Expected(r, start.permanent))

\* The same, stranded drafts included: no change is in force that no session
\* could roll back.
NothingUntracked ==
    \A r \in Rules : Settled(r) =>
        (r \in runtime <=> Expected(r, start.runtime))

\* A settled session stays as it was settled (docs/api.md, the fixed state
\* machine: "confirmed" and "rolled_back / rollback_failed" are its ends).
SettledIsFinal ==
    [][\A s \in SessionIds :
           sessions[s].status \in {"confirmed", "rolled_back", "rollback_failed"}
               => sessions'[s].status = sessions[s].status]_vars

\* The administrator stopped the web process; nothing starts it again.
Stopped == ~up /\ ~restartDue

\* A trial that nobody confirms does not stay: the session's deadline comes
\* and the watchdog, the administrator or the emergency process settles it;
\* with the unit stopped for good, unless one of ExecStopPost's calls failed
\* (README.en.md "Unconfirmed changes roll back automatically").
EverySessionSettles ==
    \A s \in SessionIds :
        sessions[s].status = "pending" ~>
            sessions[s].status # "pending" \/ (Stopped /\ faults > 0)

\* A lapsed temporary rule does not stay on the schedule while the web process
\* is running or to be started, though a failing rollback ends the watchdog's
\* round before it looks at the schedule (expire_temporary_rules).
EveryDueRuleExpires ==
    \A r \in Rules : schedule[r] = "due" ~> schedule[r] # "due" \/ Stopped
=============================================================================
