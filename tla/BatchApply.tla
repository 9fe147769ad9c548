---------------------------- MODULE BatchApply ----------------------------
(***************************************************************************)
(* Batches of rules and advanced objects on firewalld: imports, batch      *)
(* deletions, their restoration from the recycle bin, and drafts of one    *)
(* object.  Each is tried member by member, undone member by member when   *)
(* one of them is refused, and confirmed or rolled back as a whole         *)
(* (wallpilot/control.py, begin_batch_apply and begin_object_apply).       *)
(*                                                                         *)
(* A step is one adapter call or one SQLite transaction.  One handler runs *)
(* at a time; trials may overlap.  ApplyProtocol has the interleavings of  *)
(* handlers.                                                               *)
(***************************************************************************)
EXTENDS Naturals, FiniteSets

CONSTANTS
    Rules,      \* rules, and whatever else the settings of an object list
    Objects,    \* IP sets, services, zones and policies
    Rank,       \* of an object: object_order of its type, 0 .. 3
    Home,       \* the object a rule is in; None: the default zone
    Needs,      \* the objects an object requires
    Temp,       \* rules with a lifetime, which are never made permanent
    Drafts,     \* draft ids
    MaxFaults,  \* bound: adapter calls that fail on their own
    MaxCrashes, \* bound: stops of the web process, reboots included
    None        \* no object, no draft

Members == Rules \cup Objects

ASSUME MemberAssumption ==
    /\ Rules \cap Objects = {} /\ None \notin Objects \cup Drafts
    /\ Rank \in [Objects -> 0 .. 3]
    /\ Home \in [Rules -> Objects \cup {None}]
    /\ Needs \in [Objects -> SUBSET Objects]
    /\ Temp \subseteq Rules
ASSUME CountAssumption == MaxFaults \in Nat /\ MaxCrashes \in Nat

VARIABLES
    run, perm,  \* the configuration in force, and the permanent one
    drafts,     \* table drafts
    sessions,   \* table apply_sessions, by draft: a draft has at most one
    bin,        \* table recycle_bin: status by deleting draft and member
    pc,         \* what the handler does next
    job,        \* the draft it works on
    todo, done, \* members still to do, members done
    found,      \* what it read of the objects: contents, and one before update
    faults, crashes,
    base        \* history: how the last draft begun found the firewall

config == <<run, perm>>
tables == <<drafts, sessions, bin>>
handler == <<pc, job, todo, done, found>>
vars == <<config, tables, handler, faults, crashes, base>>

----------------------------------------------------------------------------
(* Configurations.  An object comes and goes with the rules inside it.     *)

Inside(S) == {r \in Rules : Home[r] \in S}

Config ==
    {c \in [objs : SUBSET Objects, rules : SUBSET Rules] :
        \A r \in c.rules : Home[r] \in c.objs \cup {None}}

Created(c, o, content) ==
    [objs |-> c.objs \cup {o}, rules |-> c.rules \cup (content \cap Inside({o}))]

\* Mutant: the rules of a deleted zone stay behind.
RemovedBare(c, o) == [objs |-> c.objs \ {o}, rules |-> c.rules]

Removed(c, o) == [objs |-> c.objs \ {o}, rules |-> c.rules \ Inside({o})]

Content(c, S) == c.rules \cap Inside(S)

----------------------------------------------------------------------------
(* The adapter.  firewalld refuses a rule of a zone it does not have, one  *)
(* it is to add and has, one it is to remove and has not.                  *)

RuleRefused(c, op, r) ==
    \/ Home[r] \notin c.objs \cup {None}
    \/ op = "add" <=> r \in c.rules

RuleEffect(c, op, r) ==
    [c EXCEPT !.rules = IF op = "add" THEN @ \cup {r} ELSE @ \ {r}]

RuleResults(c, op, r) ==
    IF RuleRefused(c, op, r)
    THEN {[ok |-> FALSE, conf |-> c, fault |-> 0]}
    ELSE {[ok |-> TRUE, conf |-> RuleEffect(c, op, r), fault |-> 0]}
         \cup {[ok |-> FALSE, conf |-> x, fault |-> 1] :
                  x \in IF faults < MaxFaults
                        THEN {c, RuleEffect(c, op, r)} ELSE {}}

(* An object is created or deleted permanently, and a reload makes the     *)
(* permanent configuration the one in force.  A failure leaves what was    *)
(* done before it: _create_object takes back an object it could not fill,  *)
(* nothing takes back one whose reload failed.                             *)

Outcome(ok, r, p, n) == [ok |-> ok, run |-> r, perm |-> p, fault |-> n]

ObjectEffect(op, o, content) ==
    IF op = "add" THEN Created(perm, o, content) ELSE Removed(perm, o)

ObjectResults(op, o, content) ==
    LET new == ObjectEffect(op, o, content) IN
    IF op = "add" <=> o \in perm.objs
    THEN {Outcome(FALSE, run, perm, 0)}
    ELSE {Outcome(TRUE, new, new, 0)}
         \cup IF faults < MaxFaults
              THEN {Outcome(FALSE, run, perm, 1), Outcome(FALSE, run, new, 1),
                    Outcome(FALSE, new, new, 1),
                    Outcome(FALSE, run, ObjectEffect(op, o, {}), 1)}
              ELSE {}

(* An update deletes, creates and reloads; on any failure it deletes again *)
(* and creates the original, unless that fails too.                        *)

UpdateResults(o, new, old) ==
    LET gone == Removed(perm, o)
        changed == Created(gone, o, new)
        original == Created(gone, o, old)
    IN
    IF o \in perm.objs
    THEN {Outcome(TRUE, changed, changed, 0)}
         \cup IF faults < MaxFaults
              THEN {Outcome(FALSE, run, perm, 1),
                    Outcome(FALSE, original, original, 1),
                    Outcome(FALSE, changed, changed, 1)}
              ELSE {}
         \cup IF faults + 1 < MaxFaults
              THEN {Outcome(FALSE, run, gone, 2), Outcome(FALSE, run, original, 2)}
              ELSE {}
    ELSE {Outcome(FALSE, original, original, 0)}
         \cup IF faults < MaxFaults
              THEN {Outcome(FALSE, run, perm, 1), Outcome(FALSE, run, original, 1)}
              ELSE {}

\* One member of a batch: a rule is tried at runtime only.
MemberResults(op, m, content, old) ==
    IF m \in Rules
    THEN {Outcome(x.ok, x.conf, perm, x.fault) : x \in RuleResults(run, op, m)}
    ELSE IF op = "update" THEN UpdateResults(m, content, old)
    ELSE ObjectResults(op, m, content)

Call(res) ==
    /\ run' = res.run /\ perm' = res.perm
    /\ faults' = faults + res.fault

----------------------------------------------------------------------------
(* Rows.                                                                   *)

NoRow == [status |-> "none"]

DraftRow ==
    [status   : {"pending", "applying", "confirmed", "rolled_back"},
     op       : {"add", "delete", "update"},
     members  : SUBSET Members,
     content  : SUBSET Rules,              \* what the objects list
     restores : SUBSET (Drafts \X Members)] \* restore_recycle_ids

Snapshot == [content : SUBSET Rules,  \* of its objects, as created or found
             old     : SUBSET Rules]  \* of an updated object, before
Nothing == [content |-> {}, old |-> {}]

SessionRow ==
    [status  : {"pending", "confirmed", "rolled_back", "rollback_failed"},
     objects : Snapshot]

Init ==
    /\ run \in Config /\ perm = run
    /\ drafts = [d \in Drafts |-> NoRow]
    /\ sessions = [d \in Drafts |-> NoRow]
    /\ bin = [d \in Drafts |-> [m \in Members |-> "none"]]
    /\ pc = "idle" /\ job = None /\ todo = {} /\ done = {}
    /\ found = Nothing
    /\ faults = 0 /\ crashes = 0
    /\ base = [draft |-> None, alone |-> FALSE, run |-> run, perm |-> perm]

----------------------------------------------------------------------------
(* Preparing drafts.                                                       *)

NewDraft(d, op, members, content, restores) ==
    /\ drafts[d] = NoRow
    /\ drafts' = [drafts EXCEPT ![d] =
           [status |-> "pending", op |-> op, members |-> members,
            content |-> content, restores |-> restores]]

\* prepare_import: what exists already is skipped, an object that exists with
\* other settings refuses the import.
MissingRules(R)   == R \ run.rules
MissingObjects(O) == O \ perm.objs
Importable(O, content) ==
    \A o \in O \cap perm.objs :
        Content(perm, {o}) = content \cap Inside({o})

PrepareImport(d, R, O, content) ==
    LET new == MissingRules(R) \cup MissingObjects(O) IN
    /\ Importable(O, content)
    /\ new # {}
    /\ NewDraft(d, "add", new, content \cap Inside(MissingObjects(O)), {})
    /\ UNCHANGED <<config, sessions, bin, handler, faults, crashes, base>>

\* prepare_delete_batch: everything selected is there.
PrepareDelete(d, R, O) ==
    /\ R \subseteq run.rules /\ O \subseteq perm.objs
    /\ R \cup O # {}
    /\ NewDraft(d, "delete", R \cup O, Content(perm, O), {})
    /\ UNCHANGED <<config, sessions, bin, handler, faults, crashes, base>>

\* A draft of one object is not compared with the firewall before it is tried.
PrepareObject(d, op, o, content) ==
    /\ op \in {"add", "delete", "update"}
    /\ NewDraft(d, op, {o}, content \cap Inside({o}), {})
    /\ UNCHANGED <<config, sessions, bin, handler, faults, crashes, base>>

Deleted(b) == {m \in Members : bin[b][m] = "deleted"}

\* Restoring a deleted batch, or one object of it: what exists already is
\* marked restored, the rest becomes an import.
Restore(d, b, S) ==
    LET R == S \cap Rules  O == S \cap Objects
        new == MissingRules(R) \cup MissingObjects(O)
    IN
    /\ S # {} /\ S \subseteq Deleted(b)
    /\ S = Deleted(b) \/ \E o \in Objects : S = {o}
    /\ \A o \in O : Needs[o] \subseteq O \cup perm.objs
    /\ Importable(O, sessions[b].objects.content)
    /\ bin' = [bin EXCEPT ![b] = [m \in Members |->
           IF m \in S \ new THEN "restored" ELSE bin[b][m]]]
    /\ IF new = {} THEN UNCHANGED drafts
       ELSE NewDraft(d, "add", new,
                     sessions[b].objects.content \cap Inside(MissingObjects(O)),
                     {b} \X new)
    /\ UNCHANGED <<config, sessions, handler, faults, crashes, base>>

----------------------------------------------------------------------------
(* The handler.                                                            *)

Work(d, label, S) == pc' = label /\ job' = d /\ todo' = S /\ done' = {}
Return == Work(None, "idle", {}) /\ found' = Nothing

Go(label, S) == Work(job, label, S) /\ UNCHANGED found
Did(m) ==
    /\ todo' = todo \ {m} /\ done' = done \cup {m}
    /\ UNCHANGED <<pc, job, found>>

\* Objects before rules and by rank when adding, the other way round when
\* deleting; equals in any order.
Level(m) == IF m \in Rules THEN 4 ELSE Rank[m]

\* Mutant: members are taken in any order.
TurnAny(op, S) == S

Turn(op, S) ==
    {m \in S : \A n \in S :
        IF op = "delete" THEN Level(n) =< Level(m) ELSE Level(m) =< Level(n)}

Inverse(op) == CASE op = "add" -> "delete" [] op = "delete" -> "add"
                 [] op = "update" -> "update"

Op == drafts[job].op
Batch == drafts[job].members

Pending == {d \in Drafts : sessions[d].status = "pending"}

\* The objects to delete, and the object to update, are taken as they are now.
Found(d) ==
    LET now == Content(perm, drafts[d].members \cap Objects) IN
    [content |-> IF drafts[d].op = "delete" THEN now ELSE drafts[d].content,
     old     |-> IF drafts[d].op = "update" THEN now ELSE {}]

StillThere(d) ==
    \/ drafts[d].op = "add"
    \/ drafts[d].members \subseteq run.rules \cup perm.objs

\* POST /drafts/{id}/confirm: begin_batch_apply or begin_object_apply.  If what
\* is to be deleted or updated has gone, the draft stays 'applying'.
Begin(d) ==
    /\ pc = "idle"
    /\ drafts[d].status = "pending"
    /\ drafts' = [drafts EXCEPT ![d].status = "applying"]
    /\ base' = [draft |-> d, alone |-> Pending = {}, run |-> run, perm |-> perm]
    /\ IF StillThere(d)
       THEN Work(d, "apply", drafts[d].members) /\ found' = Found(d)
       ELSE UNCHANGED handler
    /\ UNCHANGED <<config, sessions, bin, faults, crashes>>

ApplyMember ==
    /\ pc = "apply"
    /\ \E m \in Turn(Op, todo) :
       \E res \in MemberResults(Op, m, found.content, found.old) :
           /\ Call(res)
           /\ IF res.ok THEN Did(m) ELSE Go("undo", done)
    /\ UNCHANGED <<tables, crashes, base>>

\* The members done are undone in the opposite order, whatever that answers,
\* and the request ends.
UndoMember ==
    /\ pc = "undo"
    /\ \E m \in Turn(Inverse(Op), todo) :
       \E res \in MemberResults(Inverse(Op), m, found.content, found.content) :
           Call(res) /\ Did(m)
    /\ UNCHANGED <<tables, crashes, base>>

GiveUp ==
    /\ pc = "undo" /\ todo = {}
    /\ Return
    /\ UNCHANGED <<config, tables, faults, crashes, base>>

OpenSession ==
    /\ pc = "apply" /\ todo = {}
    /\ sessions' = [sessions EXCEPT ![job] =
           [status |-> "pending", objects |-> found]]
    /\ Return
    /\ UNCHANGED <<config, drafts, bin, faults, crashes, base>>

----------------------------------------------------------------------------
(* confirm_apply.  Objects are permanent since they were tried.            *)

Lasting(d) ==
    LET R == drafts[d].members \cap Rules IN
    IF drafts[d].op = "add" THEN R \ Temp ELSE R

Confirm(d) ==
    /\ pc = "idle"
    /\ sessions[d].status = "pending"
    /\ Work(d, "persist", Lasting(d)) /\ UNCHANGED found
    /\ UNCHANGED <<config, tables, faults, crashes, base>>

PermanentCall(op, r, ok) ==
    \E res \in RuleResults(perm, op, r) :
        /\ perm' = res.conf /\ faults' = faults + res.fault
        /\ ok = res.ok
        /\ UNCHANGED run

Persist ==
    /\ pc = "persist"
    /\ \E r \in todo, ok \in BOOLEAN :
           /\ PermanentCall(Op, r, ok)
           /\ IF ok THEN Did(r) ELSE Go("unpersist", done)
    /\ UNCHANGED <<tables, crashes, base>>

\* The rules made permanent are taken back, whatever that answers; then the
\* trial is rolled back.
Unpersist ==
    /\ pc = "unpersist"
    /\ \E r \in todo, ok \in BOOLEAN : PermanentCall(Inverse(Op), r, ok) /\ Did(r)
    /\ UNCHANGED <<tables, crashes, base>>

PersistenceFailed ==
    /\ pc = "unpersist" /\ todo = {}
    /\ Go("rollback", Batch)
    /\ UNCHANGED <<config, tables, faults, crashes, base>>

\* Mutant: the objects of a deleted batch are forgotten.
RecordsOfRules ==
    IF Op = "delete" THEN {job} \X (Batch \cap Rules) ELSE drafts[job].restores

\* A deletion writes a recycle bin row for each member, a restoration marks
\* its rows.
RecordsOf ==
    IF Op = "delete" THEN {job} \X Batch ELSE drafts[job].restores

Persisted ==
    /\ pc = "persist" /\ todo = {}
    /\ Go("record", RecordsOf)
    /\ UNCHANGED <<config, tables, faults, crashes, base>>

Record ==
    /\ pc = "record"
    /\ \E row \in todo :
           /\ bin' = [bin EXCEPT ![row[1]][row[2]] =
                         IF Op = "delete" THEN "deleted" ELSE "restored"]
           /\ Did(row)
    /\ UNCHANGED <<config, drafts, sessions, faults, crashes, base>>

Recorded ==
    /\ pc = "record" /\ todo = {}
    /\ sessions' = [sessions EXCEPT ![job].status = "confirmed"]
    /\ Go("draftConfirmed", {})
    /\ UNCHANGED <<config, drafts, bin, faults, crashes, base>>

DraftConfirmed ==
    /\ pc = "draftConfirmed"
    /\ drafts' = [drafts EXCEPT ![job].status = "confirmed"]
    /\ Return
    /\ UNCHANGED <<config, sessions, bin, faults, crashes, base>>

----------------------------------------------------------------------------
(* rollback_apply, on request or from the watchdog: it stops at the first  *)
(* member that cannot be taken back.                                       *)

RollBack(d) ==
    /\ pc = "idle"
    /\ sessions[d].status = "pending"
    /\ Work(d, "rollback", drafts[d].members) /\ UNCHANGED found
    /\ UNCHANGED <<config, tables, faults, crashes, base>>

RollBackMember ==
    /\ pc = "rollback"
    /\ \E m \in Turn(Inverse(Op), todo) :
       LET was == sessions[job].objects
           content == IF Op = "update" THEN was.old ELSE was.content
       IN
       \E res \in MemberResults(Inverse(Op), m, content, was.content) :
           /\ Call(res)
           /\ IF res.ok THEN Did(m) ELSE Go("rollbackFailed", {})
    /\ UNCHANGED <<tables, crashes, base>>

SetRolledBack ==
    /\ pc = "rollback" /\ todo = {}
    /\ sessions' = [sessions EXCEPT ![job].status = "rolled_back"]
    /\ Go("draftRolledBack", {})
    /\ UNCHANGED <<config, drafts, bin, faults, crashes, base>>

DraftRolledBack ==
    /\ pc = "draftRolledBack"
    /\ drafts' = [drafts EXCEPT ![job].status = "rolled_back"]
    /\ Return
    /\ UNCHANGED <<config, sessions, bin, faults, crashes, base>>

SetRollbackFailed ==
    /\ pc = "rollbackFailed"
    /\ sessions' = [sessions EXCEPT ![job].status = "rollback_failed"]
    /\ Return
    /\ UNCHANGED <<config, drafts, bin, faults, crashes, base>>

----------------------------------------------------------------------------
(* The process stops in the middle of anything; a reboot also makes the    *)
(* permanent configuration the one in force.                               *)

Crash ==
    /\ crashes < MaxCrashes
    /\ crashes' = crashes + 1
    /\ run' \in {run, perm} /\ UNCHANGED perm
    /\ Return
    /\ UNCHANGED <<tables, faults, base>>

----------------------------------------------------------------------------
Prepare(d) ==
    \/ \E R \in SUBSET Rules, O \in SUBSET Objects :
           \/ \E content \in SUBSET Inside(O) : PrepareImport(d, R, O, content)
           \/ PrepareDelete(d, R, O)
    \/ \E op \in {"add", "delete", "update"}, o \in Objects :
           \E content \in SUBSET Inside({o}) : PrepareObject(d, op, o, content)
    \/ \E b \in Drafts : \E S \in SUBSET Deleted(b) : Restore(d, b, S)

Handle ==
    \/ ApplyMember \/ UndoMember \/ GiveUp \/ OpenSession
    \/ Persist \/ Unpersist \/ PersistenceFailed \/ Persisted
    \/ Record \/ Recorded \/ DraftConfirmed
    \/ RollBackMember \/ SetRolledBack \/ DraftRolledBack \/ SetRollbackFailed

Next ==
    \/ \E d \in Drafts : Prepare(d) \/ Begin(d) \/ Confirm(d) \/ RollBack(d)
    \/ Handle
    \/ Crash

Spec == Init /\ [][Next]_vars

----------------------------------------------------------------------------
TypeOK ==
    /\ run \in Config /\ perm \in Config
    /\ drafts \in [Drafts -> {NoRow} \cup DraftRow]
    /\ sessions \in [Drafts -> {NoRow} \cup SessionRow]
    /\ bin \in [Drafts -> [Members -> {"none", "deleted", "restored"}]]
    /\ pc \in {"idle", "apply", "undo", "persist", "unpersist", "record",
               "draftConfirmed", "rollback", "draftRolledBack",
               "rollbackFailed"}
    /\ job \in Drafts \cup {None}
    /\ todo \in SUBSET (Members \cup (Drafts \X Members))
    /\ done \in SUBSET (Members \cup (Drafts \X Members))
    /\ found \in Snapshot
    /\ faults \in 0 .. MaxFaults /\ crashes \in 0 .. MaxCrashes

\* A confirmed deletion has a recycle bin row for every rule and object of the
\* batch, however often it was begun again after a crash between two rows
\* (confirm_apply; README.md "multi-select deletion restored as a whole").
DeletedBatchInBin ==
    \A d \in Drafts :
        sessions[d].status = "confirmed" /\ drafts[d].op = "delete" =>
            \A m \in drafts[d].members : bin[d][m] # "none"

\* The configuration after a batch, as asked for.
After(c, d, rules) ==
    LET M == drafts[d].members
        O == M \cap Objects
        content == sessions[d].objects.content
    IN
    CASE drafts[d].op = "add" ->
             [objs |-> c.objs \cup O, rules |-> c.rules \cup rules \cup content]
      [] drafts[d].op = "delete" ->
             [objs |-> c.objs \ O, rules |-> c.rules \ (M \cup Inside(O))]
      [] drafts[d].op = "update" ->
             [objs |-> c.objs, rules |-> (c.rules \ Inside(O)) \cup content]

Whole(d) ==
    IF sessions[d].status = "confirmed"
    THEN /\ run = After(base.run, d, drafts[d].members \cap Rules)
         /\ perm = After(base.perm, d, Lasting(d))
    ELSE /\ sessions[d].status \in {"none", "rolled_back"}
         /\ run = base.run /\ perm = base.perm

Judged(d) ==
    /\ pc = "idle" /\ d = base.draft
    /\ base.alone /\ sessions[d].status # "pending"
    /\ faults = 0 /\ crashes = 0

\* A batch is applied as a whole or not at all: while every call is answered
\* truly and no other trial is open, a refused, rolled back or unconfirmed
\* batch leaves no trace and a confirmed one all of it (begin_batch_apply,
\* confirm_apply, rollback_apply; README.en.md "Unconfirmed changes roll back
\* automatically").
BatchIsWhole == \A d \in Drafts : Judged(d) => Whole(d)

\* Batches the reload in an object's change does not disturb.
Separable(d) ==
    LET M == drafts[d].members IN
    /\ M \cap Objects # {} => base.run = base.perm
    /\ drafts[d].op = "delete" => M \subseteq Rules \/ M \subseteq Objects
    /\ drafts[d].op = "add" => M \cap drafts[d].content = {}

\* The same of the batches the code gets right.
SeparableBatchIsWhole ==
    \A d \in Drafts : Judged(d) /\ Separable(d) => Whole(d)
=============================================================================
