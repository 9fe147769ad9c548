---------------------------- MODULE BatchProofs ----------------------------
(***************************************************************************)
(* Theorems about BatchApply, for any rules, objects, drafts, faults and   *)
(* crashes: types, the recycle bin rows of confirmed batch deletions, and  *)
(* that a separable batch is applied as a whole or not at all.             *)
(***************************************************************************)
EXTENDS BatchApply, TLAPS

(* The inductive invariant.  TypeOK is not inductive: that todo holds what *)
(* the step at hand takes from it, and that the rows it updates exist,     *)
(* depends on where the handler is.                                        *)

SessionsHaveDrafts ==
    \A d \in Drafts : sessions[d] # NoRow => drafts[d] # NoRow

HasDraft == pc # "idle" => job \in Drafts /\ drafts[job] # NoRow

HasSession ==
    pc \in {"persist", "unpersist", "record", "draftConfirmed", "rollback",
            "draftRolledBack", "rollbackFailed"} => sessions[job] # NoRow

TodoKinds ==
    /\ pc \in {"apply", "undo", "rollback"} => todo \cup done \subseteq Members
    /\ pc \in {"persist", "unpersist"} => todo \cup done \subseteq Rules
    /\ pc = "record" => todo \subseteq Drafts \X Members

\* While rows are written, each member of a deletion has its row or its turn
\* to come.
Recording ==
    pc = "record" /\ drafts[job].op = "delete" =>
        \A m \in drafts[job].members :
            bin[job][m] # "none" \/ <<job, m>> \in todo

Inv ==
    /\ TypeOK
    /\ SessionsHaveDrafts
    /\ HasDraft
    /\ HasSession
    /\ TodoKinds
    /\ Recording
    /\ DeletedBatchInBin

----------------------------------------------------------------------------
(* Configurations stay well formed.                                        *)

\* An object with the rules inside it may be added to a configuration, and
\* taken from it (_create_object, _delete_object).
LEMMA ObjectConfigs ==
    ASSUME NEW c \in Config, NEW o \in Objects, NEW content
    PROVE  Created(c, o, content) \in Config /\ Removed(c, o) \in Config
BY MemberAssumption DEF Config, Created, Removed, Inside

\* A rule that is not refused may be added or removed (apply_rule).
LEMMA RuleConfigs ==
    ASSUME NEW c \in Config, NEW r \in Rules, NEW op, ~ RuleRefused(c, op, r)
    PROVE  RuleEffect(c, op, r) \in Config
<1>1. c = [objs |-> c.objs, rules |-> c.rules]
  BY DEF Config
<1>2. RuleEffect(c, op, r) =
          [objs |-> c.objs,
           rules |-> IF op = "add" THEN c.rules \cup {r} ELSE c.rules \ {r}]
  BY <1>1 DEF RuleEffect
<1> QED
  BY <1>2, MemberAssumption DEF Config, RuleRefused

\* What any answer to a call leaves: configurations, and faults within their
\* bound.
Sound(res) ==
    /\ res.run \in Config /\ res.perm \in Config
    /\ faults + res.fault \in 0 .. MaxFaults

LEMMA RuleResultsSound ==
    ASSUME NEW c \in Config, NEW r \in Rules, NEW op, faults \in 0 .. MaxFaults,
           NEW res \in RuleResults(c, op, r)
    PROVE  /\ res.conf \in Config
           /\ faults + res.fault \in 0 .. MaxFaults
<1>1. CASE RuleRefused(c, op, r)
  BY <1>1, CountAssumption DEF RuleResults
<1>2. CASE ~ RuleRefused(c, op, r)
  BY <1>2, RuleConfigs, CountAssumption DEF RuleResults
<1> QED BY <1>1, <1>2

LEMMA ObjectResultsSound ==
    ASSUME run \in Config, perm \in Config, faults \in 0 .. MaxFaults,
           NEW o \in Objects, NEW op, NEW content,
           NEW res \in ObjectResults(op, o, content)
    PROVE  Sound(res)
<1>1. ObjectEffect(op, o, content) \in Config /\ ObjectEffect(op, o, {}) \in Config
  BY ObjectConfigs DEF ObjectEffect
<1> QED
  BY <1>1, CountAssumption DEF ObjectResults, Outcome, Sound

LEMMA UpdateResultsSound ==
    ASSUME run \in Config, perm \in Config, faults \in 0 .. MaxFaults,
           NEW o \in Objects, NEW new, NEW old,
           NEW res \in UpdateResults(o, new, old)
    PROVE  Sound(res)
<1> DEFINE gone == Removed(perm, o)
           changed == Created(gone, o, new)
           original == Created(gone, o, old)
<1>1. gone \in Config /\ changed \in Config /\ original \in Config
  <2>1. gone \in Config
    BY ObjectConfigs
  <2> HIDE DEF gone
  <2> QED BY <2>1, ObjectConfigs
<1> HIDE DEF gone, changed, original
<1>2. \/ res = Outcome(TRUE, changed, changed, 0)
      \/ res = Outcome(FALSE, original, original, 0)
      \/ /\ faults < MaxFaults
         /\ \E x \in {run, original, changed}, y \in {perm, original, changed} :
                res = Outcome(FALSE, x, y, 1)
      \/ /\ faults + 1 < MaxFaults
         /\ \E y \in {gone, original} : res = Outcome(FALSE, run, y, 2)
  BY DEF UpdateResults, gone, changed, original
<1> QED
  BY <1>1, <1>2, CountAssumption DEF Outcome, Sound

LEMMA MemberResultsSound ==
    ASSUME run \in Config, perm \in Config, faults \in 0 .. MaxFaults,
           NEW m \in Members, NEW op, NEW content, NEW old,
           NEW res \in MemberResults(op, m, content, old)
    PROVE  Sound(res)
<1>1. CASE m \in Rules
  <2>1. PICK x \in RuleResults(run, op, m) :
            res = Outcome(x.ok, x.conf, perm, x.fault)
    BY <1>1 DEF MemberResults
  <2> QED BY <1>1, <2>1, RuleResultsSound DEF Outcome, Sound
<1>2. CASE m \notin Rules
  <2>1. m \in Objects
    BY <1>2 DEF Members
  <2>2. CASE op = "update"
    BY <1>2, <2>1, <2>2, UpdateResultsSound DEF MemberResults
  <2>3. CASE op # "update"
    BY <1>2, <2>1, <2>3, ObjectResultsSound DEF MemberResults
  <2> QED BY <2>2, <2>3
<1> QED BY <1>1, <1>2

----------------------------------------------------------------------------
(* Rows.                                                                   *)

\* A row that is there is no NoRow, and NoRow has no status of a row.
LEMMA RowTypes ==
    /\ NoRow \notin DraftRow /\ NoRow \notin SessionRow
    /\ NoRow.status \notin {"pending", "applying", "confirmed"}
BY DEF NoRow, DraftRow, SessionRow

\* Every draft keeps what it is for, once it is written.
DraftsKeep ==
    \A d \in Drafts : drafts[d] # NoRow =>
        /\ drafts'[d] # NoRow
        /\ drafts'[d].op = drafts[d].op
        /\ drafts'[d].members = drafts[d].members
        /\ drafts'[d].content = drafts[d].content

\* No recycle bin row is taken away.
BinKeeps ==
    \A d \in Drafts, m \in Members : bin[d][m] # "none" => bin'[d][m] # "none"

\* The status of a draft changes and nothing else of it.
LEMMA DraftStatus ==
    ASSUME Inv, NEW d \in Drafts, drafts[d] # NoRow,
           NEW s \in {"applying", "confirmed", "rolled_back"},
           drafts' = [drafts EXCEPT ![d].status = s]
    PROVE  drafts' \in [Drafts -> {NoRow} \cup DraftRow] /\ DraftsKeep
<1>1. drafts[d] \in DraftRow /\ drafts'[d] = [drafts[d] EXCEPT !.status = s]
  BY DEF Inv, TypeOK
<1>2. /\ drafts'[d] \in DraftRow /\ drafts'[d] # NoRow
      /\ drafts'[d].op = drafts[d].op /\ drafts'[d].members = drafts[d].members
      /\ drafts'[d].content = drafts[d].content
  BY <1>1 DEF DraftRow, NoRow
<1>3. \A e \in Drafts \ {d} : drafts'[e] = drafts[e]
  BY DEF Inv, TypeOK
<1>4. drafts' \in [Drafts -> {NoRow} \cup DraftRow]
  BY <1>2 DEF Inv, TypeOK
<1> QED BY <1>2, <1>3, <1>4 DEF DraftsKeep

\* The status of a session changes.
LEMMA SessionStatus ==
    ASSUME Inv, NEW d \in Drafts, sessions[d] # NoRow,
           NEW s \in {"confirmed", "rolled_back", "rollback_failed"},
           sessions' = [sessions EXCEPT ![d].status = s]
    PROVE  /\ sessions' \in [Drafts -> {NoRow} \cup SessionRow]
           /\ \A e \in Drafts :
                  /\ sessions'[e] = NoRow <=> sessions[e] = NoRow
                  /\ sessions'[e].status =
                         IF e = d THEN s ELSE sessions[e].status
                  /\ sessions'[e].objects = sessions[e].objects
<1>1. /\ sessions[d] \in SessionRow
      /\ sessions'[d] = [sessions[d] EXCEPT !.status = s]
  BY DEF Inv, TypeOK
<1>2. /\ sessions'[d] \in SessionRow /\ sessions'[d] # NoRow
      /\ sessions'[d].status = s /\ sessions'[d].objects = sessions[d].objects
  BY <1>1 DEF SessionRow, NoRow
<1>3. \A e \in Drafts \ {d} : sessions'[e] = sessions[e]
  BY DEF Inv, TypeOK
<1>4. sessions' \in [Drafts -> {NoRow} \cup SessionRow]
  BY <1>2 DEF Inv, TypeOK
<1> QED BY <1>2, <1>3, <1>4

\* A step that leaves rows alone, and the statuses of sessions, keeps what
\* the rows promise.
LEMMA RowsKept ==
    ASSUME Inv, DraftsKeep, UNCHANGED sessions,
           BinKeeps
    PROVE  SessionsHaveDrafts' /\ DeletedBatchInBin'
<1>1. SessionsHaveDrafts'
  BY DEF Inv, SessionsHaveDrafts, DraftsKeep
<1>2. DeletedBatchInBin'
  <2> SUFFICES ASSUME NEW d \in Drafts, sessions'[d].status = "confirmed",
                      drafts'[d].op = "delete", NEW m \in drafts'[d].members
               PROVE  bin'[d][m] # "none"
    BY DEF DeletedBatchInBin
  <2>1. sessions[d] # NoRow
    BY RowTypes
  <2>2. drafts[d] # NoRow
    BY <2>1 DEF Inv, SessionsHaveDrafts
  <2>3. drafts[d].op = "delete" /\ m \in drafts[d].members
    BY <2>2 DEF DraftsKeep
  <2>4. m \in Members
    BY <2>2, <2>3 DEF Inv, TypeOK, DraftRow
  <2> QED BY <2>3, <2>4 DEF Inv, DeletedBatchInBin, BinKeeps
<1> QED BY <1>1, <1>2

\* So does a step that leaves the handler alone, of what the handler relies on.
LEMMA HandlerKept ==
    ASSUME Inv, DraftsKeep, BinKeeps, UNCHANGED <<handler, sessions>>
    PROVE  HasDraft' /\ HasSession' /\ TodoKinds' /\ Recording'
<1>1. HasDraft'
  BY DEF Inv, HasDraft, DraftsKeep, handler
<1>2. HasSession'
  BY DEF Inv, HasSession, handler
<1>3. TodoKinds'
  BY DEF Inv, TodoKinds, handler
<1>4. Recording'
  <2> SUFFICES ASSUME pc = "record", drafts'[job].op = "delete",
                      NEW m \in drafts'[job].members
               PROVE  bin'[job][m] # "none" \/ <<job, m>> \in todo
    BY DEF Recording, handler
  <2>1. job \in Drafts /\ drafts[job] # NoRow
    BY DEF Inv, HasDraft
  <2>2. drafts[job].op = "delete" /\ m \in drafts[job].members
    BY <2>1 DEF DraftsKeep
  <2>3. m \in Members
    BY <2>1, <2>2 DEF Inv, TypeOK, DraftRow
  <2> QED BY <2>1, <2>2, <2>3 DEF Inv, Recording, BinKeeps
<1> QED BY <1>1, <1>2, <1>3, <1>4

\* An idle handler relies on nothing.
LEMMA IdleHandler ==
    ASSUME pc' = "idle"
    PROVE  HasDraft' /\ HasSession' /\ TodoKinds' /\ Recording'
BY DEF HasDraft, HasSession, TodoKinds, Recording

----------------------------------------------------------------------------
(* The steps.                                                              *)

LEMMA InitInv == Init => Inv
<1> SUFFICES ASSUME Init PROVE Inv
  OBVIOUS
<1>1. TypeOK
  BY CountAssumption DEF Init, TypeOK, Nothing, Snapshot
<1> QED
  BY <1>1, RowTypes DEF Init, Inv, SessionsHaveDrafts, HasDraft, HasSession,
     TodoKinds, Recording, DeletedBatchInBin, NoRow

\* A new draft is well formed and disturbs no other.
LEMMA DraftNew ==
    ASSUME Inv, NEW d \in Drafts, NEW op \in {"add", "delete", "update"},
           NEW members \in SUBSET Members, NEW content \in SUBSET Rules,
           NEW restores \in SUBSET (Drafts \X Members),
           NewDraft(d, op, members, content, restores)
    PROVE  drafts' \in [Drafts -> {NoRow} \cup DraftRow] /\ DraftsKeep
<1> DEFINE row == [status |-> "pending", op |-> op, members |-> members,
                   content |-> content, restores |-> restores]
<1>1. row \in DraftRow
  BY DEF DraftRow
<1>2. drafts[d] = NoRow /\ drafts' = [drafts EXCEPT ![d] = row]
  BY DEF NewDraft
<1> HIDE DEF row
<1> QED BY <1>1, <1>2 DEF Inv, TypeOK, DraftsKeep

\* A preparation touches drafts and recycle bin rows, and keeps them.
OnlyRows ==
    /\ drafts' \in [Drafts -> {NoRow} \cup DraftRow] /\ DraftsKeep
    /\ bin' \in [Drafts -> [Members -> {"none", "deleted", "restored"}]]
    /\ BinKeeps
    /\ UNCHANGED <<config, sessions, handler, faults, crashes>>

LEMMA PreparedRows ==
    ASSUME Inv, NEW d \in Drafts, Prepare(d)
    PROVE  OnlyRows
<1>1. ASSUME NEW R \in SUBSET Rules, NEW O \in SUBSET Objects, NEW content,
             PrepareImport(d, R, O, content)
      PROVE  OnlyRows
  <2>1. MissingRules(R) \cup MissingObjects(O) \in SUBSET Members
    BY DEF MissingRules, MissingObjects, Members
  <2>2. content \cap Inside(MissingObjects(O)) \in SUBSET Rules
    BY DEF Inside
  <2> QED BY <1>1, <2>1, <2>2, DraftNew DEF OnlyRows, PrepareImport, BinKeeps, Inv, TypeOK
<1>2. ASSUME NEW R \in SUBSET Rules, NEW O \in SUBSET Objects,
             PrepareDelete(d, R, O)
      PROVE  OnlyRows
  <2>1. R \cup O \in SUBSET Members /\ Content(perm, O) \in SUBSET Rules
    BY DEF Members, Content, Inside
  <2> QED BY <1>2, <2>1, DraftNew DEF OnlyRows, PrepareDelete, BinKeeps, Inv, TypeOK
<1>3. ASSUME NEW op \in {"add", "delete", "update"},
             NEW o \in Objects, NEW content,
             PrepareObject(d, op, o, content)
      PROVE  OnlyRows
  <2>1. {o} \in SUBSET Members /\ content \cap Inside({o}) \in SUBSET Rules
    BY DEF Members, Inside
  <2>2. NewDraft(d, op, {o}, content \cap Inside({o}), {})
    BY <1>3 DEF PrepareObject
  <2>3. drafts' \in [Drafts -> {NoRow} \cup DraftRow] /\ DraftsKeep
    BY <2>1, <2>2, DraftNew
  <2> QED BY <1>3, <2>3 DEF OnlyRows, PrepareObject, BinKeeps, Inv, TypeOK
<1>4. ASSUME NEW b \in Drafts, NEW S \in SUBSET Deleted(b), Restore(d, b, S)
      PROVE  OnlyRows
  <2> DEFINE O == S \cap Objects
             new == MissingRules(S \cap Rules) \cup MissingObjects(O)
             content == sessions[b].objects.content \cap Inside(MissingObjects(O))
  <2>1. /\ new \in SUBSET Members /\ content \in SUBSET Rules
        /\ {b} \X new \in SUBSET (Drafts \X Members)
    BY DEF MissingRules, MissingObjects, Members, Inside
  <2>2. /\ UNCHANGED drafts \/ NewDraft(d, "add", new, content, {b} \X new)
        /\ bin' = [bin EXCEPT ![b] = [m \in Members |->
                      IF m \in S \ new THEN "restored" ELSE bin[b][m]]]
        /\ UNCHANGED <<config, sessions, handler, faults, crashes>>
    BY <1>4 DEF Restore
  <2> HIDE DEF new, content
  <2>3. drafts' \in [Drafts -> {NoRow} \cup DraftRow] /\ DraftsKeep
    <3>1. CASE UNCHANGED drafts
      BY <3>1 DEF Inv, TypeOK, DraftsKeep
    <3>2. CASE NewDraft(d, "add", new, content, {b} \X new)
      BY <2>1, <3>2, DraftNew
    <3> QED BY <2>2, <3>1, <3>2
  <2>4. /\ bin' \in [Drafts -> [Members -> {"none", "deleted", "restored"}]]
        /\ BinKeeps
    BY <2>2 DEF Inv, TypeOK, BinKeeps
  <2> QED BY <2>2, <2>3, <2>4 DEF OnlyRows
<1> QED BY <1>1, <1>2, <1>3, <1>4 DEF Prepare

LEMMA PrepareStep ==
    ASSUME Inv, NEW d \in Drafts, Prepare(d)
    PROVE  Inv'
<1>1. OnlyRows
  BY PreparedRows
<1>2. TypeOK'
  BY <1>1 DEF OnlyRows, Inv, TypeOK, config, handler
<1> QED BY <1>1, <1>2, RowsKept, HandlerKept DEF OnlyRows, Inv

\* A step that leaves the tables alone keeps what they promise.
LEMMA TablesKept ==
    ASSUME Inv, UNCHANGED tables
    PROVE  SessionsHaveDrafts' /\ DeletedBatchInBin'
BY RowsKept DEF tables, DraftsKeep, BinKeeps

\* A call for a member of the batch, answered one way or the other.
LEMMA MemberCalled ==
    ASSUME Inv, pc \in {"apply", "undo", "rollback"}, NEW m \in todo,
           NEW op, NEW content, NEW old,
           NEW res \in MemberResults(op, m, content, old), Call(res),
           UNCHANGED <<tables, crashes>>,
           \/ Did(m)
           \/ pc = "apply" /\ Go("undo", done)
           \/ pc = "rollback" /\ Go("rollbackFailed", {})
    PROVE  Inv'
<1>1. Sound(res)
  BY MemberResultsSound DEF Inv, TypeOK, TodoKinds
<1>2. /\ job' = job /\ found' = found
      /\ pc' \in {"apply", "undo", "rollback", "rollbackFailed"}
      /\ pc' \in {"rollback", "rollbackFailed"} => pc = "rollback"
      /\ todo' \cup done' \subseteq todo \cup done
  BY DEF Did, Go, Work
<1>3. TypeOK'
  BY <1>1, <1>2 DEF Inv, TypeOK, Sound, Call, tables
<1>4. HasDraft' /\ HasSession' /\ TodoKinds' /\ Recording'
  BY <1>2 DEF Inv, HasDraft, HasSession, TodoKinds, Recording, tables
<1> QED BY <1>3, <1>4, TablesKept DEF Inv

LEMMA MemberSteps == Inv /\ (ApplyMember \/ UndoMember \/ RollBackMember) => Inv'
<1> SUFFICES ASSUME Inv, ApplyMember \/ UndoMember \/ RollBackMember PROVE Inv'
  OBVIOUS
<1>1. CASE ApplyMember
  <2>1. PICK m \in Turn(Op, todo) :
            \E res \in MemberResults(Op, m, found.content, found.old) :
                /\ Call(res)
                /\ IF res.ok THEN Did(m) ELSE Go("undo", done)
    BY <1>1 DEF ApplyMember
  <2>2. m \in todo
    BY DEF Turn
  <2>3. pc = "apply" /\ UNCHANGED <<tables, crashes>>
    BY <1>1 DEF ApplyMember
  <2> QED BY <2>1, <2>2, <2>3, MemberCalled
<1>2. CASE UndoMember
  <2>1. PICK m \in Turn(Inverse(Op), todo) :
            \E res \in MemberResults(Inverse(Op), m, found.content, found.content) :
                Call(res) /\ Did(m)
    BY <1>2 DEF UndoMember
  <2>2. m \in todo
    BY DEF Turn
  <2>3. pc = "undo" /\ UNCHANGED <<tables, crashes>>
    BY <1>2 DEF UndoMember
  <2> QED BY <2>1, <2>2, <2>3, MemberCalled
<1>3. CASE RollBackMember
  <2>1. PICK m \in Turn(Inverse(Op), todo) :
            \E content, old :
            \E res \in MemberResults(Inverse(Op), m, content, old) :
                /\ Call(res)
                /\ IF res.ok THEN Did(m) ELSE Go("rollbackFailed", {})
    BY <1>3 DEF RollBackMember
  <2>2. m \in todo
    BY DEF Turn
  <2>3. pc = "rollback" /\ UNCHANGED <<tables, crashes>>
    BY <1>3 DEF RollBackMember
  <2> QED BY <2>1, <2>2, <2>3, MemberCalled
<1> QED BY <1>1, <1>2, <1>3

\* A permanent call for a rule of the batch.
LEMMA PermanentCalled ==
    ASSUME Inv, pc \in {"persist", "unpersist"}, NEW r \in todo, NEW op, NEW ok,
           PermanentCall(op, r, ok),
           UNCHANGED <<tables, crashes>>,
           Did(r) \/ Go("unpersist", done)
    PROVE  Inv'
<1>1. r \in Rules
  BY DEF Inv, TodoKinds
<1>2. run' = run /\ perm' \in Config /\ faults' \in 0 .. MaxFaults
  <2>1. PICK res \in RuleResults(perm, op, r) :
            perm' = res.conf /\ faults' = faults + res.fault /\ UNCHANGED run
    BY DEF PermanentCall
  <2> QED BY <1>1, <2>1, RuleResultsSound DEF Inv, TypeOK
<1>3. /\ job' = job /\ found' = found
      /\ pc' \in {"persist", "unpersist"}
      /\ todo' \cup done' \subseteq todo \cup done
  BY DEF Did, Go, Work
<1>4. TypeOK'
  BY <1>2, <1>3 DEF Inv, TypeOK, tables
<1>5. HasDraft' /\ HasSession' /\ TodoKinds' /\ Recording'
  BY <1>3 DEF Inv, HasDraft, HasSession, TodoKinds, Recording, tables
<1> QED BY <1>4, <1>5, TablesKept DEF Inv

LEMMA PermanentSteps == Inv /\ (Persist \/ Unpersist) => Inv'
<1> SUFFICES ASSUME Inv, Persist \/ Unpersist PROVE Inv'
  OBVIOUS
<1>1. CASE Persist
  BY <1>1, PermanentCalled DEF Persist
<1>2. CASE Unpersist
  BY <1>2, PermanentCalled DEF Unpersist
<1> QED BY <1>1, <1>2

\* A request, a stage that ends, or a stop of the process changes no row.
LEMMA MoveStep ==
    ASSUME Inv,
           \/ GiveUp \/ PersistenceFailed \/ Persisted \/ Crash
           \/ \E d \in Drafts : Confirm(d) \/ RollBack(d)
    PROVE  Inv'
<1>1. UNCHANGED tables /\ found' \in Snapshot /\ perm' = perm
  BY DEF GiveUp, PersistenceFailed, Persisted, Crash, Confirm, RollBack, Return,
     Go, Inv, TypeOK, config, Nothing, Snapshot
<1>2. run' \in Config /\ faults' = faults /\ crashes' \in 0 .. MaxCrashes
  BY CountAssumption DEF GiveUp, PersistenceFailed, Persisted, Crash, Confirm,
     RollBack, Inv, TypeOK, config
<1> DEFINE Handled == /\ job' \in Drafts \cup {None}
                      /\ todo' \subseteq Members \cup (Drafts \X Members)
                      /\ done' = {}
                      /\ pc' \in {"idle", "persist", "rollback", "record"}
                      /\ HasDraft' /\ HasSession' /\ TodoKinds' /\ Recording'
<1>3. ASSUME GiveUp \/ Crash
      PROVE  Handled
  <2>1. pc' = "idle" /\ job' = None /\ todo' = {} /\ done' = {}
    BY <1>3 DEF GiveUp, Crash, Return, Work
  <2> QED BY <2>1, IdleHandler
<1>4. ASSUME NEW d \in Drafts, Confirm(d) \/ RollBack(d)
      PROVE  Handled
  <2>1. sessions[d] # NoRow /\ drafts[d] # NoRow
    BY <1>4, RowTypes DEF Confirm, RollBack, Inv, SessionsHaveDrafts
  <2>2. drafts[d].members \subseteq Members
    BY <2>1 DEF Inv, TypeOK, DraftRow
  <2>3. Lasting(d) \subseteq Rules
    BY DEF Lasting
  <2>4. /\ job' = d /\ done' = {}
        /\ \/ pc' = "persist" /\ todo' = Lasting(d)
           \/ pc' = "rollback" /\ todo' = drafts[d].members
    BY <1>4 DEF Confirm, RollBack, Work
  <2> QED
    BY <1>1, <2>1, <2>2, <2>3, <2>4
    DEF tables, HasDraft, HasSession, TodoKinds, Recording, Members
<1>5. ASSUME PersistenceFailed
      PROVE  Handled
  <2>1. pc' = "rollback" /\ job' = job /\ todo' = Batch /\ done' = {}
    BY <1>5 DEF PersistenceFailed, Go, Work
  <2>2. job \in Drafts /\ drafts[job] # NoRow /\ sessions[job] # NoRow
    BY <1>5 DEF PersistenceFailed, Inv, HasDraft, HasSession
  <2>3. Batch \subseteq Members
    BY <2>2 DEF Batch, Inv, TypeOK, DraftRow
  <2> QED
    BY <1>1, <2>1, <2>2, <2>3
    DEF tables, HasDraft, HasSession, TodoKinds, Recording
<1>6. ASSUME Persisted
      PROVE  Handled
  <2>1. pc' = "record" /\ job' = job /\ todo' = RecordsOf /\ done' = {}
    BY <1>6 DEF Persisted, Go, Work
  <2>2. job \in Drafts /\ drafts[job] # NoRow /\ sessions[job] # NoRow
    BY <1>6 DEF Persisted, Inv, HasDraft, HasSession
  <2>3. RecordsOf \subseteq Drafts \X Members
    BY <2>2 DEF RecordsOf, Op, Batch, Inv, TypeOK, DraftRow
  <2>4. drafts[job].op = "delete" =>
            \A m \in drafts[job].members : <<job, m>> \in RecordsOf
    BY DEF RecordsOf, Op, Batch
  <2> QED
    BY <1>1, <2>1, <2>2, <2>3, <2>4
    DEF tables, HasDraft, HasSession, TodoKinds, Recording
<1>7. Handled
  BY <1>3, <1>4, <1>5, <1>6
<1>8. TypeOK'
  BY <1>1, <1>2, <1>7 DEF Inv, TypeOK, tables
<1> QED BY <1>1, <1>7, <1>8, TablesKept DEF Inv

LEMMA BeginStep ==
    ASSUME Inv, NEW d \in Drafts, Begin(d)
    PROVE  Inv'
<1>1. drafts[d] # NoRow
  BY RowTypes DEF Begin
<1>2. drafts' = [drafts EXCEPT ![d].status = "applying"]
  BY DEF Begin
<1>3. drafts' \in [Drafts -> {NoRow} \cup DraftRow] /\ DraftsKeep
  BY <1>1, <1>2, DraftStatus
<1>4. BinKeeps /\ UNCHANGED <<config, sessions, bin, faults, crashes>>
  BY DEF Begin, BinKeeps
<1>5. drafts[d].members \subseteq Members /\ drafts[d].content \subseteq Rules
  BY <1>1 DEF Inv, TypeOK, DraftRow
<1>6. CASE UNCHANGED handler
  <2>1. TypeOK'
    BY <1>3, <1>4, <1>6 DEF Inv, TypeOK, config, handler
  <2> QED BY <1>3, <1>4, <1>6, <2>1, RowsKept, HandlerKept DEF Inv
<1>7. CASE Work(d, "apply", drafts[d].members) /\ found' = Found(d)
  <2>1. Found(d) \in Snapshot
    BY <1>5 DEF Found, Content, Inside, Snapshot
  <2>2. TypeOK'
    BY <1>3, <1>4, <1>5, <1>7, <2>1 DEF Inv, TypeOK, config, Work
  <2>3. HasDraft' /\ HasSession' /\ TodoKinds' /\ Recording'
    BY <1>1, <1>3, <1>5, <1>7
    DEF Work, DraftsKeep, HasDraft, HasSession, TodoKinds, Recording
  <2> QED BY <1>3, <1>4, <2>2, <2>3, RowsKept DEF Inv
<1> QED BY <1>6, <1>7 DEF Begin

LEMMA OpenSessionStep == Inv /\ OpenSession => Inv'
<1> SUFFICES ASSUME Inv, OpenSession PROVE Inv'
  OBVIOUS
<1> DEFINE row == [status |-> "pending", objects |-> found]
<1>1. row \in SessionRow /\ row # NoRow /\ row.status # "confirmed"
  BY DEF Inv, TypeOK, SessionRow, NoRow
<1>2. job \in Drafts /\ drafts[job] # NoRow
  BY DEF OpenSession, Inv, HasDraft
<1>3. /\ sessions' = [sessions EXCEPT ![job] = row]
      /\ UNCHANGED <<config, drafts, bin, faults, crashes>>
  BY DEF OpenSession
<1>4. /\ pc' = "idle" /\ job' = None /\ todo' = {} /\ done' = {}
      /\ found' = Nothing
  BY DEF OpenSession, Return, Work
<1> HIDE DEF row
<1>5. TypeOK'
  BY <1>1, <1>2, <1>3, <1>4 DEF Inv, TypeOK, config, Nothing, Snapshot
<1>6. SessionsHaveDrafts'
  BY <1>2, <1>3 DEF Inv, TypeOK, SessionsHaveDrafts
<1>7. DeletedBatchInBin'
  BY <1>1, <1>2, <1>3 DEF Inv, TypeOK, DeletedBatchInBin
<1> QED BY <1>4, <1>5, <1>6, <1>7, IdleHandler DEF Inv

LEMMA RecordStep == Inv /\ Record => Inv'
<1> SUFFICES ASSUME Inv, Record PROVE Inv'
  OBVIOUS
<1>1. PICK row \in todo :
          /\ bin' = [bin EXCEPT ![row[1]][row[2]] =
                        IF Op = "delete" THEN "deleted" ELSE "restored"]
          /\ Did(row)
  BY DEF Record
<1>2. PICK e \in Drafts, n \in Members : row = <<e, n>>
  BY DEF Record, Inv, TodoKinds
<1>3. \A d \in Drafts, m \in Members :
          bin'[d][m] = IF d = e /\ m = n
                       THEN IF Op = "delete" THEN "deleted" ELSE "restored"
                       ELSE bin[d][m]
  BY <1>1, <1>2 DEF Inv, TypeOK
<1>4. bin' \in [Drafts -> [Members -> {"none", "deleted", "restored"}]] /\ BinKeeps
  <2>1. bin' \in [Drafts -> [Members -> {"none", "deleted", "restored"}]]
    BY <1>1, <1>2 DEF Inv, TypeOK
  <2> QED BY <1>3, <2>1 DEF BinKeeps
<1>5. /\ UNCHANGED <<config, drafts, sessions, faults, crashes, pc, job, found>>
      /\ todo' = todo \ {row} /\ done' = done \cup {row} /\ pc = "record"
  BY <1>1 DEF Record, Did
<1>6. TypeOK'
  BY <1>4, <1>5 DEF Inv, TypeOK, config
<1>7. HasDraft' /\ HasSession' /\ TodoKinds'
  BY <1>5 DEF Inv, HasDraft, HasSession, TodoKinds
<1>8. Recording'
  <2> SUFFICES ASSUME drafts[job].op = "delete", NEW m \in drafts[job].members
               PROVE  bin'[job][m] # "none" \/ <<job, m>> \in todo \ {row}
    BY <1>5 DEF Recording
  <2>1. job \in Drafts /\ m \in Members
    BY <1>5 DEF Inv, HasDraft, TypeOK, DraftRow
  <2>2. CASE <<job, m>> = row
    BY <1>2, <1>3, <2>1, <2>2
  <2>3. CASE <<job, m>> # row
    BY <1>4, <1>5, <2>1, <2>3 DEF Inv, Recording, BinKeeps
  <2> QED BY <2>2, <2>3
<1> QED BY <1>4, <1>5, <1>6, <1>7, <1>8, RowsKept DEF Inv, DraftsKeep

\* A confirmed deletion has all its rows: none was left to write.
LEMMA RecordedStep == Inv /\ Recorded => Inv'
<1> SUFFICES ASSUME Inv, Recorded PROVE Inv'
  OBVIOUS
<1>1. /\ sessions' = [sessions EXCEPT ![job].status = "confirmed"]
      /\ UNCHANGED <<config, drafts, bin, faults, crashes, job, found>>
      /\ pc = "record" /\ todo = {}
      /\ pc' = "draftConfirmed" /\ todo' = {} /\ done' = {}
  BY DEF Recorded, Go, Work
<1>2. job \in Drafts /\ drafts[job] # NoRow /\ sessions[job] # NoRow
  BY <1>1 DEF Inv, HasDraft, HasSession
<1>3. /\ sessions' \in [Drafts -> {NoRow} \cup SessionRow]
      /\ \A e \in Drafts :
             /\ sessions'[e] = NoRow <=> sessions[e] = NoRow
             /\ sessions'[e].status =
                    IF e = job THEN "confirmed" ELSE sessions[e].status
  BY <1>1, <1>2, SessionStatus
<1>4. TypeOK'
  BY <1>1, <1>3 DEF Inv, TypeOK, config
<1>5. SessionsHaveDrafts'
  BY <1>1, <1>3 DEF Inv, SessionsHaveDrafts
<1>6. HasDraft' /\ HasSession' /\ TodoKinds' /\ Recording'
  BY <1>1, <1>2, <1>3 DEF HasDraft, HasSession, TodoKinds, Recording
<1>7. DeletedBatchInBin'
  BY <1>1, <1>3 DEF Inv, DeletedBatchInBin, Recording
<1> QED BY <1>4, <1>5, <1>6, <1>7 DEF Inv

\* The other ends of a session.
LEMMA EndStep == Inv /\ (SetRolledBack \/ SetRollbackFailed) => Inv'
<1> SUFFICES ASSUME Inv, SetRolledBack \/ SetRollbackFailed PROVE Inv'
  OBVIOUS
<1>1. PICK s \in {"rolled_back", "rollback_failed"} :
          sessions' = [sessions EXCEPT ![job].status = s]
  BY DEF SetRolledBack, SetRollbackFailed
<1>2. job \in Drafts /\ drafts[job] # NoRow /\ sessions[job] # NoRow
  BY DEF SetRolledBack, SetRollbackFailed, Inv, HasDraft, HasSession
<1>3. /\ sessions' \in [Drafts -> {NoRow} \cup SessionRow]
      /\ \A e \in Drafts :
             /\ sessions'[e] = NoRow <=> sessions[e] = NoRow
             /\ sessions'[e].status = IF e = job THEN s ELSE sessions[e].status
             /\ sessions'[e].objects = sessions[e].objects
  <2>1. s \in {"confirmed", "rolled_back", "rollback_failed"}
    OBVIOUS
  <2> QED BY <1>1, <1>2, <2>1, SessionStatus
<1>4. /\ UNCHANGED <<config, drafts, bin, faults, crashes>>
      /\ pc' \in {"idle", "draftRolledBack"} /\ job' \in {None, job}
      /\ pc' = "draftRolledBack" => job' = job
      /\ todo' = {} /\ done' = {} /\ found' \in Snapshot
  BY DEF SetRolledBack, SetRollbackFailed, Go, Return, Work, Inv, TypeOK,
     Nothing, Snapshot
<1>5. TypeOK'
  BY <1>3, <1>4 DEF Inv, TypeOK, config
<1>6. SessionsHaveDrafts'
  BY <1>3, <1>4 DEF Inv, SessionsHaveDrafts
<1>7. HasDraft' /\ HasSession' /\ TodoKinds' /\ Recording'
  BY <1>2, <1>3, <1>4 DEF HasDraft, HasSession, TodoKinds, Recording
<1>8. DeletedBatchInBin'
  BY <1>3, <1>4 DEF Inv, DeletedBatchInBin
<1> QED BY <1>5, <1>6, <1>7, <1>8 DEF Inv

LEMMA DraftEndStep == Inv /\ (DraftConfirmed \/ DraftRolledBack) => Inv'
<1> SUFFICES ASSUME Inv, DraftConfirmed \/ DraftRolledBack PROVE Inv'
  OBVIOUS
<1>1. PICK s \in {"confirmed", "rolled_back"} :
          drafts' = [drafts EXCEPT ![job].status = s]
  BY DEF DraftConfirmed, DraftRolledBack
<1>2. job \in Drafts /\ drafts[job] # NoRow
  BY DEF DraftConfirmed, DraftRolledBack, Inv, HasDraft
<1>3. drafts' \in [Drafts -> {NoRow} \cup DraftRow] /\ DraftsKeep
  BY <1>1, <1>2, DraftStatus
<1>4. /\ UNCHANGED <<config, sessions, bin, faults, crashes>>
      /\ pc' = "idle" /\ job' = None /\ todo' = {} /\ done' = {}
      /\ found' = Nothing
  BY DEF DraftConfirmed, DraftRolledBack, Return, Work
<1>5. TypeOK'
  BY <1>3, <1>4 DEF Inv, TypeOK, config, Nothing, Snapshot
<1>6. BinKeeps
  BY <1>4 DEF BinKeeps
<1> QED BY <1>3, <1>4, <1>5, <1>6, RowsKept, IdleHandler DEF Inv

LEMMA StutterStep == Inv /\ UNCHANGED vars => Inv'
<1> SUFFICES ASSUME Inv, UNCHANGED vars PROVE Inv'
  OBVIOUS
<1>1. UNCHANGED <<config, tables, handler, faults, crashes>>
  BY DEF vars
<1>2. TypeOK'
  BY <1>1 DEF Inv, TypeOK, config, tables, handler
<1> QED
  BY <1>1, <1>2, TablesKept, HandlerKept DEF Inv, tables, DraftsKeep, BinKeeps

LEMMA InvStep == Inv /\ [Next]_vars => Inv'
<1> SUFFICES ASSUME Inv, [Next]_vars PROVE Inv'
  OBVIOUS
<1>1. ASSUME NEW d \in Drafts, Prepare(d) \/ Begin(d) \/ Confirm(d) \/ RollBack(d)
      PROVE  Inv'
  BY <1>1, PrepareStep, BeginStep, MoveStep
<1>2. CASE Handle
  BY <1>2, MemberSteps, PermanentSteps, MoveStep, OpenSessionStep, RecordStep,
     RecordedStep, EndStep, DraftEndStep DEF Handle
<1>3. CASE Crash
  BY <1>3, MoveStep
<1>4. CASE UNCHANGED vars
  BY <1>4, StutterStep
<1> QED BY <1>1, <1>2, <1>3, <1>4 DEF Next

\* The invariant holds: types, rows that are there when the handler writes to
\* them, and a recycle bin row or a turn to come for each member of a deletion.
THEOREM InvHolds == Spec => []Inv
<1> QED BY InitInv, InvStep, PTL DEF Spec

\* Configurations, rows and the handler keep their types; no rule outlives its
\* zone, whatever fails in the middle of an object's change (apply_object).
THEOREM TypeCorrect == Spec => []TypeOK
<1>1. Inv => TypeOK
  BY DEF Inv
<1> QED BY <1>1, InvHolds, PTL

\* A confirmed batch deletion has a recycle bin row for every member, for any
\* batch, failure and number of crashes (confirm_apply).
THEOREM BatchDeletionsRecoverable == Spec => []DeletedBatchInBin
<1>1. Inv => DeletedBatchInBin
  BY DEF Inv
<1> QED BY <1>1, InvHolds, PTL

----------------------------------------------------------------------------
(* A batch as a whole.  The invariant says which members of the last draft *)
(* begun are in force, and which permanent, at each place of the handler.  *)

\* The configuration c changed by the members D of d's batch.
Changed(c, d, D) ==
    LET O == D \cap Objects IN
    IF drafts[d].op = "delete"
    THEN [objs |-> c.objs \ O, rules |-> c.rules \ (D \cup Inside(O))]
    ELSE [objs  |-> c.objs \cup O,
          rules |-> (c.rules \ Inside(O)) \cup (D \cap Rules)
                        \cup (drafts[d].content \cap Inside(O))]

\* What the changes were made to can be told from them.
Reversible(c, d, D) ==
    IF drafts[d].op = "add"
    THEN D \cap (c.objs \cup c.rules) = {}
    ELSE D \subseteq c.objs \cup c.rules

\* No trial of d has begun, or none is left.
Untried(d) ==
    /\ pc \in {"idle", "draftRolledBack"}
    /\ sessions[d].status \notin {"pending", "confirmed"}

InForce(d) ==
    IF pc = "apply" THEN done
    ELSE IF pc \in {"undo", "rollback"} THEN todo
    ELSE IF Untried(d) THEN {}
    ELSE drafts[d].members

InForceForGood(d) ==
    (InForce(d) \cap Objects) \cup
    IF pc = "persist" THEN done
    ELSE IF pc = "unpersist" THEN todo
    ELSE IF pc = "record" \/ sessions[d].status = "confirmed" THEN Lasting(d)
    ELSE {}

Fits(d) ==
    /\ run = Changed(base.run, d, InForce(d))
    /\ perm = Changed(base.perm, d, InForceForGood(d))
    /\ Reversible(base.run, d, InForce(d))
    /\ Reversible(base.perm, d, InForceForGood(d))

\* What Begin reads of the objects.
Seen(d) ==
    LET now == Content(base.perm, drafts[d].members \cap Objects) IN
    [content |-> IF drafts[d].op = "delete" THEN now ELSE drafts[d].content,
     old     |-> IF drafts[d].op = "update" THEN now ELSE {}]

AtWork(d) ==
    /\ pc \in {"apply", "undo"} => sessions[d] = NoRow /\ found = Seen(d)
    /\ sessions[d] # NoRow => sessions[d].objects = Seen(d)
    /\ pc # "rollbackFailed" /\ sessions[d].status # "rollback_failed"
    /\ pc \in {"persist", "unpersist", "record", "rollback"} =>
           sessions[d].status = "pending"
    /\ pc = "draftConfirmed" => sessions[d].status = "confirmed"
    /\ pc = "draftRolledBack" => sessions[d].status = "rolled_back"
    /\ pc = "apply" =>
           /\ done \subseteq drafts[d].members /\ todo = drafts[d].members \ done
           /\ drafts[d].op = "add" /\ todo \cap Objects # {} => done \subseteq Objects
           /\ drafts[d].op = "update" => drafts[d].members \subseteq base.perm.objs
    /\ pc = "undo" /\ drafts[d].op = "update" => todo = {}
    /\ pc \in {"undo", "rollback"} => todo \subseteq drafts[d].members
    /\ pc = "persist" => done \subseteq Lasting(d) /\ todo = Lasting(d) \ done
    /\ pc = "unpersist" => todo \subseteq Lasting(d)

\* Drafts list the contents of their own objects and update one at a time.
Shape(d) ==
    /\ drafts[d].content \subseteq Inside(drafts[d].members \cap Objects)
    /\ drafts[d].op = "update" => \E o \in Objects : drafts[d].members = {o}

DraftsShaped == \A d \in Drafts : drafts[d] # NoRow => Shape(d)

\* A draft is submitted once.
SubmittedOnce ==
    /\ \A d \in Drafts : sessions[d] # NoRow => drafts[d].status # "pending"
    /\ pc # "idle" => drafts[job].status # "pending"

BaseRight ==
    /\ base.run \in Config /\ base.perm \in Config
    /\ base.alone => base.draft \in Drafts /\ drafts[base.draft] # NoRow

\* Begun alone, a trial stays alone until the next is begun.
Alone ==
    base.alone =>
        /\ \A d \in Drafts : sessions[d].status = "pending" => d = base.draft
        /\ pc # "idle" => job = base.draft

RowsInv == Inv /\ DraftsShaped /\ SubmittedOnce /\ BaseRight /\ Alone

Judging(d) ==
    d = base.draft /\ base.alone /\ faults = 0 /\ crashes = 0 /\ Separable(d)

WholeInv == RowsInv /\ \A d \in Drafts : Judging(d) => AtWork(d) /\ Fits(d)

----------------------------------------------------------------------------
(* What doing and undoing a member does to a changed configuration.        *)

LEMMA ConfigParts ==
    ASSUME NEW c \in Config
    PROVE  /\ c = [objs |-> c.objs, rules |-> c.rules]
           /\ c.objs \subseteq Objects /\ c.rules \subseteq Rules
           /\ \A r \in c.rules : Home[r] \in c.objs \cup {None}
BY DEF Config

LEMMA NothingChanged ==
    ASSUME NEW c \in Config, NEW d
    PROVE  Changed(c, d, {}) = c /\ Reversible(c, d, {})
<1>1. Inside({} \cap Objects) = {}
  BY DEF Inside
<1>2. c = [objs |-> c.objs, rules |-> c.rules]
  BY ConfigParts
<1> QED BY <1>1, <1>2 DEF Changed, Reversible

LEMMA EffectParts ==
    ASSUME NEW c, c = [objs |-> c.objs, rules |-> c.rules], NEW r
    PROVE  /\ RuleEffect(c, "add", r) = [objs |-> c.objs, rules |-> c.rules \cup {r}]
           /\ RuleEffect(c, "delete", r) = [objs |-> c.objs, rules |-> c.rules \ {r}]
BY DEF RuleEffect

LEMMA ChangedParts ==
    ASSUME NEW c, NEW d, NEW D
    PROVE  Changed(c, d, D) =
               [objs |-> Changed(c, d, D).objs, rules |-> Changed(c, d, D).rules]
BY DEF Changed

LEMMA RuleAdded ==
    ASSUME NEW c, NEW d, NEW D, NEW E, NEW r,
           /\ Changed(c, d, E).objs = Changed(c, d, D).objs
           /\ Changed(c, d, E).rules = Changed(c, d, D).rules \cup {r}
    PROVE  RuleEffect(Changed(c, d, D), "add", r) = Changed(c, d, E)
<1> DEFINE C == Changed(c, d, D)
<1>1. RuleEffect(C, "add", r) = [objs |-> C.objs, rules |-> C.rules \cup {r}]
  BY ChangedParts, EffectParts
<1>2. Changed(c, d, E) = [objs |-> C.objs, rules |-> Changed(c, d, E).rules]
  BY ChangedParts
<1> QED BY <1>1, <1>2

LEMMA RuleTaken ==
    ASSUME NEW c, NEW d, NEW D, NEW E, NEW r,
           /\ Changed(c, d, E).objs = Changed(c, d, D).objs
           /\ Changed(c, d, E).rules = Changed(c, d, D).rules \ {r}
    PROVE  RuleEffect(Changed(c, d, D), "delete", r) = Changed(c, d, E)
<1> DEFINE C == Changed(c, d, D)
<1>1. RuleEffect(C, "delete", r) = [objs |-> C.objs, rules |-> C.rules \ {r}]
  BY ChangedParts, EffectParts
<1>2. Changed(c, d, E) = [objs |-> C.objs, rules |-> Changed(c, d, E).rules]
  BY ChangedParts
<1> QED BY <1>1, <1>2

LEMMA RuleDone ==
    ASSUME NEW c \in Config, NEW d, NEW D, NEW r \in Rules,
           drafts[d].op \in {"add", "delete"},
           Reversible(c, d, D), ~RuleRefused(Changed(c, d, D), drafts[d].op, r)
    PROVE  /\ RuleEffect(Changed(c, d, D), drafts[d].op, r) = Changed(c, d, D \cup {r})
           /\ Reversible(c, d, D \cup {r})
<1>0. (D \cup {r}) \cap Objects = D \cap Objects
  BY MemberAssumption
<1>1. CASE drafts[d].op = "add"
  <2>1. r \notin Changed(c, d, D).rules
    BY <1>1 DEF RuleRefused
  <2>2. c.rules \cap Inside(D \cap Objects) = {}
    BY <1>1, ConfigParts, MemberAssumption DEF Reversible, Inside
  <2>3. r \notin c.rules /\ r \notin c.objs
    BY <1>1, <2>1, <2>2, ConfigParts, MemberAssumption DEF Changed
  <2>4. Reversible(c, d, D \cup {r})
    BY <1>1, <2>3 DEF Reversible
  <2>5. (D \cup {r}) \cap Rules = (D \cap Rules) \cup {r}
    OBVIOUS
  <2>6. /\ Changed(c, d, D \cup {r}).objs = Changed(c, d, D).objs
        /\ Changed(c, d, D \cup {r}).rules = Changed(c, d, D).rules \cup {r}
    BY <1>0, <1>1, <2>5 DEF Changed
  <2>8. RuleEffect(Changed(c, d, D), "add", r) = Changed(c, d, D \cup {r})
    BY <2>6, RuleAdded
  <2> QED BY <1>1, <2>4, <2>8
<1>2. CASE drafts[d].op = "delete"
  <2>1. r \in Changed(c, d, D).rules
    BY <1>2 DEF RuleRefused
  <2>2. Reversible(c, d, D \cup {r})
    BY <1>2, <2>1 DEF Reversible, Changed
  <2>3. /\ Changed(c, d, D \cup {r}).objs = Changed(c, d, D).objs
        /\ Changed(c, d, D \cup {r}).rules = Changed(c, d, D).rules \ {r}
    BY <1>0, <1>2 DEF Changed
  <2>5. RuleEffect(Changed(c, d, D), "delete", r) = Changed(c, d, D \cup {r})
    BY <2>3, RuleTaken
  <2> QED BY <1>2, <2>2, <2>5
<1> QED BY <1>1, <1>2

LEMMA RuleUndone ==
    ASSUME NEW c \in Config, NEW d, NEW D, NEW r \in Rules \cap D,
           NEW E, \A m : m \in E <=> m \in D /\ m # r,
           drafts[d].op \in {"add", "delete"}, Reversible(c, d, D),
           Changed(c, d, D) \in Config,
           drafts[d].op = "add" => D \cap drafts[d].content = {},
           drafts[d].op = "delete" => D \subseteq Rules
    PROVE  /\ ~RuleRefused(Changed(c, d, D), Inverse(drafts[d].op), r)
           /\ RuleEffect(Changed(c, d, D), Inverse(drafts[d].op), r)
                  = Changed(c, d, E)
           /\ Reversible(c, d, E)
<1>0. E \cap Objects = D \cap Objects
  BY MemberAssumption
<1>1. CASE drafts[d].op = "add"
  <2>1. Inverse(drafts[d].op) = "delete"
    BY <1>1 DEF Inverse
  <2>2. r \in Changed(c, d, D).rules
    BY <1>1 DEF Changed
  <2>3. Home[r] \in Changed(c, d, D).objs \cup {None}
    BY <2>2, ConfigParts
  <2>4. r \notin c.rules /\ r \notin drafts[d].content
    BY <1>1 DEF Reversible
  <2>5. Changed(c, d, E).rules = Changed(c, d, D).rules \ {r}
    BY <1>0, <1>1, <2>4 DEF Changed
  <2>6. Changed(c, d, E).objs = Changed(c, d, D).objs
    BY <1>0, <1>1 DEF Changed
  <2>8. RuleEffect(Changed(c, d, D), "delete", r) = Changed(c, d, E)
    BY <2>5, <2>6, RuleTaken
  <2>9. ~RuleRefused(Changed(c, d, D), "delete", r)
    BY <2>2, <2>3 DEF RuleRefused
  <2>10. Reversible(c, d, E)
    BY <1>1 DEF Reversible
  <2> QED BY <2>1, <2>8, <2>9, <2>10
<1>2. CASE drafts[d].op = "delete"
  <2>1. Inverse(drafts[d].op) = "add"
    BY <1>2 DEF Inverse
  <2>2. D \cap Objects = {} /\ Inside(D \cap Objects) = {}
    BY <1>2, MemberAssumption DEF Inside
  <2>3. r \in c.rules
    BY <1>2, ConfigParts, MemberAssumption DEF Reversible
  <2>4. Home[r] \in c.objs \cup {None}
    BY <2>3, ConfigParts
  <2>5. Changed(c, d, D) = [objs |-> c.objs, rules |-> c.rules \ D]
    BY <1>2, <2>2 DEF Changed
  <2>6. Changed(c, d, E) = [objs |-> c.objs, rules |-> c.rules \ (D \ {r})]
    BY <1>0, <1>2, <2>2 DEF Changed
  <2>7. (c.rules \ D) \cup {r} = c.rules \ (D \ {r})
    BY <2>3
  <2>8. RuleEffect(Changed(c, d, D), "add", r) = Changed(c, d, E)
    <3>1. /\ Changed(c, d, E).objs = Changed(c, d, D).objs
          /\ Changed(c, d, E).rules = Changed(c, d, D).rules \cup {r}
      BY <2>5, <2>6, <2>7
    <3> QED BY <3>1, RuleAdded
  <2> QED BY <1>2, <2>1, <2>4, <2>5, <2>8 DEF RuleRefused, Reversible
<1> QED BY <1>1, <1>2

\* Objects take the rules inside them along.
LEMMA InsideOne ==
    ASSUME NEW D, NEW E, NEW o \in Objects
    PROVE  /\ (\A m : m \in E <=> m \in D \/ m = o) => Inside(E) = Inside(D) \cup Inside({o})
           /\ (\A m : m \in E <=> m \in D /\ m # o) => Inside(E) = Inside(D) \ Inside({o})
BY DEF Inside

LEMMA ObjectDone ==
    ASSUME NEW c \in Config, NEW d, NEW D \in SUBSET Objects, NEW o \in Objects \ D,
           NEW E, \A m : m \in E <=> m \in D \/ m = o,
           drafts[d].op \in {"add", "delete"}, Reversible(c, d, D),
           o \in Changed(c, d, D).objs <=> drafts[d].op = "delete"
    PROVE  /\ drafts[d].op = "add" =>
                  Created(Changed(c, d, D), o, drafts[d].content) = Changed(c, d, E)
           /\ drafts[d].op = "delete" => Removed(Changed(c, d, D), o) = Changed(c, d, E)
           /\ Reversible(c, d, E)
<1>1. /\ D \cap Objects = D /\ E \cap Objects = E
      /\ D \cap Rules = {} /\ E \cap Rules = {} /\ E \subseteq Objects
  BY MemberAssumption
<1>2. Inside(E) = Inside(D) \cup Inside({o})
  BY InsideOne
<1>3. c.objs \subseteq Objects /\ c.rules \subseteq Rules
  BY ConfigParts
<1>4. CASE drafts[d].op = "add"
  <2>1. /\ Changed(c, d, D) =
               [objs  |-> c.objs \cup D,
                rules |-> (c.rules \ Inside(D)) \cup (drafts[d].content \cap Inside(D))]
        /\ Changed(c, d, E) =
               [objs  |-> c.objs \cup E,
                rules |-> (c.rules \ Inside(E)) \cup (drafts[d].content \cap Inside(E))]
    BY <1>1, <1>4 DEF Changed
  <2>2. o \notin c.objs /\ o \notin c.rules
    BY <1>3, <1>4, <2>1, MemberAssumption
  <2>3. c.rules \cap Inside({o}) = {}
    BY <2>2, ConfigParts, MemberAssumption DEF Inside
  <2>4. Created(Changed(c, d, D), o, drafts[d].content) =
            [objs  |-> c.objs \cup D \cup {o},
             rules |-> (c.rules \ Inside(D)) \cup (drafts[d].content \cap Inside(D))
                           \cup (drafts[d].content \cap Inside({o}))]
    BY <2>1 DEF Created
  <2>5. c.objs \cup D \cup {o} = c.objs \cup E
    OBVIOUS
  <2>6. (c.rules \ Inside(D)) \cup (drafts[d].content \cap Inside(D))
            \cup (drafts[d].content \cap Inside({o}))
            = (c.rules \ Inside(E)) \cup (drafts[d].content \cap Inside(E))
    BY <1>2, <2>3
  <2>7. Reversible(c, d, E)
    BY <1>4, <2>2 DEF Reversible
  <2> QED BY <1>4, <2>1, <2>4, <2>5, <2>6, <2>7
<1>5. CASE drafts[d].op = "delete"
  <2>1. /\ Changed(c, d, D) =
               [objs |-> c.objs \ D, rules |-> c.rules \ (D \cup Inside(D))]
        /\ Changed(c, d, E) =
               [objs |-> c.objs \ E, rules |-> c.rules \ (E \cup Inside(E))]
    BY <1>1, <1>5 DEF Changed
  <2>2. Removed(Changed(c, d, D), o) =
            [objs |-> (c.objs \ D) \ {o},
             rules |-> (c.rules \ (D \cup Inside(D))) \ Inside({o})]
    BY <2>1 DEF Removed
  <2>3. (c.objs \ D) \ {o} = c.objs \ E
    OBVIOUS
  <2>4. (c.rules \ (D \cup Inside(D))) \ Inside({o}) = c.rules \ (E \cup Inside(E))
    BY <1>1, <1>2, <1>3, MemberAssumption
  <2>5. Reversible(c, d, E)
    BY <1>5, <2>1 DEF Reversible
  <2> QED BY <1>5, <2>1, <2>2, <2>3, <2>4, <2>5
<1> QED BY <1>4, <1>5

LEMMA ObjectUnmade ==
    ASSUME NEW c \in Config, NEW d, NEW D \in SUBSET Objects, NEW o \in D,
           NEW E, \A m : m \in E <=> m \in D /\ m # o,
           drafts[d].op = "add", Reversible(c, d, D)
    PROVE  /\ o \in Changed(c, d, D).objs
           /\ Removed(Changed(c, d, D), o) = Changed(c, d, E)
           /\ Reversible(c, d, E)
<1>1. /\ D \cap Objects = D /\ E \cap Objects = E
      /\ D \cap Rules = {} /\ E \cap Rules = {} /\ E \subseteq Objects
  BY MemberAssumption
<1>2. Inside(E) = Inside(D) \ Inside({o}) /\ Inside({o}) \subseteq Inside(D)
  BY InsideOne DEF Inside
<1>3. c.objs \subseteq Objects /\ c.rules \subseteq Rules
  BY ConfigParts
<1>4. /\ Changed(c, d, D) =
             [objs  |-> c.objs \cup D,
              rules |-> (c.rules \ Inside(D)) \cup (drafts[d].content \cap Inside(D))]
      /\ Changed(c, d, E) =
             [objs  |-> c.objs \cup E,
              rules |-> (c.rules \ Inside(E)) \cup (drafts[d].content \cap Inside(E))]
  BY <1>1 DEF Changed
<1>5. o \notin c.objs
  BY DEF Reversible
<1>6. c.rules \cap Inside({o}) = {}
  BY <1>5, ConfigParts, MemberAssumption DEF Inside
<1>7. Removed(Changed(c, d, D), o) =
          [objs  |-> (c.objs \cup D) \ {o},
           rules |-> ((c.rules \ Inside(D)) \cup (drafts[d].content \cap Inside(D)))
                         \ Inside({o})]
  BY <1>4 DEF Removed
<1>8. (c.objs \cup D) \ {o} = c.objs \cup E
  BY <1>5
<1>9. ((c.rules \ Inside(D)) \cup (drafts[d].content \cap Inside(D))) \ Inside({o})
          = (c.rules \ Inside(E)) \cup (drafts[d].content \cap Inside(E))
  BY <1>2, <1>6
<1>10. Reversible(c, d, E)
  BY DEF Reversible
<1>11. Removed(Changed(c, d, D), o) = Changed(c, d, E)
  BY <1>4, <1>7, <1>8, <1>9
<1>12. o \in Changed(c, d, D).objs
  BY <1>4
<1> QED BY <1>10, <1>11, <1>12

LEMMA ObjectRemade ==
    ASSUME NEW c \in Config, NEW d, NEW D \in SUBSET Objects, NEW o \in D,
           NEW E, \A m : m \in E <=> m \in D /\ m # o,
           drafts[d].op = "delete", Reversible(c, d, D),
           NEW content, content \cap Inside({o}) = c.rules \cap Inside({o})
    PROVE  /\ o \notin Changed(c, d, D).objs
           /\ Created(Changed(c, d, D), o, content) = Changed(c, d, E)
           /\ Reversible(c, d, E)
<1>1. /\ D \cap Objects = D /\ E \cap Objects = E
      /\ D \cap Rules = {} /\ E \cap Rules = {} /\ E \subseteq Objects
  BY MemberAssumption
<1>2. Inside(E) = Inside(D) \ Inside({o}) /\ Inside({o}) \subseteq Inside(D)
  BY InsideOne DEF Inside
<1>3. c.objs \subseteq Objects /\ c.rules \subseteq Rules
  BY ConfigParts
<1>4. /\ Changed(c, d, D) =
             [objs |-> c.objs \ D, rules |-> c.rules \ (D \cup Inside(D))]
      /\ Changed(c, d, E) =
             [objs |-> c.objs \ E, rules |-> c.rules \ (E \cup Inside(E))]
  BY <1>1 DEF Changed
<1>5. o \in c.objs
  BY <1>3, MemberAssumption DEF Reversible
<1>6. Created(Changed(c, d, D), o, content) =
          [objs |-> (c.objs \ D) \cup {o},
           rules |-> (c.rules \ (D \cup Inside(D))) \cup (content \cap Inside({o}))]
  BY <1>4 DEF Created
<1>7. (c.objs \ D) \cup {o} = c.objs \ E
  BY <1>5
<1>8. (c.rules \ (D \cup Inside(D))) \cup (content \cap Inside({o}))
          = c.rules \ (E \cup Inside(E))
  BY <1>1, <1>2, <1>3, MemberAssumption
<1>9. Reversible(c, d, E)
  BY DEF Reversible
<1>10. Created(Changed(c, d, D), o, content) = Changed(c, d, E)
  BY <1>4, <1>6, <1>7, <1>8
<1>11. o \notin Changed(c, d, D).objs
  BY <1>4
<1> QED BY <1>9, <1>10, <1>11

\* The one object of an update, changed and changed back.
LEMMA ObjectUpdated ==
    ASSUME NEW c \in Config, NEW d, NEW o \in Objects, o \in c.objs,
           drafts[d].op = "update"
    PROVE  /\ Created(Removed(c, o), o, drafts[d].content) = Changed(c, d, {o})
           /\ Reversible(c, d, {o})
           /\ o \in Changed(c, d, {o}).objs
           /\ Created(Removed(Changed(c, d, {o}), o), o, Content(c, {o})) = c
<1>1. {o} \cap Objects = {o} /\ {o} \cap Rules = {}
  BY MemberAssumption
<1>2. c = [objs |-> c.objs, rules |-> c.rules]
  BY ConfigParts
<1>3. Changed(c, d, {o}) =
          [objs  |-> c.objs \cup {o},
           rules |-> (c.rules \ Inside({o})) \cup (drafts[d].content \cap Inside({o}))]
  BY <1>1 DEF Changed
<1>4. Created(Removed(c, o), o, drafts[d].content) =
          [objs  |-> (c.objs \ {o}) \cup {o},
           rules |-> (c.rules \ Inside({o})) \cup (drafts[d].content \cap Inside({o}))]
  BY DEF Created, Removed
<1>5. Created(Removed(Changed(c, d, {o}), o), o, Content(c, {o})) =
          [objs  |-> ((c.objs \cup {o}) \ {o}) \cup {o},
           rules |-> (((c.rules \ Inside({o})) \cup (drafts[d].content \cap Inside({o})))
                         \ Inside({o})) \cup (c.rules \cap Inside({o}) \cap Inside({o}))]
  <2> DEFINE one == Changed(c, d, {o})
             none == Removed(one, o)
             rules == (c.rules \ Inside({o})) \cup (drafts[d].content \cap Inside({o}))
  <2>1. one.objs = c.objs \cup {o} /\ one.rules = rules
    BY <1>3
  <2>2. none.objs = one.objs \ {o} /\ none.rules = one.rules \ Inside({o})
    BY DEF Removed
  <2>3. Created(none, o, Content(c, {o})) =
            [objs  |-> none.objs \cup {o},
             rules |-> none.rules \cup (Content(c, {o}) \cap Inside({o}))]
    BY DEF Created
  <2> HIDE DEF one, none, rules
  <2>4. Created(none, o, Content(c, {o})) =
            [objs  |-> ((c.objs \cup {o}) \ {o}) \cup {o},
             rules |-> (rules \ Inside({o})) \cup (c.rules \cap Inside({o}) \cap Inside({o}))]
    BY <2>1, <2>2, <2>3 DEF Content
  <2> QED BY <2>4 DEF one, none, rules
<1>6. /\ (c.objs \ {o}) \cup {o} = c.objs \cup {o}
      /\ ((c.objs \cup {o}) \ {o}) \cup {o} = c.objs
  OBVIOUS
<1>7. (((c.rules \ Inside({o})) \cup (drafts[d].content \cap Inside({o})))
           \ Inside({o})) \cup (c.rules \cap Inside({o}) \cap Inside({o})) = c.rules
  OBVIOUS
<1>8. Reversible(c, d, {o})
  BY DEF Reversible
<1>9. Created(Removed(c, o), o, drafts[d].content) = Changed(c, d, {o})
  BY <1>3, <1>4, <1>6
<1>10. Created(Removed(Changed(c, d, {o}), o), o, Content(c, {o})) = c
  BY <1>2, <1>5, <1>6, <1>7
<1>11. o \in Changed(c, d, {o}).objs
  BY <1>3
<1> QED BY <1>8, <1>9, <1>10, <1>11

----------------------------------------------------------------------------
(* What a call that does not fail on its own answers.                      *)

LEMMA RuleAnswer ==
    ASSUME NEW c, NEW op, NEW r, NEW res \in RuleResults(c, op, r), res.fault = 0
    PROVE  \/ RuleRefused(c, op, r) /\ ~res.ok /\ res.conf = c
           \/ ~RuleRefused(c, op, r) /\ res.ok /\ res.conf = RuleEffect(c, op, r)
<1>1. CASE RuleRefused(c, op, r)
  BY <1>1 DEF RuleResults
<1>2. CASE ~RuleRefused(c, op, r)
  BY <1>2 DEF RuleResults
<1> QED BY <1>1, <1>2

\* A rule of a batch is tried at runtime.
LEMMA TriedRule ==
    ASSUME NEW r \in Rules, NEW op, NEW content, NEW old,
           NEW res \in MemberResults(op, r, content, old), res.fault = 0
    PROVE  /\ res.perm = perm
           /\ \/ RuleRefused(run, op, r) /\ ~res.ok /\ res.run = run
              \/ /\ ~RuleRefused(run, op, r) /\ res.ok
                 /\ res.run = RuleEffect(run, op, r)
<1>1. PICK x \in RuleResults(run, op, r) : res = Outcome(x.ok, x.conf, perm, x.fault)
  BY DEF MemberResults
<1>2. /\ res.ok = x.ok /\ res.run = x.conf /\ res.perm = perm /\ x.fault = 0
  BY <1>1 DEF Outcome
<1> QED BY <1>2, RuleAnswer

LEMMA TriedObject ==
    ASSUME NEW o \in Objects, NEW op \in {"add", "delete"}, NEW content, NEW old,
           NEW res \in MemberResults(op, o, content, old), res.fault = 0
    PROVE  \/ /\ op = "add" <=> o \in perm.objs
              /\ ~res.ok /\ res.run = run /\ res.perm = perm
           \/ /\ ~(op = "add" <=> o \in perm.objs)
              /\ res.ok
              /\ res.run = ObjectEffect(op, o, content)
              /\ res.perm = ObjectEffect(op, o, content)
<1>1. res \in ObjectResults(op, o, content)
  BY MemberAssumption DEF MemberResults
<1>2. CASE op = "add" <=> o \in perm.objs
  <2>1. res = Outcome(FALSE, run, perm, 0)
    BY <1>1, <1>2 DEF ObjectResults
  <2> QED BY <1>2, <2>1 DEF Outcome
<1>3. CASE ~(op = "add" <=> o \in perm.objs)
  <2> DEFINE new == ObjectEffect(op, o, content)
             bare == ObjectEffect(op, o, {})
  <2>1. \/ res = Outcome(TRUE, new, new, 0)
        \/ res = Outcome(FALSE, run, perm, 1)
        \/ res = Outcome(FALSE, run, new, 1)
        \/ res = Outcome(FALSE, new, new, 1)
        \/ res = Outcome(FALSE, run, bare, 1)
    BY <1>1, <1>3 DEF ObjectResults
  <2> HIDE DEF new, bare
  <2>2. res = Outcome(TRUE, new, new, 0)
    BY <2>1 DEF Outcome
  <2>3. res.ok /\ res.run = new /\ res.perm = new
    BY <2>2 DEF Outcome
  <2> QED BY <1>3, <2>3 DEF new
<1> QED BY <1>2, <1>3

LEMMA TriedUpdate ==
    ASSUME NEW o \in Objects, o \in perm.objs, NEW content, NEW old,
           NEW res \in MemberResults("update", o, content, old), res.fault = 0
    PROVE  /\ res.ok
           /\ res.run = Created(Removed(perm, o), o, content)
           /\ res.perm = Created(Removed(perm, o), o, content)
<1> DEFINE gone == Removed(perm, o)
           changed == Created(gone, o, content)
           original == Created(gone, o, old)
<1>1. res \in UpdateResults(o, content, old)
  BY MemberAssumption DEF MemberResults
<1>2. \/ res = Outcome(TRUE, changed, changed, 0)
      \/ \E x \in {run, original, changed}, y \in {perm, original, changed} :
             res = Outcome(FALSE, x, y, 1)
      \/ \E y \in {gone, original} : res = Outcome(FALSE, run, y, 2)
  BY <1>1 DEF UpdateResults
<1> HIDE DEF gone, changed, original
<1>3. res = Outcome(TRUE, changed, changed, 0)
  BY <1>2 DEF Outcome
<1>4. res.ok /\ res.run = changed /\ res.perm = changed
  BY <1>3 DEF Outcome
<1> QED BY <1>4 DEF changed, gone

----------------------------------------------------------------------------
(* A member of the batch tried, and taken back.                            *)

WellMade(d) ==
    /\ drafts[d] \in DraftRow /\ Shape(d) /\ Separable(d)
    /\ base.run \in Config /\ base.perm \in Config

\* The members D are in force, the objects of them permanent.
Tried(r, p, d, D) ==
    /\ r = Changed(base.run, d, D)
    /\ p = Changed(base.perm, d, D \cap Objects)
    /\ Reversible(base.run, d, D)
    /\ Reversible(base.perm, d, D \cap Objects)

LEMMA TurnOfKind ==
    ASSUME NEW S \in SUBSET Members, NEW op, NEW m \in Turn(op, S)
    PROVE  /\ op = "add" /\ m \in Rules => S \cap Objects = {}
           /\ op = "delete" /\ m \in Objects => S \subseteq Objects
<1>1. m \in S /\ \A o \in Objects : Level(o) \in 0 .. 3
  BY MemberAssumption DEF Turn, Level
<1>2. \A r \in Rules : Level(r) = 4
  BY DEF Level
<1>3. CASE op = "add"
  <2>1. \A n \in S : Level(m) =< Level(n)
    BY <1>3 DEF Turn
  <2> QED BY <1>1, <1>2, <1>3, <2>1
<1>4. CASE op = "delete"
  <2>1. \A n \in S : Level(n) =< Level(m)
    BY <1>4 DEF Turn
  <2> QED BY <1>1, <1>2, <1>4, <2>1 DEF Members
<1> QED BY <1>3, <1>4

\* Objects are tried where the configuration in force is the permanent one.
LEMMA TriedAlike ==
    ASSUME NEW d, NEW D \in SUBSET Objects, base.run = base.perm, Tried(run, perm, d, D)
    PROVE  run = perm
<1>1. D \cap Objects = D
  OBVIOUS
<1> QED BY <1>1 DEF Tried

LEMMA RuleTried ==
    ASSUME NEW d, WellMade(d), NEW D, Tried(run, perm, d, D),
           NEW r \in Rules, r \in drafts[d].members, NEW content, NEW old,
           NEW res \in MemberResults(drafts[d].op, r, content, old), res.fault = 0
    PROVE  \/ res.ok /\ Tried(res.run, res.perm, d, D \cup {r})
           \/ ~res.ok /\ res.run = run /\ res.perm = perm
<1>1. drafts[d].op \in {"add", "delete"}
  BY MemberAssumption DEF WellMade, DraftRow, Shape
<1>2. (D \cup {r}) \cap Objects = D \cap Objects
  BY MemberAssumption
<1>3. CASE RuleRefused(run, drafts[d].op, r)
  BY <1>3, TriedRule
<1>4. CASE ~RuleRefused(run, drafts[d].op, r)
  <2> DEFINE op == drafts[d].op
  <2> HIDE DEF op
  <2>1. /\ res.ok /\ res.perm = perm
        /\ res.run = RuleEffect(run, op, r)
    BY <1>4, TriedRule DEF op
  <2>2. /\ base.run \in Config /\ run = Changed(base.run, d, D)
        /\ Reversible(base.run, d, D)
    BY DEF WellMade, Tried
  <2>3. ~RuleRefused(Changed(base.run, d, D), op, r)
    BY <1>4, <2>2 DEF op
  <2>4. /\ RuleEffect(Changed(base.run, d, D), op, r) = Changed(base.run, d, D \cup {r})
        /\ Reversible(base.run, d, D \cup {r})
    BY <1>1, <2>2, <2>3, RuleDone DEF op
  <2> QED BY <1>2, <2>1, <2>2, <2>4 DEF Tried
<1> QED BY <1>3, <1>4

LEMMA ObjectTried ==
    ASSUME NEW d, WellMade(d), NEW D \in SUBSET Objects, Tried(run, perm, d, D),
           NEW o \in Objects \ D, o \in drafts[d].members,
           drafts[d].op \in {"add", "delete"}, NEW old,
           NEW res \in MemberResults(drafts[d].op, o, Seen(d).content, old), res.fault = 0
    PROVE  \/ res.ok /\ Tried(res.run, res.perm, d, D \cup {o})
           \/ ~res.ok /\ res.run = run /\ res.perm = perm
<1> DEFINE c == base.run
           E == D \cup {o}
<1>1. base.run = base.perm /\ c \in Config
  BY DEF WellMade, Separable
<1>2. /\ run = perm /\ D \cap Objects = D /\ E \cap Objects = E
      /\ perm = Changed(c, d, D) /\ Reversible(c, d, D)
  BY <1>1, TriedAlike DEF Tried
<1>3. CASE drafts[d].op = "add" <=> o \in perm.objs
  BY <1>3, TriedObject
<1>4. CASE ~(drafts[d].op = "add" <=> o \in perm.objs)
  <2>1. /\ res.ok
        /\ res.run = ObjectEffect(drafts[d].op, o, Seen(d).content)
        /\ res.perm = ObjectEffect(drafts[d].op, o, Seen(d).content)
    BY <1>4, TriedObject
  <2>2. \A m : m \in E <=> m \in D \/ m = o
    OBVIOUS
  <2>3. o \in Changed(c, d, D).objs <=> drafts[d].op = "delete"
    BY <1>2, <1>4
  <2> HIDE DEF c, E
  <2>4. /\ drafts[d].op = "add" =>
               Created(Changed(c, d, D), o, drafts[d].content) = Changed(c, d, E)
        /\ drafts[d].op = "delete" => Removed(Changed(c, d, D), o) = Changed(c, d, E)
        /\ Reversible(c, d, E)
    BY <1>1, <1>2, <2>2, <2>3, ObjectDone
  <2>5. ObjectEffect(drafts[d].op, o, Seen(d).content) = Changed(c, d, E)
    <3>1. CASE drafts[d].op = "add"
      BY <1>2, <2>4, <3>1 DEF ObjectEffect, Seen
    <3>2. CASE drafts[d].op = "delete"
      BY <1>2, <2>4, <3>2 DEF ObjectEffect
    <3> QED BY <3>1, <3>2
  <2>6. Tried(res.run, res.perm, d, E)
    BY <1>1, <1>2, <2>1, <2>4, <2>5 DEF Tried, c
  <2> QED BY <2>1, <2>6 DEF E
<1> QED BY <1>3, <1>4

LEMMA UpdateTried ==
    ASSUME NEW d, WellMade(d), Tried(run, perm, d, {}),
           NEW o \in Objects, drafts[d].members = {o}, o \in base.perm.objs,
           drafts[d].op = "update", NEW old,
           NEW res \in MemberResults("update", o, Seen(d).content, old), res.fault = 0
    PROVE  res.ok /\ Tried(res.run, res.perm, d, {o})
<1> DEFINE c == base.run
<1>1. base.run = base.perm /\ c \in Config
  BY DEF WellMade, Separable
<1>2. run = c /\ perm = c /\ {} \cap Objects = {} /\ {o} \cap Objects = {o}
  BY <1>1, NothingChanged DEF Tried
<1>3. /\ res.ok
      /\ res.run = Created(Removed(c, o), o, Seen(d).content)
      /\ res.perm = Created(Removed(c, o), o, Seen(d).content)
  BY <1>1, <1>2, TriedUpdate
<1>4. Seen(d).content = drafts[d].content
  BY DEF Seen
<1>5. o \in c.objs
  BY <1>1
<1> HIDE DEF c
<1>6. /\ Created(Removed(c, o), o, drafts[d].content) = Changed(c, d, {o})
      /\ Reversible(c, d, {o})
  BY <1>1, <1>5, ObjectUpdated
<1> QED BY <1>1, <1>2, <1>3, <1>4, <1>6 DEF Tried, c

LEMMA RuleTakenBack ==
    ASSUME NEW d, WellMade(d), NEW D \in SUBSET drafts[d].members,
           Tried(run, perm, d, D), run \in Config,
           NEW r \in D \cap Rules,
           NEW E, \A m : m \in E <=> m \in D /\ m # r,
           NEW content, NEW old,
           NEW res \in MemberResults(Inverse(drafts[d].op), r, content, old), res.fault = 0
    PROVE  res.ok /\ Tried(res.run, res.perm, d, E)
<1> DEFINE op == drafts[d].op
<1>1. op \in {"add", "delete"}
  BY MemberAssumption DEF WellMade, DraftRow, Shape
<1>2. E \cap Objects = D \cap Objects
  BY MemberAssumption
<1>3. /\ base.run \in Config /\ run = Changed(base.run, d, D)
      /\ Reversible(base.run, d, D)
  BY DEF WellMade, Tried
<1>4. /\ op = "add" => D \cap drafts[d].content = {}
      /\ op = "delete" => D \subseteq Rules
  BY MemberAssumption DEF WellMade, Separable
<1>5. /\ ~RuleRefused(run, Inverse(op), r)
      /\ RuleEffect(run, Inverse(op), r) = Changed(base.run, d, E)
      /\ Reversible(base.run, d, E)
  <2>1. Changed(base.run, d, D) \in Config
    BY <1>3
  <2> HIDE DEF op
  <2>2. /\ ~RuleRefused(Changed(base.run, d, D), Inverse(op), r)
        /\ RuleEffect(Changed(base.run, d, D), Inverse(op), r) = Changed(base.run, d, E)
        /\ Reversible(base.run, d, E)
    BY <1>1, <1>3, <1>4, <2>1, RuleUndone DEF op
  <2> QED BY <1>3, <2>2
<1>6. /\ res.ok /\ res.perm = perm
      /\ res.run = RuleEffect(run, Inverse(op), r)
  BY <1>5, TriedRule
<1> QED BY <1>2, <1>5, <1>6 DEF Tried

LEMMA ObjectTakenBack ==
    ASSUME NEW d, WellMade(d), NEW D \in SUBSET Objects,
           D \subseteq drafts[d].members, Tried(run, perm, d, D),
           NEW o \in D, NEW E, \A m : m \in E <=> m \in D /\ m # o,
           drafts[d].op \in {"add", "delete"}, NEW old,
           NEW res \in MemberResults(Inverse(drafts[d].op), o, Seen(d).content, old),
           res.fault = 0
    PROVE  res.ok /\ Tried(res.run, res.perm, d, E)
<1> DEFINE c == base.run
           op == drafts[d].op
           content == Seen(d).content
<1>1. base.run = base.perm /\ c \in Config
  BY DEF WellMade, Separable
<1>2. /\ run = perm /\ D \cap Objects = D /\ E \cap Objects = E
      /\ perm = Changed(c, d, D) /\ Reversible(c, d, D)
  BY <1>1, TriedAlike DEF Tried
<1>3. op = "delete" => content \cap Inside({o}) = c.rules \cap Inside({o})
  BY <1>1 DEF Seen, Content, Inside
<1>4. op \in {"add", "delete"}
  OBVIOUS
<1> HIDE DEF c, content
<1>5. /\ op = "add" =>
             /\ o \in Changed(c, d, D).objs
             /\ Removed(Changed(c, d, D), o) = Changed(c, d, E)
      /\ op = "delete" =>
             /\ o \notin Changed(c, d, D).objs
             /\ Created(Changed(c, d, D), o, content) = Changed(c, d, E)
      /\ Reversible(c, d, E)
  <2>1. CASE op = "add"
    BY <1>1, <1>2, <2>1, ObjectUnmade
  <2>2. CASE op = "delete"
    <3>1. content \cap Inside({o}) = c.rules \cap Inside({o})
      BY <1>3, <2>2
    <3>2. c \in Config /\ Reversible(c, d, D)
      BY <1>1, <1>2
    <3>3. /\ o \notin Changed(c, d, D).objs
          /\ Created(Changed(c, d, D), o, content) = Changed(c, d, E)
          /\ Reversible(c, d, E)
      BY <2>2, <3>1, <3>2, ObjectRemade
    <3> QED BY <2>2, <3>3
  <2> QED BY <1>4, <2>1, <2>2
<1>6. /\ Inverse(op) \in {"add", "delete"}
      /\ ~(Inverse(op) = "add" <=> o \in perm.objs)
      /\ ObjectEffect(Inverse(op), o, content) = Changed(c, d, E)
  <2>1. CASE op = "add"
    BY <1>2, <1>5, <2>1 DEF Inverse, ObjectEffect
  <2>2. CASE op = "delete"
    BY <1>2, <1>5, <2>2 DEF Inverse, ObjectEffect
  <2> QED BY <1>4, <2>1, <2>2
<1>7. /\ res.ok
      /\ res.run = ObjectEffect(Inverse(op), o, content)
      /\ res.perm = ObjectEffect(Inverse(op), o, content)
  BY <1>6, TriedObject DEF content
<1> QED BY <1>1, <1>2, <1>5, <1>6, <1>7 DEF Tried, c

LEMMA UpdateTakenBack ==
    ASSUME NEW d, WellMade(d), NEW o \in Objects, drafts[d].members = {o},
           Tried(run, perm, d, {o}),
           drafts[d].op = "update", NEW old,
           NEW res \in MemberResults("update", o, Seen(d).old, old), res.fault = 0
    PROVE  res.ok /\ Tried(res.run, res.perm, d, {})
<1> DEFINE c == base.run
<1>1. base.run = base.perm /\ c \in Config
  BY DEF WellMade, Separable
<1>2. run = Changed(c, d, {o}) /\ perm = Changed(c, d, {o}) /\ Reversible(c, d, {o})
  BY <1>1 DEF Tried
<1>3. Seen(d).old = Content(c, {o})
  BY <1>1 DEF Seen, Content
<1>4. o \in c.objs
  BY <1>1, <1>2, ConfigParts, MemberAssumption DEF Reversible
<1> HIDE DEF c
<1>5. /\ o \in Changed(c, d, {o}).objs
      /\ Created(Removed(Changed(c, d, {o}), o), o, Content(c, {o})) = c
  BY <1>1, <1>4, ObjectUpdated
<1>6. res.ok /\ res.run = c /\ res.perm = c
  BY <1>2, <1>3, <1>5, TriedUpdate
<1>7. Changed(c, d, {}) = c /\ Reversible(c, d, {})
  BY <1>1, NothingChanged
<1> QED BY <1>1, <1>6, <1>7 DEF Tried, c

----------------------------------------------------------------------------
(* The rows that WholeInv relies on.                                       *)

\* A draft prepared is well shaped, and no other is touched.
LEMMA PreparedShape ==
    ASSUME Inv, NEW d \in Drafts, Prepare(d)
    PROVE  /\ UNCHANGED base
           /\ \A e \in Drafts :
                  \/ drafts'[e] = drafts[e]
                  \/ drafts[e] = NoRow /\ Shape(e)'
<1> DEFINE New(op, M, content) ==
        /\ content \subseteq Inside(M \cap Objects)
        /\ op = "update" => \E o \in Objects : M = {o}
        /\ \E restores : NewDraft(d, op, M, content, restores)
<1>1. ASSUME NEW op, NEW M, NEW content, New(op, M, content)
      PROVE  \A e \in Drafts : \/ drafts'[e] = drafts[e]
                               \/ drafts[e] = NoRow /\ Shape(e)'
  <2>1. PICK restores : NewDraft(d, op, M, content, restores)
    BY <1>1
  <2> DEFINE row == [status |-> "pending", op |-> op, members |-> M,
                     content |-> content, restores |-> restores]
  <2>2. drafts[d] = NoRow /\ drafts' = [drafts EXCEPT ![d] = row]
    BY <2>1 DEF NewDraft
  <2>3. row.op = op /\ row.members = M /\ row.content = content
    OBVIOUS
  <2> HIDE DEF row
  <2>4. drafts'[d] = row /\ \A e \in Drafts \ {d} : drafts'[e] = drafts[e]
    BY <2>2 DEF Inv, TypeOK
  <2>5. Shape(d)'
    BY <1>1, <2>3, <2>4 DEF Shape
  <2> QED BY <2>2, <2>4, <2>5
<1>2. ASSUME NEW R \in SUBSET Rules, NEW O \in SUBSET Objects, NEW content,
             PrepareImport(d, R, O, content)
      PROVE  /\ UNCHANGED base
             /\ \E op, M, c : New(op, M, c)
  <2> DEFINE M == MissingRules(R) \cup MissingObjects(O)
             c == content \cap Inside(MissingObjects(O))
  <2>1. NewDraft(d, "add", M, c, {}) /\ UNCHANGED base
    BY <1>2 DEF PrepareImport
  <2>2. c \subseteq Inside(M \cap Objects)
    BY DEF MissingObjects, Inside
  <2> HIDE DEF M, c
  <2>3. New("add", M, c)
    BY <2>1, <2>2
  <2> QED BY <2>1, <2>3
<1>3. ASSUME NEW R \in SUBSET Rules, NEW O \in SUBSET Objects, PrepareDelete(d, R, O)
      PROVE  /\ UNCHANGED base
             /\ \E op, M, c : New(op, M, c)
  <2> DEFINE M == R \cup O
             c == Content(perm, O)
  <2>1. NewDraft(d, "delete", M, c, {}) /\ UNCHANGED base
    BY <1>3 DEF PrepareDelete
  <2>2. c \subseteq Inside(M \cap Objects)
    BY DEF Content, Inside
  <2> HIDE DEF M, c
  <2>3. New("delete", M, c)
    BY <2>1, <2>2
  <2> QED BY <2>1, <2>3
<1>4. ASSUME NEW op \in {"add", "delete", "update"}, NEW o \in Objects, NEW content,
             PrepareObject(d, op, o, content)
      PROVE  /\ UNCHANGED base
             /\ \E k, M, c : New(k, M, c)
  <2> DEFINE c == content \cap Inside({o})
  <2>1. NewDraft(d, op, {o}, c, {}) /\ UNCHANGED base
    BY <1>4 DEF PrepareObject
  <2>2. c \subseteq Inside({o} \cap Objects)
    BY DEF Inside
  <2> HIDE DEF c
  <2>3. New(op, {o}, c)
    BY <2>1, <2>2
  <2> QED BY <2>1, <2>3
<1>5. ASSUME NEW b \in Drafts, NEW S \in SUBSET Deleted(b), Restore(d, b, S)
      PROVE  /\ UNCHANGED base
             /\ UNCHANGED drafts \/ \E op, M, c : New(op, M, c)
  <2> DEFINE O == S \cap Objects
             M == MissingRules(S \cap Rules) \cup MissingObjects(O)
             c == sessions[b].objects.content \cap Inside(MissingObjects(O))
  <2>1. /\ UNCHANGED drafts \/ NewDraft(d, "add", M, c, {b} \X M)
        /\ UNCHANGED base
    BY <1>5 DEF Restore
  <2>2. c \subseteq Inside(M \cap Objects)
    BY DEF MissingObjects, Inside
  <2> HIDE DEF M, c
  <2>3. NewDraft(d, "add", M, c, {b} \X M) => New("add", M, c)
    BY <2>2
  <2> QED BY <2>1, <2>3
<1> HIDE DEF New
<1>6. UNCHANGED base /\ (UNCHANGED drafts \/ \E op, M, c : New(op, M, c))
  BY <1>2, <1>3, <1>4, <1>5 DEF Prepare
<1> QED BY <1>1, <1>6

\* A step of the handler, or a request for a trial that is pending.
LEMMA RowsStay ==
    ASSUME RowsInv, Inv', UNCHANGED base, DraftsKeep,
           \A e \in Drafts :
               /\ drafts[e] = NoRow => drafts'[e] = NoRow
               /\ drafts'[e].status = "pending" => drafts[e].status = "pending"
               /\ sessions'[e] # NoRow =>
                      sessions[e] # NoRow \/ (pc # "idle" /\ e = job)
               /\ sessions'[e].status = "pending" =>
                      sessions[e].status = "pending" \/ (pc # "idle" /\ e = job),
           \/ pc' = "idle"
           \/ pc # "idle" /\ job' = job
           \/ sessions[job'].status = "pending"
    PROVE  RowsInv'
<1>1. DraftsShaped'
  <2> SUFFICES ASSUME NEW e \in Drafts, drafts'[e] # NoRow PROVE Shape(e)'
    BY DEF DraftsShaped
  <2>1. drafts[e] # NoRow /\ Shape(e)
    BY DEF RowsInv, DraftsShaped
  <2> QED BY <2>1 DEF DraftsKeep, Shape
<1>2. SubmittedOnce'
  <2>1. ASSUME NEW e \in Drafts, sessions'[e] # NoRow PROVE drafts'[e].status # "pending"
    BY <2>1 DEF RowsInv, SubmittedOnce
  <2>2. ASSUME pc' # "idle" PROVE drafts'[job'].status # "pending"
    <3>1. job' \in Drafts
      BY <2>2 DEF Inv, HasDraft
    <3> QED BY <2>2, <3>1, RowTypes DEF RowsInv, SubmittedOnce
  <2> QED BY <2>1, <2>2 DEF SubmittedOnce
<1>3. BaseRight'
  BY DEF RowsInv, BaseRight, DraftsKeep
<1>4. Alone'
  <2> SUFFICES ASSUME base.alone PROVE Alone'
    BY DEF Alone
  <2>1. ASSUME NEW e \in Drafts, sessions'[e].status = "pending" PROVE e = base.draft
    BY <2>1 DEF RowsInv, Alone
  <2>2. ASSUME pc' # "idle" PROVE job' = base.draft
    <3>1. job' \in Drafts
      BY <2>2 DEF Inv, HasDraft
    <3> QED BY <2>2, <3>1 DEF RowsInv, Alone
  <2> QED BY <2>1, <2>2 DEF Alone
<1> QED BY <1>1, <1>2, <1>3, <1>4 DEF RowsInv

LEMMA PrepareRowsStep ==
    ASSUME RowsInv, NEW d \in Drafts, Prepare(d)
    PROVE  RowsInv' /\ UNCHANGED base /\ OnlyRows
<1>1. Inv' /\ OnlyRows
  BY PrepareStep, PreparedRows DEF RowsInv
<1>2. /\ UNCHANGED base
      /\ \A e \in Drafts : \/ drafts'[e] = drafts[e]
                           \/ drafts[e] = NoRow /\ Shape(e)'
  BY PreparedShape DEF RowsInv
<1>3. pc' = pc /\ job' = job /\ sessions' = sessions
  BY <1>1 DEF OnlyRows, handler
<1>4. DraftsShaped'
  <2> SUFFICES ASSUME NEW e \in Drafts, drafts'[e] # NoRow PROVE Shape(e)'
    BY DEF DraftsShaped
  <2>1. CASE drafts'[e] = drafts[e]
    BY <2>1 DEF RowsInv, DraftsShaped, Shape
  <2> QED BY <1>2, <2>1
<1>5. SubmittedOnce'
  <2>1. \A e \in Drafts : drafts[e] # NoRow => drafts'[e] = drafts[e]
    BY <1>2
  <2> QED BY <1>3, <2>1 DEF RowsInv, Inv, SubmittedOnce, SessionsHaveDrafts, HasDraft
<1>6. BaseRight'
  BY <1>1, <1>2 DEF RowsInv, BaseRight, OnlyRows, DraftsKeep
<1>7. Alone'
  BY <1>2, <1>3 DEF RowsInv, Alone
<1> QED BY <1>1, <1>2, <1>4, <1>5, <1>6, <1>7 DEF RowsInv

LEMMA BeginRowsStep ==
    ASSUME RowsInv, NEW d \in Drafts, Begin(d)
    PROVE  RowsInv' /\ DraftsKeep
<1>1. drafts[d] # NoRow
  BY RowTypes DEF Begin
<1>2. drafts' = [drafts EXCEPT ![d].status = "applying"]
  BY DEF Begin
<1>3. DraftsKeep /\ Inv'
  BY <1>1, <1>2, DraftStatus, BeginStep DEF RowsInv
<1>4. \A e \in Drafts \ {d} : drafts'[e] = drafts[e]
  BY <1>2 DEF RowsInv, Inv, TypeOK
<1>5. drafts'[d] # NoRow /\ drafts'[d].status = "applying"
  <2>1. drafts[d] \in DraftRow /\ drafts'[d] = [drafts[d] EXCEPT !.status = "applying"]
    BY <1>1, <1>2 DEF RowsInv, Inv, TypeOK
  <2> QED BY <2>1 DEF DraftRow, NoRow
<1>6. /\ pc = "idle" /\ sessions' = sessions
      /\ pc' = "idle" \/ job' = d
      /\ base' = [draft |-> d, alone |-> Pending = {}, run |-> run, perm |-> perm]
  BY DEF Begin, Work, handler
<1>7. DraftsShaped'
  <2> SUFFICES ASSUME NEW e \in Drafts, drafts'[e] # NoRow PROVE Shape(e)'
    BY DEF DraftsShaped
  <2>1. drafts[e] # NoRow /\ Shape(e)
    BY <1>1, <1>4 DEF RowsInv, DraftsShaped
  <2> QED BY <1>3, <2>1 DEF DraftsKeep, Shape
<1>8. SubmittedOnce'
  BY <1>4, <1>5, <1>6 DEF RowsInv, SubmittedOnce
<1>9. BaseRight'
  BY <1>5, <1>6 DEF BaseRight, RowsInv, Inv, TypeOK
<1>10. Alone'
  BY <1>6 DEF Alone, Pending
<1> QED BY <1>3, <1>7, <1>8, <1>9, <1>10 DEF RowsInv

----------------------------------------------------------------------------
(* The steps of the batch that is judged.                                  *)

Known(d) == AtWork(d) /\ Fits(d)

\* The draft of a judged batch is there, well made, and keeps what it is for.
LEMMA JudgedBefore ==
    ASSUME WholeInv, UNCHANGED base, DraftsKeep,
           NEW n \in {0, 1, 2}, faults' = faults + n,
           crashes' = crashes, NEW d \in Drafts, Judging(d)'
    PROVE  /\ Known(d) /\ WellMade(d) /\ drafts[d] # NoRow /\ n = 0
           /\ drafts'[d].op = drafts[d].op
           /\ drafts'[d].members = drafts[d].members
           /\ drafts'[d].content = drafts[d].content
           /\ drafts[d].members \subseteq Members
           /\ pc # "idle" => job = d
           /\ \A e \in Drafts : sessions[e].status = "pending" => e = d
<1>1. faults' = 0 /\ crashes' = 0 /\ base.draft = d /\ base.alone
  BY DEF Judging
<1>2. faults = 0 /\ n = 0 /\ crashes = 0
  BY <1>1 DEF WholeInv, RowsInv, Inv, TypeOK
<1>3. drafts[d] # NoRow
  BY <1>1 DEF WholeInv, RowsInv, BaseRight
<1>4. /\ drafts'[d].op = drafts[d].op /\ drafts'[d].members = drafts[d].members
      /\ drafts'[d].content = drafts[d].content
  BY <1>3 DEF DraftsKeep
<1>5. Separable(d)
  BY <1>4 DEF Judging, Separable
<1>6. Known(d)
  BY <1>1, <1>2, <1>5 DEF WholeInv, Judging, Known
<1>7. WellMade(d)
  BY <1>3, <1>5 DEF WellMade, WholeInv, RowsInv, Inv, TypeOK, DraftsShaped, BaseRight
<1>8. drafts[d].members \subseteq Members
  BY <1>7 DEF WellMade, DraftRow
<1> QED BY <1>1, <1>2, <1>3, <1>4, <1>6, <1>7, <1>8 DEF WholeInv, RowsInv, Alone

LEMMA FitsNext ==
    ASSUME NEW d, UNCHANGED base,
           drafts'[d].op = drafts[d].op, drafts'[d].members = drafts[d].members,
           drafts'[d].content = drafts[d].content,
           NEW P, NEW Q, InForce(d)' = P, InForceForGood(d)' = Q,
           run' = Changed(base.run, d, P), perm' = Changed(base.perm, d, Q),
           Reversible(base.run, d, P), Reversible(base.perm, d, Q)
    PROVE  Fits(d)'
<1>1. /\ Changed(base.run, d, P)' = Changed(base.run, d, P)
      /\ Changed(base.perm, d, Q)' = Changed(base.perm, d, Q)
  BY DEF Changed
<1>2. /\ Reversible(base.run, d, P)' = Reversible(base.run, d, P)
      /\ Reversible(base.perm, d, Q)' = Reversible(base.perm, d, Q)
  BY DEF Reversible
<1> QED BY <1>1, <1>2 DEF Fits

\* Members are tried and taken back while no session is confirmed.
LEMMA FitsTried ==
    ASSUME NEW d, AtWork(d), pc \in {"apply", "undo", "rollback"}
    PROVE  Fits(d) <=> Tried(run, perm, d, InForce(d))
<1>1. sessions[d].status # "confirmed"
  BY RowTypes DEF AtWork
<1>2. InForceForGood(d) = InForce(d) \cap Objects
  BY <1>1 DEF InForceForGood
<1> QED BY <1>2 DEF Fits, Tried

\* A member was called for, with the members D in force before and E after.
LEMMA TriedNext ==
    ASSUME NEW d, UNCHANGED <<base, tables>>,
           AtWork(d), pc \in {"apply", "undo", "rollback"},
           pc' \in {"apply", "undo", "rollback"},
           pc' \in {"apply", "undo"} <=> pc \in {"apply", "undo"},
           NEW E, InForce(d)' = E, Tried(run', perm', d, E)
    PROVE  Fits(d)'
<1>1. sessions'[d].status # "confirmed"
  BY RowTypes DEF AtWork, tables
<1>2. InForceForGood(d)' = E \cap Objects
  BY <1>1 DEF InForceForGood
<1>3. drafts' = drafts
  BY DEF tables
<1> QED BY <1>2, <1>3, FitsNext DEF Tried

LEMMA SeenKept ==
    ASSUME NEW d, UNCHANGED base,
           drafts'[d].op = drafts[d].op, drafts'[d].members = drafts[d].members,
           drafts'[d].content = drafts[d].content
    PROVE  Seen(d)' = Seen(d) /\ Lasting(d)' = Lasting(d)
BY DEF Seen, Content, Lasting

\* Adapter calls that do not fail on their own, for a rule or an object.
LEMMA CallFaults ==
    ASSUME NEW m, NEW op, NEW content, NEW old,
           NEW res \in MemberResults(op, m, content, old), Call(res)
    PROVE  res.fault \in {0, 1, 2} /\ faults' = faults + res.fault
<1>1. CASE m \in Rules
  <2>1. PICK x \in RuleResults(run, op, m) : res = Outcome(x.ok, x.conf, perm, x.fault)
    BY <1>1 DEF MemberResults
  <2>2. x.fault \in {0, 1}
    BY <2>1 DEF RuleResults
  <2> QED BY <2>1, <2>2 DEF Outcome, Call
<1>2. CASE m \notin Rules /\ op = "update"
  <2>1. res \in UpdateResults(m, content, old)
    BY <1>2 DEF MemberResults
  <2>2. res.fault \in {0, 1, 2}
    BY <2>1 DEF UpdateResults, Outcome
  <2> QED BY <2>2 DEF Call
<1>3. CASE m \notin Rules /\ op # "update"
  <2>1. res \in ObjectResults(op, m, content)
    BY <1>3 DEF MemberResults
  <2>2. res.fault \in {0, 1, 2}
    BY <2>1 DEF ObjectResults, Outcome
  <2> QED BY <2>2 DEF Call
<1> QED BY <1>1, <1>2, <1>3

LEMMA ApplyMemberKnown ==
    ASSUME WholeInv, ApplyMember, NEW d \in Drafts, Judging(d)'
    PROVE  Known(d)'
<1>1. PICK m \in Turn(Op, todo) :
          \E res \in MemberResults(Op, m, found.content, found.old) :
              /\ Call(res)
              /\ IF res.ok THEN Did(m) ELSE Go("undo", done)
  BY DEF ApplyMember
<1>2. PICK res \in MemberResults(Op, m, found.content, found.old) :
          /\ Call(res)
          /\ IF res.ok THEN Did(m) ELSE Go("undo", done)
  BY <1>1
<1>3. pc = "apply" /\ UNCHANGED <<tables, base>> /\ crashes' = crashes
  BY DEF ApplyMember
<1>4. DraftsKeep /\ drafts' = drafts /\ sessions' = sessions
  BY <1>3 DEF tables, DraftsKeep
<1>5. res.fault \in {0, 1, 2} /\ faults' = faults + res.fault
  BY <1>2, CallFaults
<1>6. /\ Known(d) /\ WellMade(d) /\ res.fault = 0 /\ job = d
      /\ drafts[d].members \subseteq Members
  BY <1>3, <1>4, <1>5, JudgedBefore
<1>7. /\ sessions[d] = NoRow /\ found = Seen(d)
      /\ sessions[d].status # "rollback_failed"
      /\ done \subseteq drafts[d].members /\ todo = drafts[d].members \ done
      /\ drafts[d].op = "add" /\ todo \cap Objects # {} => done \subseteq Objects
      /\ drafts[d].op = "update" => drafts[d].members \subseteq base.perm.objs
  BY <1>3, <1>6 DEF Known, AtWork
<1>8. Tried(run, perm, d, done)
  BY <1>3, <1>6, FitsTried DEF Known, InForce
<1>9. m \in todo /\ m \in Turn(drafts[d].op, todo) /\ todo \in SUBSET Members
  BY <1>6, <1>7 DEF Turn, Op
<1>10. res \in MemberResults(drafts[d].op, m, Seen(d).content, Seen(d).old)
  BY <1>2, <1>6, <1>7 DEF Op
<1>11. /\ drafts[d].op = "add" /\ m \in Objects => done \subseteq Objects
       /\ drafts[d].op = "update" => m \in Objects /\ done = {} /\ drafts[d].members = {m}
       /\ drafts[d].op = "delete" /\ m \in Objects => done \subseteq Objects
  BY <1>6, <1>7, <1>9, MemberAssumption DEF WellMade, Shape, Separable
<1>12. \/ res.ok /\ Tried(res.run, res.perm, d, done \cup {m})
       \/ ~res.ok /\ res.run = run /\ res.perm = perm /\ drafts[d].op # "update"
  <2>1. CASE m \in Rules
    <3>1. drafts[d].op # "update"
      BY <1>11, <2>1, MemberAssumption
    <3>2. m \in drafts[d].members
      BY <1>7, <1>9
    <3> QED BY <1>6, <1>8, <1>10, <2>1, <3>1, <3>2, RuleTried
  <2>2. CASE m \in Objects /\ drafts[d].op # "update"
    <3>1. drafts[d].op \in {"add", "delete"}
      BY <1>6, <2>2 DEF WellMade, DraftRow
    <3>2. done \in SUBSET Objects /\ m \in Objects \ done /\ m \in drafts[d].members
      BY <1>7, <1>9, <1>11, <2>2, <3>1
    <3> QED BY <1>6, <1>8, <1>10, <3>1, <3>2, <2>2, ObjectTried
  <2>3. CASE drafts[d].op = "update"
    <3>1. /\ m \in Objects /\ done = {} /\ drafts[d].members = {m}
          /\ m \in base.perm.objs
      BY <1>7, <1>11, <2>3
    <3>2. Tried(run, perm, d, {})
      BY <1>8, <3>1
    <3>3. res \in MemberResults("update", m, Seen(d).content, Seen(d).old)
      BY <1>10, <2>3
    <3>4. res.ok /\ Tried(res.run, res.perm, d, {m})
      BY <1>6, <2>3, <3>1, <3>2, <3>3, UpdateTried
    <3> QED BY <3>1, <3>4
  <2> QED BY <1>9, <2>1, <2>2, <2>3 DEF Members
<1>13. run' = res.run /\ perm' = res.perm
  BY <1>2 DEF Call
<1>14. Seen(d)' = Seen(d)
  BY <1>3, <1>4, SeenKept
<1>15. CASE res.ok
  <2>1. pc' = "apply" /\ found' = found /\ done' = done \cup {m} /\ todo' = todo \ {m}
    BY <1>2, <1>3, <1>15 DEF Did
  <2>2. Tried(run', perm', d, done \cup {m})
    BY <1>12, <1>13, <1>15
  <2>3. Fits(d)'
    <3>1. InForce(d)' = done \cup {m}
      BY <2>1 DEF InForce
    <3> QED BY <1>3, <1>6, <2>1, <2>2, <3>1, TriedNext DEF Known
  <2>4. /\ done' \subseteq drafts[d].members /\ todo' = drafts[d].members \ done'
        /\ drafts[d].op = "add" /\ todo' \cap Objects # {} => done' \subseteq Objects
    <3>1. drafts[d].op = "add" /\ m \in Rules => todo \cap Objects = {}
      BY <1>9, TurnOfKind
    <3> QED BY <1>7, <1>9, <2>1, <3>1 DEF Members
  <2>5. AtWork(d)'
    BY <1>3, <1>4, <1>7, <1>14, <2>1, <2>4, RowTypes DEF AtWork
  <2> QED BY <2>3, <2>5 DEF Known
<1>16. CASE ~res.ok
  <2>1. pc' = "undo" /\ found' = found /\ done' = {} /\ todo' = done
    BY <1>2, <1>16 DEF Go, Work
  <2>2. Tried(run', perm', d, done)
    BY <1>8, <1>12, <1>13, <1>16
  <2>3. Fits(d)'
    <3>1. InForce(d)' = done
      BY <2>1 DEF InForce
    <3> QED BY <1>3, <1>6, <2>1, <2>2, <3>1, TriedNext DEF Known
  <2>4. AtWork(d)'
    BY <1>3, <1>4, <1>7, <1>12, <1>14, <1>16, <2>1, RowTypes DEF AtWork
  <2> QED BY <2>3, <2>4 DEF Known
<1> QED BY <1>15, <1>16

\* A member of the batch is taken back, wherever the handler does so.
LEMMA TakenBack ==
    ASSUME WholeInv, NEW d, Known(d), WellMade(d), pc \in {"undo", "rollback"},
           drafts[d].members \subseteq Members,
           NEW m \in Turn(Inverse(drafts[d].op), todo), NEW content, NEW old,
           content = IF drafts[d].op = "update" THEN Seen(d).old ELSE Seen(d).content,
           NEW res \in MemberResults(Inverse(drafts[d].op), m, content, old),
           res.fault = 0
    PROVE  res.ok /\ Tried(res.run, res.perm, d, todo \ {m})
<1> DEFINE E == todo \ {m}
<1>1. todo \subseteq drafts[d].members /\ m \in todo /\ todo \in SUBSET Members
  BY DEF Known, AtWork, Turn
<1>2. Tried(run, perm, d, todo)
  BY FitsTried DEF Known, InForce
<1>3. \A n : n \in E <=> n \in todo /\ n # m
  OBVIOUS
<1>4. run \in Config
  BY DEF WholeInv, RowsInv, Inv, TypeOK
<1> HIDE DEF E
<1>5. CASE m \in Rules
  BY <1>1, <1>2, <1>3, <1>4, <1>5, RuleTakenBack DEF E
<1>6. CASE m \in Objects /\ drafts[d].op # "update"
  <2>1. drafts[d].op \in {"add", "delete"}
    BY <1>6 DEF WellMade, DraftRow
  <2>2. todo \in SUBSET Objects
    <3>1. CASE drafts[d].op = "add"
      <4>1. m \in Turn("delete", todo)
        BY <3>1 DEF Inverse
      <4> QED BY <1>1, <1>6, <4>1, TurnOfKind
    <3>2. CASE drafts[d].op = "delete"
      BY <1>1, <1>6, <3>2, MemberAssumption DEF WellMade, Separable
    <3> QED BY <2>1, <3>1, <3>2
  <2>3. res \in MemberResults(Inverse(drafts[d].op), m, Seen(d).content, old)
    BY <1>6
  <2> QED BY <1>1, <1>2, <1>3, <2>1, <2>2, <2>3, ObjectTakenBack DEF E
<1>7. CASE drafts[d].op = "update"
  <2>1. todo = {m} /\ drafts[d].members = {m} /\ m \in Objects /\ E = {}
    BY <1>1, <1>7 DEF WellMade, Shape, E
  <2>2. res \in MemberResults("update", m, Seen(d).old, old)
    BY <1>7 DEF Inverse
  <2>3. Tried(run, perm, d, {m})
    BY <1>2, <2>1
  <2>4. res.ok /\ Tried(res.run, res.perm, d, {})
    BY <1>7, <2>1, <2>2, <2>3, UpdateTakenBack
  <2> QED BY <2>1, <2>4 DEF E
<1> QED BY <1>1, <1>5, <1>6, <1>7 DEF Members

LEMMA TakeBackKnown ==
    ASSUME WholeInv, UndoMember \/ RollBackMember, NEW d \in Drafts, Judging(d)'
    PROVE  Known(d)'
<1> DEFINE content == IF pc = "undo" THEN found.content
                      ELSE IF Op = "update" THEN sessions[job].objects.old
                      ELSE sessions[job].objects.content
           old == IF pc = "undo" THEN found.content ELSE sessions[job].objects.content
<1>1. /\ pc \in {"undo", "rollback"} /\ UNCHANGED <<tables, base>> /\ crashes' = crashes
      /\ \E m \in Turn(Inverse(Op), todo) :
         \E res \in MemberResults(Inverse(Op), m, content, old) :
             /\ Call(res)
             /\ IF pc = "undo" \/ res.ok THEN Did(m) ELSE Go("rollbackFailed", {})
  <2>1. CASE UndoMember
    BY <2>1 DEF UndoMember
  <2>2. CASE RollBackMember
    BY <2>2 DEF RollBackMember
  <2> QED BY <2>1, <2>2
<1>2. PICK m \in Turn(Inverse(Op), todo) :
         \E res \in MemberResults(Inverse(Op), m, content, old) :
             /\ Call(res)
             /\ IF pc = "undo" \/ res.ok THEN Did(m) ELSE Go("rollbackFailed", {})
  BY <1>1
<1>3. PICK res \in MemberResults(Inverse(Op), m, content, old) :
             /\ Call(res)
             /\ IF pc = "undo" \/ res.ok THEN Did(m) ELSE Go("rollbackFailed", {})
  BY <1>2
<1>4. DraftsKeep /\ drafts' = drafts /\ sessions' = sessions
  BY <1>1 DEF tables, DraftsKeep
<1>5. res.fault \in {0, 1, 2} /\ faults' = faults + res.fault
  BY <1>3, CallFaults
<1>6. /\ Known(d) /\ WellMade(d) /\ res.fault = 0 /\ job = d
      /\ drafts[d].members \subseteq Members
  BY <1>1, <1>4, <1>5, JudgedBefore
<1>7. /\ pc = "undo" => found = Seen(d) /\ sessions[d] = NoRow
      /\ pc = "rollback" => sessions[d].objects = Seen(d) /\ sessions[d].status = "pending"
      /\ todo \subseteq drafts[d].members /\ m \in todo
      /\ sessions[d].status # "rollback_failed"
      /\ sessions[d] # NoRow => sessions[d].objects = Seen(d)
      /\ pc = "undo" => drafts[d].op # "update"
  BY <1>1, <1>6, RowTypes DEF Known, AtWork, Turn
<1>8. content = IF drafts[d].op = "update" THEN Seen(d).old ELSE Seen(d).content
  BY <1>1, <1>6, <1>7 DEF Op
<1> HIDE DEF content, old
<1>9. res.ok /\ Tried(res.run, res.perm, d, todo \ {m})
  <2>1. m \in Turn(Inverse(drafts[d].op), todo)
    BY <1>6 DEF Op
  <2>2. res \in MemberResults(Inverse(drafts[d].op), m, content, old)
    BY <1>6 DEF Op
  <2> QED BY <1>1, <1>6, <1>8, <2>1, <2>2, TakenBack
<1>10. /\ pc' = pc /\ found' = found /\ todo' = todo \ {m}
       /\ run' = res.run /\ perm' = res.perm
  BY <1>3, <1>9 DEF Did, Call
<1>11. Tried(run', perm', d, todo \ {m})
  BY <1>9, <1>10
<1>12. Fits(d)'
  <2>1. InForce(d)' = todo \ {m}
    BY <1>1, <1>10 DEF InForce
  <2> QED BY <1>1, <1>6, <1>10, <1>11, <2>1, TriedNext DEF Known
<1>13. Seen(d)' = Seen(d)
  BY <1>1, <1>4, SeenKept
<1>14. AtWork(d)'
  BY <1>1, <1>4, <1>7, <1>10, <1>13 DEF AtWork
<1> QED BY <1>12, <1>14 DEF Known

\* Rules are made permanent, or no longer, one by one.
LEMMA RulePersisted ==
    ASSUME WholeInv, NEW d, Known(d), WellMade(d), pc = "persist",
           NEW r \in todo, NEW res \in RuleResults(perm, drafts[d].op, r),
           res.fault = 0
    PROVE  \/ /\ res.ok
              /\ res.conf = Changed(base.perm, d,
                                    (drafts[d].members \cap Objects) \cup (done \cup {r}))
              /\ Reversible(base.perm, d,
                            (drafts[d].members \cap Objects) \cup (done \cup {r}))
           \/ ~res.ok /\ res.conf = perm
<1> DEFINE D == (drafts[d].members \cap Objects) \cup done
<1>1. r \in Rules /\ r \in drafts[d].members
  BY DEF Known, AtWork, Lasting
<1>2. drafts[d].op \in {"add", "delete"}
  BY <1>1, MemberAssumption DEF WellMade, DraftRow, Shape
<1>3. InForce(d) = drafts[d].members /\ InForceForGood(d) = D
  BY DEF InForce, InForceForGood, Untried
<1>4. /\ perm = Changed(base.perm, d, D) /\ Reversible(base.perm, d, D)
      /\ base.perm \in Config
  BY <1>3 DEF Known, Fits, WellMade
<1>5. (drafts[d].members \cap Objects) \cup (done \cup {r}) = D \cup {r}
  OBVIOUS
<1> DEFINE op == drafts[d].op
<1> HIDE DEF D, op
<1>6. CASE RuleRefused(perm, op, r)
  BY <1>6, RuleAnswer DEF op
<1>7. CASE ~RuleRefused(perm, op, r)
  <2>1. res.ok /\ res.conf = RuleEffect(perm, op, r)
    BY <1>7, RuleAnswer DEF op
  <2>2. ~RuleRefused(Changed(base.perm, d, D), op, r)
    BY <1>4, <1>7
  <2>3. /\ RuleEffect(Changed(base.perm, d, D), op, r) = Changed(base.perm, d, D \cup {r})
        /\ Reversible(base.perm, d, D \cup {r})
    BY <1>1, <1>2, <1>4, <2>2, RuleDone DEF op
  <2> QED BY <1>4, <1>5, <2>1, <2>3
<1> QED BY <1>6, <1>7

LEMMA RuleUnpersisted ==
    ASSUME WholeInv, NEW d, Known(d), WellMade(d), pc = "unpersist",
           NEW r \in todo, NEW res \in RuleResults(perm, Inverse(drafts[d].op), r),
           res.fault = 0
    PROVE  /\ res.conf = Changed(base.perm, d,
                                 (drafts[d].members \cap Objects) \cup (todo \ {r}))
           /\ Reversible(base.perm, d,
                         (drafts[d].members \cap Objects) \cup (todo \ {r}))
<1> DEFINE D == (drafts[d].members \cap Objects) \cup todo
           E == (drafts[d].members \cap Objects) \cup (todo \ {r})
           op == drafts[d].op
<1>1. r \in Rules /\ todo \subseteq drafts[d].members /\ todo \subseteq Rules
  BY DEF Known, AtWork, Lasting
<1>2. op \in {"add", "delete"}
  BY <1>1, MemberAssumption DEF WellMade, DraftRow, Shape
<1>3. InForce(d) = drafts[d].members /\ InForceForGood(d) = D
  BY DEF InForce, InForceForGood, Untried
<1>4. /\ perm = Changed(base.perm, d, D) /\ Reversible(base.perm, d, D)
      /\ base.perm \in Config /\ perm \in Config
  BY <1>3 DEF Known, Fits, WellMade, WholeInv, RowsInv, Inv, TypeOK
<1>5. \A m : m \in E <=> m \in D /\ m # r
  BY <1>1, MemberAssumption
<1>6. /\ op = "add" => D \cap drafts[d].content = {}
      /\ op = "delete" => D \subseteq Rules
  BY <1>1, MemberAssumption DEF WellMade, Separable
<1>7. r \in Rules \cap D /\ Changed(base.perm, d, D) \in Config
  BY <1>1, <1>4
<1> HIDE DEF D, E, op
<1>8. /\ ~RuleRefused(Changed(base.perm, d, D), Inverse(op), r)
      /\ RuleEffect(Changed(base.perm, d, D), Inverse(op), r) = Changed(base.perm, d, E)
      /\ Reversible(base.perm, d, E)
  BY <1>2, <1>4, <1>5, <1>6, <1>7, RuleUndone DEF op
<1>9. ~RuleRefused(perm, Inverse(op), r)
  BY <1>4, <1>8
<1>10. res.conf = RuleEffect(perm, Inverse(op), r)
  BY <1>9, RuleAnswer DEF op
<1> QED BY <1>4, <1>8, <1>10 DEF E

LEMMA PersistKnown ==
    ASSUME WholeInv, Persist \/ Unpersist, NEW d \in Drafts, Judging(d)'
    PROVE  Known(d)'
<1>1. /\ pc \in {"persist", "unpersist"} /\ UNCHANGED <<tables, base>>
      /\ crashes' = crashes
      /\ \E r \in todo :
         \E res \in RuleResults(perm, IF pc = "persist" THEN Op ELSE Inverse(Op), r) :
             /\ perm' = res.conf /\ faults' = faults + res.fault /\ run' = run
             /\ IF pc = "unpersist" \/ res.ok THEN Did(r) ELSE Go("unpersist", done)
  <2>1. CASE Persist
    BY <2>1 DEF Persist, PermanentCall
  <2>2. CASE Unpersist
    BY <2>2 DEF Unpersist, PermanentCall
  <2> QED BY <2>1, <2>2
<1>2. PICK r \in todo :
         \E res \in RuleResults(perm, IF pc = "persist" THEN Op ELSE Inverse(Op), r) :
             /\ perm' = res.conf /\ faults' = faults + res.fault /\ run' = run
             /\ IF pc = "unpersist" \/ res.ok THEN Did(r) ELSE Go("unpersist", done)
  BY <1>1
<1>3. PICK res \in RuleResults(perm, IF pc = "persist" THEN Op ELSE Inverse(Op), r) :
             /\ perm' = res.conf /\ faults' = faults + res.fault /\ run' = run
             /\ IF pc = "unpersist" \/ res.ok THEN Did(r) ELSE Go("unpersist", done)
  BY <1>2
<1>4. DraftsKeep /\ drafts' = drafts /\ sessions' = sessions
  BY <1>1 DEF tables, DraftsKeep
<1>5. res.fault \in {0, 1, 2}
  BY DEF RuleResults
<1>6. Known(d) /\ WellMade(d) /\ res.fault = 0 /\ job = d
  BY <1>1, <1>3, <1>4, <1>5, JudgedBefore
<1> DEFINE O == drafts[d].members \cap Objects
<1>7. /\ sessions[d].status = "pending" /\ sessions[d] # NoRow
      /\ sessions[d].objects = Seen(d)
      /\ pc = "persist" => done \subseteq Lasting(d) /\ todo = Lasting(d) \ done
      /\ pc = "unpersist" => todo \subseteq Lasting(d)
  BY <1>1, <1>6, RowTypes DEF Known, AtWork
<1>8. Seen(d)' = Seen(d) /\ Lasting(d)' = Lasting(d)
  BY <1>1, <1>4, SeenKept
<1>9. run = Changed(base.run, d, drafts[d].members)
      /\ Reversible(base.run, d, drafts[d].members)
  BY <1>1, <1>6 DEF Known, Fits, InForce, Untried
<1>10. ASSUME pc' \in {"persist", "unpersist"},
              NEW Q, perm' = Changed(base.perm, d, O \cup Q),
              Reversible(base.perm, d, O \cup Q),
              Q = IF pc' = "persist" THEN done' ELSE todo'
       PROVE  Fits(d)'
  <2>1. InForce(d)' = drafts[d].members /\ InForceForGood(d)' = O \cup Q
    BY <1>4, <1>10 DEF InForce, InForceForGood, Untried
  <2>2. run' = Changed(base.run, d, drafts[d].members)
    BY <1>3, <1>9
  <2> QED BY <1>1, <1>4, <1>9, <1>10, <2>1, <2>2, FitsNext
<1>11. CASE pc = "persist" /\ res.ok
  <2>1. pc' = "persist" /\ done' = done \cup {r} /\ todo' = todo \ {r}
    BY <1>3, <1>11 DEF Did
  <2>2. /\ perm' = Changed(base.perm, d, O \cup (done \cup {r}))
        /\ Reversible(base.perm, d, O \cup (done \cup {r}))
    BY <1>3, <1>6, <1>11, RulePersisted DEF Op
  <2>3. Fits(d)'
    BY <1>10, <2>1, <2>2
  <2>4. AtWork(d)'
    BY <1>4, <1>7, <1>8, <1>11, <2>1 DEF AtWork
  <2> QED BY <2>3, <2>4 DEF Known
<1>12. CASE pc = "persist" /\ ~res.ok
  <2>1. pc' = "unpersist" /\ todo' = done
    BY <1>3, <1>12 DEF Go, Work
  <2>2. perm' = perm
    BY <1>3, <1>6, <1>12, RulePersisted DEF Op
  <2>3. /\ perm = Changed(base.perm, d, O \cup done)
        /\ Reversible(base.perm, d, O \cup done)
    BY <1>6, <1>12 DEF Known, Fits, InForce, InForceForGood, Untried
  <2>4. Fits(d)'
    BY <1>10, <2>1, <2>2, <2>3
  <2>5. AtWork(d)'
    BY <1>4, <1>7, <1>8, <1>12, <2>1 DEF AtWork
  <2> QED BY <2>4, <2>5 DEF Known
<1>13. CASE pc = "unpersist"
  <2>1. pc' = "unpersist" /\ todo' = todo \ {r}
    BY <1>3, <1>13 DEF Did
  <2>2. /\ perm' = Changed(base.perm, d, O \cup (todo \ {r}))
        /\ Reversible(base.perm, d, O \cup (todo \ {r}))
    BY <1>3, <1>6, <1>13, RuleUnpersisted DEF Op
  <2>3. Fits(d)'
    BY <1>10, <2>1, <2>2
  <2>4. AtWork(d)'
    BY <1>4, <1>7, <1>8, <1>13, <2>1 DEF AtWork
  <2> QED BY <2>3, <2>4 DEF Known
<1> QED BY <1>1, <1>11, <1>12, <1>13

\* What a step of the handler does to its session row.
LEMMA SessionEnds ==
    ASSUME Inv, Recorded \/ SetRolledBack \/ SetRollbackFailed
    PROVE  /\ pc # "idle" /\ job \in Drafts /\ sessions[job] # NoRow
           /\ \A e \in Drafts :
                  /\ sessions'[e] = NoRow <=> sessions[e] = NoRow
                  /\ sessions'[e].objects = sessions[e].objects
                  /\ sessions'[e].status =
                         IF e # job THEN sessions[e].status
                         ELSE IF pc = "record" THEN "confirmed"
                         ELSE IF pc = "rollback" THEN "rolled_back"
                         ELSE "rollback_failed"
<1> DEFINE s == IF pc = "record" THEN "confirmed"
                ELSE IF pc = "rollback" THEN "rolled_back"
                ELSE "rollback_failed"
<1>1. /\ pc \in {"record", "rollback", "rollbackFailed"}
      /\ sessions' = [sessions EXCEPT ![job].status = s]
  BY DEF Recorded, SetRolledBack, SetRollbackFailed
<1>2. job \in Drafts /\ sessions[job] # NoRow
  BY <1>1 DEF Inv, HasDraft, HasSession
<1>3. s \in {"confirmed", "rolled_back", "rollback_failed"}
  OBVIOUS
<1> HIDE DEF s
<1>4. \A e \in Drafts :
          /\ sessions'[e] = NoRow <=> sessions[e] = NoRow
          /\ sessions'[e].status = IF e = job THEN s ELSE sessions[e].status
          /\ sessions'[e].objects = sessions[e].objects
  BY <1>1, <1>2, <1>3, SessionStatus
<1> QED BY <1>1, <1>2, <1>4 DEF s

\* The steps that neither write a draft nor call the adapter.
Move ==
    \/ GiveUp \/ OpenSession \/ PersistenceFailed \/ Persisted \/ Record
    \/ Recorded \/ SetRolledBack \/ SetRollbackFailed
    \/ \E d \in Drafts : Confirm(d) \/ RollBack(d)

LEMMA HandlerRowsStep ==
    ASSUME RowsInv, Inv',
           \/ Move \/ Crash \/ ApplyMember \/ UndoMember \/ RollBackMember
           \/ Persist \/ Unpersist
    PROVE  RowsInv'
<1>1. UNCHANGED <<base, drafts>>
  BY DEF Move, Crash, ApplyMember, UndoMember, RollBackMember, Persist, Unpersist,
     GiveUp, OpenSession, PersistenceFailed, Persisted, Record, Recorded,
     SetRolledBack, SetRollbackFailed, Confirm, RollBack, tables
<1>2. DraftsKeep
  BY <1>1 DEF DraftsKeep
<1>3. \/ pc' = "idle"
      \/ pc # "idle" /\ job' = job
      \/ sessions[job'].status = "pending"
  BY DEF Move, Crash, ApplyMember, UndoMember, RollBackMember, Persist, Unpersist,
     GiveUp, OpenSession, PersistenceFailed, Persisted, Record, Recorded,
     SetRolledBack, SetRollbackFailed, Confirm, RollBack, Return, Go, Did, Work
<1>4. \A e \in Drafts :
          /\ sessions'[e] # NoRow => sessions[e] # NoRow \/ (pc # "idle" /\ e = job)
          /\ sessions'[e].status = "pending" =>
                 sessions[e].status = "pending" \/ (pc # "idle" /\ e = job)
  <2>1. CASE Recorded \/ SetRolledBack \/ SetRollbackFailed
    BY <2>1, SessionEnds DEF RowsInv
  <2>2. CASE OpenSession
    <3>1. \A e \in Drafts \ {job} : sessions'[e] = sessions[e]
      BY <2>2 DEF OpenSession, RowsInv, Inv, TypeOK
    <3> QED BY <2>2, <3>1 DEF OpenSession
  <2>3. CASE UNCHANGED sessions
    BY <2>3
  <2>4. \/ Recorded \/ SetRolledBack \/ SetRollbackFailed \/ OpenSession
        \/ UNCHANGED sessions
    BY DEF Move, Crash, ApplyMember, UndoMember, RollBackMember, Persist, Unpersist,
       GiveUp, PersistenceFailed, Persisted, Record, Confirm, RollBack, tables
  <2> QED BY <2>1, <2>2, <2>3, <2>4
<1> QED BY <1>1, <1>2, <1>3, <1>4, RowsStay

LEMMA DraftEnds ==
    ASSUME RowsInv, Inv', DraftConfirmed \/ DraftRolledBack
    PROVE  DraftsKeep /\ RowsInv'
<1>1. PICK s \in {"confirmed", "rolled_back"} :
          drafts' = [drafts EXCEPT ![job].status = s]
  BY DEF DraftConfirmed, DraftRolledBack
<1>2. job \in Drafts /\ drafts[job] # NoRow
  BY DEF DraftConfirmed, DraftRolledBack, RowsInv, Inv, HasDraft
<1>3. DraftsKeep
  BY <1>1, <1>2, DraftStatus DEF RowsInv
<1>4. /\ \A e \in Drafts \ {job} : drafts'[e] = drafts[e]
      /\ drafts'[job].status = s
  <2>1. /\ drafts[job] \in DraftRow
        /\ drafts'[job] = [drafts[job] EXCEPT !.status = s]
        /\ \A e \in Drafts \ {job} : drafts'[e] = drafts[e]
    BY <1>1, <1>2 DEF RowsInv, Inv, TypeOK
  <2> QED BY <2>1 DEF DraftRow
<1>5. pc' = "idle" /\ UNCHANGED <<base, sessions>>
  BY DEF DraftConfirmed, DraftRolledBack, Return, Work
<1> QED BY <1>2, <1>3, <1>4, <1>5, RowsStay

\* A step that calls nothing, and of the batch neither starts nor ends a trial.
LEMMA MovedKnown ==
    ASSUME NEW d, Known(d), UNCHANGED <<config, base>>,
           drafts'[d].op = drafts[d].op, drafts'[d].members = drafts[d].members,
           drafts'[d].content = drafts[d].content,
           InForce(d)' = InForce(d), InForceForGood(d)' = InForceForGood(d),
           AtWork(d)'
    PROVE  Known(d)'
<1>1. /\ run' = Changed(base.run, d, InForce(d)) /\ Reversible(base.run, d, InForce(d))
      /\ perm' = Changed(base.perm, d, InForceForGood(d))
      /\ Reversible(base.perm, d, InForceForGood(d))
  BY DEF Known, Fits, config
<1>2. Fits(d)'
  BY <1>1, FitsNext
<1> QED BY <1>2 DEF Known

LEMMA MoveKnown ==
    ASSUME WholeInv, Move, NEW d \in Drafts, Judging(d)'
    PROVE  Known(d)'
<1>1. /\ UNCHANGED <<config, base, drafts>> /\ faults' = faults + 0 /\ crashes' = crashes
  <2>1. faults \in Nat
    BY CountAssumption DEF WholeInv, RowsInv, Inv, TypeOK
  <2> QED BY <2>1
      DEF Move, GiveUp, OpenSession, PersistenceFailed, Persisted, Record, Recorded,
          SetRolledBack, SetRollbackFailed, Confirm, RollBack, tables
<1>2. DraftsKeep
  BY <1>1 DEF DraftsKeep
<1>3. /\ Known(d) /\ WellMade(d) /\ (pc # "idle" => job = d)
      /\ \A e \in Drafts : sessions[e].status = "pending" => e = d
  BY <1>1, <1>2, JudgedBefore
<1>4. AtWork(d)
  BY <1>3 DEF Known
<1>5. Seen(d)' = Seen(d) /\ Lasting(d)' = Lasting(d)
  BY <1>1, SeenKept
<1> DEFINE Goal == /\ InForce(d)' = InForce(d)
                   /\ InForceForGood(d)' = InForceForGood(d)
                   /\ AtWork(d)'
<1> SUFFICES Goal
  BY <1>1, <1>3, MovedKnown
<1>6. ASSUME NEW e \in Drafts, Confirm(e) \/ RollBack(e)
      PROVE  Goal
  <2>1. e = d /\ pc = "idle" /\ sessions' = sessions /\ done' = {}
        /\ \/ pc' = "persist" /\ todo' = Lasting(d)
           \/ pc' = "rollback" /\ todo' = drafts[d].members
    BY <1>3, <1>6 DEF Confirm, RollBack, Work, tables
  <2>2. sessions[d].status = "pending"
    BY <1>6, <2>1 DEF Confirm, RollBack
  <2>3. InForce(d)' = InForce(d) /\ InForceForGood(d)' = InForceForGood(d)
    BY <1>1, <2>1, <2>2 DEF InForce, InForceForGood, Untried
  <2>4. AtWork(d)'
    BY <1>1, <1>4, <1>5, <2>1, <2>2 DEF AtWork
  <2> QED BY <2>3, <2>4
<1>7. CASE GiveUp
  <2>1. /\ pc = "undo" /\ todo = {} /\ pc' = "idle" /\ sessions' = sessions
        /\ sessions[d] = NoRow
    BY <1>4, <1>7 DEF GiveUp, Return, Work, tables, AtWork
  <2>2. InForce(d)' = InForce(d) /\ InForceForGood(d)' = InForceForGood(d)
    BY <2>1, RowTypes DEF InForce, InForceForGood, Untried
  <2>3. AtWork(d)'
    BY <1>4, <1>5, <2>1 DEF AtWork
  <2> QED BY <2>2, <2>3
<1>8. CASE OpenSession
  <2>1. /\ pc = "apply" /\ todo = {} /\ pc' = "idle" /\ sessions[d] = NoRow
        /\ found = Seen(d) /\ done = drafts[d].members
    BY <1>4, <1>8 DEF OpenSession, Return, Work, AtWork
  <2>2. sessions'[d] = [status |-> "pending", objects |-> found]
    BY <1>3, <1>8, <2>1 DEF OpenSession, WholeInv, RowsInv, Inv, TypeOK
  <2>3. sessions'[d].status = "pending" /\ sessions'[d].objects = Seen(d)
    BY <2>1, <2>2
  <2>4. InForce(d)' = InForce(d) /\ InForceForGood(d)' = InForceForGood(d)
    BY <1>1, <2>1, <2>3, RowTypes DEF InForce, InForceForGood, Untried
  <2>5. AtWork(d)'
    BY <1>5, <2>1, <2>3 DEF AtWork
  <2> QED BY <2>4, <2>5
<1>9. CASE PersistenceFailed \/ Persisted
  <2>1. /\ \/ pc = "persist" /\ todo = {} /\ pc' = "record"
           \/ pc = "unpersist" /\ todo = {} /\ pc' = "rollback"
                  /\ todo' = drafts[d].members
        /\ sessions' = sessions
    BY <1>3, <1>9 DEF PersistenceFailed, Persisted, Go, Work, tables, Batch
  <2>2. /\ sessions[d].status = "pending"
        /\ pc = "persist" => done = Lasting(d)
    BY <1>4, <2>1 DEF AtWork
  <2>3. InForce(d)' = InForce(d) /\ InForceForGood(d)' = InForceForGood(d)
    BY <1>1, <1>5, <2>1, <2>2 DEF InForce, InForceForGood, Untried
  <2>4. AtWork(d)'
    BY <1>1, <1>4, <1>5, <2>1, <2>2 DEF AtWork
  <2> QED BY <2>3, <2>4
<1>10. CASE Record
  <2>1. pc = "record" /\ pc' = "record" /\ sessions' = sessions
    BY <1>10 DEF Record, Did
  <2>2. InForce(d)' = InForce(d) /\ InForceForGood(d)' = InForceForGood(d)
    BY <1>1, <1>5, <2>1 DEF InForce, InForceForGood, Untried
  <2>3. AtWork(d)'
    BY <1>4, <1>5, <2>1 DEF AtWork
  <2> QED BY <2>2, <2>3
<1>11. CASE Recorded
  <2>1. /\ pc = "record" /\ pc' = "draftConfirmed" /\ job = d
    BY <1>3, <1>11 DEF Recorded, Go, Work
  <2>2. /\ sessions'[d].status = "confirmed" /\ sessions'[d].objects = sessions[d].objects
        /\ sessions'[d] = NoRow <=> sessions[d] = NoRow
    BY <1>11, <2>1, SessionEnds DEF WholeInv, RowsInv
  <2>3. InForce(d)' = InForce(d) /\ InForceForGood(d)' = InForceForGood(d)
    BY <1>1, <1>5, <2>1, <2>2 DEF InForce, InForceForGood, Untried
  <2>4. AtWork(d)'
    BY <1>4, <1>5, <2>1, <2>2 DEF AtWork
  <2> QED BY <2>3, <2>4
<1>12. CASE SetRolledBack
  <2>1. /\ pc = "rollback" /\ pc' = "draftRolledBack" /\ job = d /\ todo = {}
        /\ sessions[d].status = "pending"
    BY <1>3, <1>4, <1>12 DEF SetRolledBack, Go, Work, AtWork
  <2>2. /\ sessions'[d].status = "rolled_back" /\ sessions'[d].objects = sessions[d].objects
        /\ sessions'[d] = NoRow <=> sessions[d] = NoRow
    BY <1>12, <2>1, SessionEnds DEF WholeInv, RowsInv
  <2>3. InForce(d)' = InForce(d) /\ InForceForGood(d)' = InForceForGood(d)
    BY <2>1, <2>2 DEF InForce, InForceForGood, Untried
  <2>4. AtWork(d)'
    BY <1>4, <1>5, <2>1, <2>2 DEF AtWork
  <2> QED BY <2>3, <2>4
<1>13. ~SetRollbackFailed
  BY <1>4 DEF SetRollbackFailed, AtWork
<1> QED BY <1>6, <1>7, <1>8, <1>9, <1>10, <1>11, <1>12, <1>13 DEF Move

LEMMA DraftEndKnown ==
    ASSUME WholeInv, Inv', DraftConfirmed \/ DraftRolledBack,
           NEW d \in Drafts, Judging(d)'
    PROVE  Known(d)'
<1>1. DraftsKeep
  BY DraftEnds DEF WholeInv
<1>2. /\ UNCHANGED <<config, base, sessions>> /\ faults' = faults + 0
      /\ crashes' = crashes /\ pc' = "idle"
      /\ pc \in {"draftConfirmed", "draftRolledBack"}
  <2>1. faults \in Nat
    BY CountAssumption DEF WholeInv, RowsInv, Inv, TypeOK
  <2> QED BY <2>1 DEF DraftConfirmed, DraftRolledBack, Return, Work
<1>3. /\ Known(d) /\ drafts'[d].op = drafts[d].op
      /\ drafts'[d].members = drafts[d].members
      /\ drafts'[d].content = drafts[d].content
  BY <1>1, <1>2, JudgedBefore
<1>4. Seen(d)' = Seen(d) /\ Lasting(d)' = Lasting(d)
  BY <1>2, <1>3, SeenKept
<1>5. AtWork(d)
  BY <1>3 DEF Known
<1>6. InForce(d)' = InForce(d) /\ InForceForGood(d)' = InForceForGood(d)
  BY <1>2, <1>3, <1>4, <1>5 DEF InForce, InForceForGood, Untried, AtWork
<1>7. AtWork(d)'
  BY <1>2, <1>4, <1>5 DEF AtWork
<1> QED BY <1>2, <1>3, <1>6, <1>7, MovedKnown

\* A draft is prepared while another is tried.
LEMMA PrepareKnown ==
    ASSUME WholeInv, NEW e \in Drafts, Prepare(e), NEW d \in Drafts, Judging(d)'
    PROVE  Known(d)'
<1>1. UNCHANGED base /\ OnlyRows
  BY PrepareRowsStep DEF WholeInv
<1>2. /\ UNCHANGED <<config, sessions, pc, todo, done, found>> /\ DraftsKeep
      /\ faults' = faults + 0 /\ crashes' = crashes
  <2>1. faults \in Nat
    BY CountAssumption DEF WholeInv, RowsInv, Inv, TypeOK
  <2> QED BY <1>1, <2>1 DEF OnlyRows, handler
<1>3. /\ Known(d) /\ drafts'[d].op = drafts[d].op
      /\ drafts'[d].members = drafts[d].members
      /\ drafts'[d].content = drafts[d].content
  BY <1>1, <1>2, JudgedBefore
<1>4. Seen(d)' = Seen(d) /\ Lasting(d)' = Lasting(d)
  BY <1>1, <1>3, SeenKept
<1>5. InForce(d)' = InForce(d) /\ InForceForGood(d)' = InForceForGood(d)
  BY <1>2, <1>3, <1>4 DEF InForce, InForceForGood, Untried
<1>6. AtWork(d)'
  BY <1>1, <1>2, <1>3, <1>4 DEF AtWork, Known
<1> QED BY <1>1, <1>2, <1>3, <1>5, <1>6, MovedKnown

LEMMA BeginKnown ==
    ASSUME WholeInv, NEW e \in Drafts, Begin(e), NEW d \in Drafts, Judging(d)'
    PROVE  Known(d)'
<1>1. e = d /\ base'.run = run /\ base'.perm = perm
  BY DEF Begin, Judging
<1>2. /\ pc = "idle" /\ sessions' = sessions /\ run' = run /\ perm' = perm
      /\ sessions[d] = NoRow /\ drafts[d] # NoRow
  BY <1>1, RowTypes DEF Begin, config, WholeInv, RowsInv, SubmittedOnce
<1>3. /\ drafts'[d].op = drafts[d].op /\ drafts'[d].members = drafts[d].members
      /\ drafts'[d].content = drafts[d].content
  BY <1>2, BeginRowsStep DEF WholeInv, DraftsKeep
<1>4. \/ pc' = "idle"
      \/ /\ pc' = "apply" /\ todo' = drafts[d].members /\ done' = {}
         /\ found' = Found(d) /\ StillThere(d)
  BY <1>1 DEF Begin, Work, handler
<1>5. InForce(d)' = {} /\ InForceForGood(d)' = {}
  BY <1>2, <1>4, RowTypes DEF InForce, InForceForGood, Untried
<1>6. Fits(d)'
  <2>1. Inside({} \cap Objects) = {}
    BY DEF Inside
  <2>2. /\ run = [objs |-> run.objs, rules |-> run.rules]
        /\ perm = [objs |-> perm.objs, rules |-> perm.rules]
    BY ConfigParts DEF WholeInv, RowsInv, Inv, TypeOK
  <2>3. Changed(run, d, {})' = run' /\ Changed(perm, d, {})' = perm'
    BY <1>2, <2>1, <2>2 DEF Changed
  <2>4. Reversible(run, d, {})' /\ Reversible(perm, d, {})'
    BY DEF Reversible
  <2> QED BY <1>1, <1>2, <1>5, <2>3, <2>4 DEF Fits
<1>7. pc' = "apply" => found' = Seen(d)'
  BY <1>1, <1>3, <1>4 DEF Seen, Found, Content
<1>8. pc' = "apply" /\ drafts[d].op = "update" => drafts[d].members \subseteq perm.objs
  <2>1. drafts[d].op = "update" => \E o \in Objects : drafts[d].members = {o}
    BY <1>2 DEF WholeInv, RowsInv, DraftsShaped, Shape
  <2>2. run.rules \subseteq Rules
    BY ConfigParts DEF WholeInv, RowsInv, Inv, TypeOK
  <2> QED BY <1>4, <2>1, <2>2, MemberAssumption DEF StillThere
<1>9. sessions[d].status \notin {"rollback_failed"}
  BY <1>2 DEF NoRow
<1>10. AtWork(d)'
  BY <1>1, <1>2, <1>3, <1>4, <1>7, <1>8, <1>9 DEF AtWork
<1> QED BY <1>6, <1>10 DEF Known

----------------------------------------------------------------------------
(* The theorem.                                                            *)

LEMMA WholeInit == Init => WholeInv
<1> SUFFICES ASSUME Init PROVE WholeInv
  OBVIOUS
<1>1. /\ \A d \in Drafts : drafts[d] = NoRow /\ sessions[d] = NoRow
      /\ pc = "idle" /\ base.alone = FALSE
      /\ base.run \in Config /\ base.perm \in Config
  BY DEF Init
<1>2. Inv
  BY InitInv
<1> QED
  BY <1>1, <1>2 DEF WholeInv, RowsInv, DraftsShaped, SubmittedOnce, BaseRight, Alone,
     Judging

LEMMA WholeStep == WholeInv /\ [Next]_vars => WholeInv'
<1> SUFFICES ASSUME WholeInv, [Next]_vars PROVE WholeInv'
  OBVIOUS
<1>1. Inv'
  BY InvStep DEF WholeInv, RowsInv
<1>2. RowsInv
  BY DEF WholeInv
<1>3. ASSUME RowsInv', \A d \in Drafts : Judging(d)' => Known(d)'
      PROVE  WholeInv'
  BY <1>3 DEF WholeInv, Known
<1>4. ASSUME NEW e \in Drafts, Prepare(e) PROVE WholeInv'
  BY <1>2, <1>3, <1>4, PrepareRowsStep, PrepareKnown
<1>5. ASSUME NEW e \in Drafts, Begin(e) PROVE WholeInv'
  BY <1>2, <1>3, <1>5, BeginRowsStep, BeginKnown
<1>6. CASE Move
  BY <1>1, <1>2, <1>3, <1>6, HandlerRowsStep, MoveKnown
<1>7. CASE ApplyMember
  BY <1>1, <1>2, <1>3, <1>7, HandlerRowsStep, ApplyMemberKnown
<1>8. CASE UndoMember \/ RollBackMember
  BY <1>1, <1>2, <1>3, <1>8, HandlerRowsStep, TakeBackKnown
<1>9. CASE Persist \/ Unpersist
  BY <1>1, <1>2, <1>3, <1>9, HandlerRowsStep, PersistKnown
<1>10. CASE DraftConfirmed \/ DraftRolledBack
  BY <1>1, <1>2, <1>3, <1>10, DraftEnds, DraftEndKnown
<1>11. CASE Crash
  <2>1. RowsInv'
    BY <1>1, <1>2, <1>11, HandlerRowsStep
  <2>2. crashes' # 0
    BY <1>11, CountAssumption DEF Crash, WholeInv, RowsInv, Inv, TypeOK
  <2> QED BY <1>3, <2>1, <2>2 DEF Judging
<1>12. CASE UNCHANGED vars
  <2>1. UNCHANGED <<config, drafts, sessions, pc, job, todo, done, found, faults,
                    crashes, base>>
    BY <1>12 DEF vars, tables, handler
  <2>2. RowsInv'
    BY <1>1, <1>2, <2>1 DEF RowsInv, DraftsShaped, Shape, SubmittedOnce, BaseRight, Alone
  <2>3. ASSUME NEW d \in Drafts, Judging(d)' PROVE Known(d)'
    <3>1. Known(d)
      BY <2>1, <2>3 DEF Judging, Separable, WholeInv, Known
    <3>2. Seen(d)' = Seen(d) /\ Lasting(d)' = Lasting(d)
      BY <2>1, SeenKept
    <3>3. InForce(d)' = InForce(d) /\ InForceForGood(d)' = InForceForGood(d)
      BY <2>1, <3>2 DEF InForce, InForceForGood, Untried
    <3>4. AtWork(d)'
      BY <2>1, <3>1, <3>2 DEF Known, AtWork
    <3> QED BY <2>1, <3>1, <3>3, <3>4, MovedKnown
  <2> QED BY <1>3, <2>2, <2>3
<1>13. Next \/ UNCHANGED vars
  OBVIOUS
<1> QED
  BY <1>4, <1>5, <1>6, <1>7, <1>8, <1>9, <1>10, <1>11, <1>12, <1>13
  DEF Next, Handle, Move

\* All members done, or their objects and some rules, is what was asked for.
LEMMA ChangedAfter ==
    ASSUME NEW d, WellMade(d), NEW c \in Config, NEW D \in SUBSET drafts[d].members,
           D \cap Objects = drafts[d].members \cap Objects,
           drafts[d].op = "delete" => D = drafts[d].members,
           Reversible(c, d, D),
           drafts[d].op # "delete" => sessions[d].objects.content = drafts[d].content
    PROVE  Changed(c, d, D) = After(c, d, D \cap Rules)
<1> DEFINE M == drafts[d].members
           O == M \cap Objects
           content == drafts[d].content
<1>1. content \subseteq Inside(O)
  BY DEF WellMade, Shape
<1>2. c.objs \subseteq Objects /\ c.rules \subseteq Rules
  BY ConfigParts
<1>3. CASE drafts[d].op = "delete"
  BY <1>3 DEF Changed, After
<1>4. CASE drafts[d].op = "add"
  <2>1. O \cap c.objs = {}
    BY <1>4 DEF Reversible
  <2>2. c.rules \cap Inside(O) = {}
    BY <2>1, ConfigParts, MemberAssumption DEF Inside
  <2>3. Changed(c, d, D) =
            [objs  |-> c.objs \cup O,
             rules |-> (c.rules \ Inside(O)) \cup (D \cap Rules)
                           \cup (content \cap Inside(O))]
    BY <1>4 DEF Changed
  <2>4. After(c, d, D \cap Rules) =
            [objs |-> c.objs \cup O, rules |-> c.rules \cup (D \cap Rules) \cup content]
    BY <1>4 DEF After
  <2>5. (c.rules \ Inside(O)) \cup (D \cap Rules) \cup (content \cap Inside(O))
            = c.rules \cup (D \cap Rules) \cup content
    BY <1>1, <2>2
  <2> QED BY <2>3, <2>4, <2>5
<1>5. CASE drafts[d].op = "update"
  <2>1. \E o \in Objects : M = {o}
    BY <1>5 DEF WellMade, Shape
  <2>2. D = O /\ D \cap Rules = {}
    BY <2>1, MemberAssumption
  <2>3. c.objs \cup O = c.objs
    BY <1>2, <1>5, <2>2, MemberAssumption DEF Reversible
  <2>4. Changed(c, d, D) =
            [objs  |-> c.objs \cup O,
             rules |-> (c.rules \ Inside(O)) \cup {} \cup (content \cap Inside(O))]
    BY <1>5, <2>2 DEF Changed
  <2>5. After(c, d, D \cap Rules) =
            [objs |-> c.objs, rules |-> (c.rules \ Inside(O)) \cup content]
    BY <1>5 DEF After
  <2>6. (c.rules \ Inside(O)) \cup {} \cup (content \cap Inside(O))
            = (c.rules \ Inside(O)) \cup content
    BY <1>1
  <2> QED BY <2>3, <2>4, <2>5, <2>6
<1> QED BY <1>3, <1>4, <1>5 DEF WellMade, DraftRow

LEMMA WholeInvImplies == WholeInv => SeparableBatchIsWhole
<1> SUFFICES ASSUME WholeInv, NEW d \in Drafts, Judged(d), Separable(d) PROVE Whole(d)
  BY DEF SeparableBatchIsWhole
<1>1. Known(d) /\ pc = "idle" /\ sessions[d].status # "pending"
  BY DEF WholeInv, Judged, Judging, Known
<1>2. drafts[d] # NoRow /\ WellMade(d)
  BY DEF Judged, WellMade, WholeInv, RowsInv, Inv, TypeOK, DraftsShaped, BaseRight
<1>3. base.run \in Config /\ base.perm \in Config
  BY <1>2 DEF WellMade
<1>4. CASE sessions[d].status = "confirmed"
  <2> DEFINE M == drafts[d].members
             P == (M \cap Objects) \cup Lasting(d)
  <2>1. InForce(d) = M /\ InForceForGood(d) = P
    BY <1>1, <1>4 DEF InForce, InForceForGood, Untried
  <2>2. /\ run = Changed(base.run, d, M) /\ Reversible(base.run, d, M)
        /\ perm = Changed(base.perm, d, P) /\ Reversible(base.perm, d, P)
    BY <1>1, <2>1 DEF Known, Fits
  <2>3. drafts[d].op # "delete" => sessions[d].objects.content = drafts[d].content
    BY <1>1, <1>4, RowTypes DEF Known, AtWork, Seen
  <2>4. M \subseteq Members
    BY <1>2 DEF WellMade, DraftRow
  <2>5. /\ P \subseteq M /\ P \cap Objects = M \cap Objects /\ P \cap Rules = Lasting(d)
        /\ drafts[d].op = "delete" => P = M
    BY <2>4, MemberAssumption DEF Lasting, Members
  <2> HIDE DEF P
  <2>6. run = After(base.run, d, M \cap Rules)
    BY <1>2, <1>3, <2>2, <2>3, ChangedAfter
  <2>7. perm = After(base.perm, d, P \cap Rules)
    BY <1>2, <1>3, <2>2, <2>3, <2>5, ChangedAfter
  <2> QED BY <1>4, <2>5, <2>6, <2>7 DEF Whole
<1>5. CASE sessions[d].status # "confirmed"
  <2>1. sessions[d].status \in {"none", "rolled_back"}
    BY <1>1, <1>5 DEF Known, AtWork, WholeInv, RowsInv, Inv, TypeOK, SessionRow, NoRow
  <2>2. InForce(d) = {} /\ InForceForGood(d) = {}
    BY <1>1, <1>5 DEF InForce, InForceForGood, Untried
  <2>3. run = Changed(base.run, d, {}) /\ perm = Changed(base.perm, d, {})
    BY <1>1, <2>2 DEF Known, Fits
  <2> QED BY <1>3, <1>5, <2>1, <2>3, NothingChanged DEF Whole
<1> QED BY <1>4, <1>5

\* A batch is applied as a whole or not at all, for any rules, objects, batches
\* and number of drafts, wherever the reload of an object's change does not
\* disturb it, while calls are answered truly and no other trial is open: a
\* refused, rolled back or unconfirmed batch leaves no trace, a confirmed one
\* all of it, in force and permanently (begin_batch_apply, begin_object_apply,
\* confirm_apply, rollback_apply).
THEOREM SeparableBatchesWhole == Spec => []SeparableBatchIsWhole
<1> QED BY WholeInit, WholeStep, WholeInvImplies, PTL DEF Spec

=============================================================================
