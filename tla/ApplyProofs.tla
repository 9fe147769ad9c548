---------------------------- MODULE ApplyProofs ----------------------------
(***************************************************************************)
(* Theorems about ApplyProtocol, for every set of rules, drafts and        *)
(* threads, either backend and every bound.                                *)
(*                                                                         *)
(* The type invariant is not inductive by itself: a handler writes to rows *)
(* whose ids it holds, so the rows must exist (RowsExist, HoldsRow).       *)
(***************************************************************************)
EXTENDS ApplyProtocol, TLAPS

Inv == TypeOK /\ RowsExist /\ HoldsRow

\* No step deletes a row or changes what it refers to.
RowsStay ==
    /\ \A d \in Drafts : drafts[d] # NoRow =>
           /\ drafts'[d] # NoRow
           /\ drafts'[d].op = drafts[d].op /\ drafts'[d].item = drafts[d].item
           /\ drafts'[d].rule = drafts[d].rule /\ drafts'[d].temp = drafts[d].temp
    /\ \A s \in SessionIds : sessions[s] # NoRow =>
           /\ sessions'[s] # NoRow
           /\ sessions'[s].op = sessions[s].op
           /\ sessions'[s].rule = sessions[s].rule
           /\ sessions'[s].temp = sessions[s].temp
           /\ sessions'[s].draft = sessions[s].draft
           /\ sessions'[s].item = sessions[s].item
    /\ \A i \in ItemIds : items[i] # NoRow =>
           /\ items'[i] # NoRow /\ items'[i].session = items[i].session
           /\ items'[i].rule = items[i].rule /\ items'[i].temp = items[i].temp

\* What a new row refers to exists.
NewRowsRefer ==
    /\ \A d \in Drafts : drafts[d] = NoRow =>
           \/ drafts'[d] = NoRow \/ drafts'[d].item = None
           \/ items'[drafts'[d].item] # NoRow
    /\ \A s \in SessionIds : sessions[s] = NoRow =>
           \/ sessions'[s] = NoRow
           \/ /\ drafts'[sessions'[s].draft] # NoRow
              /\ \/ sessions'[s].item = None
                 \/ items'[sessions'[s].item] # NoRow

\* The step is the actor's: nobody else moves.
Moves(a) ==
    /\ pc' \in [Actors -> Labels] /\ job' \in [Actors -> Ids]
    /\ \A b \in Actors \ {a} : pc'[b] = pc[b] /\ job'[b] = job[b]

TodoExists == \A a \in Passers : \A s \in todo[a] : sessions[s] # NoRow

----------------------------------------------------------------------------
(* Adapter calls.                                                          *)

\* An adapter call leaves a set of rules behind and keeps the count of faults
\* within its bound.
LEMMA ResultsType ==
    ASSUME NEW rules \in SUBSET Rules, NEW op, NEW r \in Rules,
           faults \in 0 .. MaxFaults, NEW res \in Results(rules, op, r)
    PROVE  /\ res.rules \in SUBSET Rules
           /\ faults + res.fault \in 0 .. MaxFaults
<1>1. CASE Refused(rules, op, r)
  BY <1>1, BoundAssumption DEF Results
<1>2. CASE ~Refused(rules, op, r)
  <2>1. Effect(rules, op, r) \in SUBSET Rules
    BY DEF Effect
  <2>2. CASE res \in Faulty(rules, op, r)
    BY <2>1, <2>2, BoundAssumption DEF Faulty
  <2>3. CASE res = [ok |-> TRUE, rules |-> Effect(rules, op, r), fault |-> 0]
    BY <2>1, <2>3, BoundAssumption
  <2> QED BY <1>2, <2>2, <2>3 DEF Results
<1> QED BY <1>1, <1>2

\* A successful runtime call was not of an "update".
LEMMA OkIsNotUpdate ==
    ASSUME NEW rules, NEW op, NEW r, NEW res \in Results(rules, op, r), res.ok
    PROVE  op # "update"
BY DEF Results, Refused

\* Calls keep the types of what they write.
LEMMA RuntimeCallType ==
    ASSUME FirewallType, WorldType, NEW op, NEW r \in Rules, NEW temp,
           NEW res \in Results(runtime, op, r), RuntimeCall(op, r, temp, res)
    PROVE  FirewallType' /\ faults' \in 0 .. MaxFaults
<1>1. res.rules \in SUBSET Rules /\ faults + res.fault \in 0 .. MaxFaults
  BY ResultsType DEF FirewallType, WorldType
<1> QED BY <1>1 DEF RuntimeCall, FirewallType

LEMMA PermanentCallType ==
    ASSUME FirewallType, WorldType, NEW op, NEW r \in Rules,
           NEW res \in Results(permanent, op, r), PermanentCall(op, r, res)
    PROVE  FirewallType' /\ faults' \in 0 .. MaxFaults
<1>1. res.rules \in SUBSET Rules /\ faults + res.fault \in 0 .. MaxFaults
  BY ResultsType DEF FirewallType, WorldType
<1> QED BY <1>1 DEF PermanentCall, FirewallType

----------------------------------------------------------------------------
(* Control flow.                                                           *)

LEMMA GotoMoves ==
    ASSUME ControlType, NEW a \in Actors, NEW label \in Labels, Goto(a, label)
    PROVE  Moves(a) /\ pc'[a] = label /\ job'[a] = job[a]
BY DEF Goto, Moves, ControlType

LEMMA TakeMoves ==
    ASSUME ControlType, NEW a \in Actors, NEW label \in Labels, NEW id \in Ids,
           Take(a, id, label)
    PROVE  Moves(a) /\ pc'[a] = label /\ job'[a] = id
BY DEF Take, Moves, ControlType

LEMMA ReturnMoves ==
    ASSUME ControlType, NEW a \in Actors, Return(a)
    PROVE  Moves(a) /\ pc'[a] = "idle"
<1>1. "idle" \in Labels /\ None \in Ids
  BY DEF Labels, Ids
<1> QED BY <1>1, TakeMoves DEF Return

\* An actor that is idle, or looks at the temporary rules, holds no row.
LEMMA IdleHolds ==
    ASSUME NEW a \in Actors, pc'[a] \in {"idle", "listDue", "expireRule"}
    PROVE  Holds(a)'
BY DEF Holds, DraftPC, ConfirmPC, RollbackPC, RestorePC, RecordPC

LEMMA ProceedMoves ==
    ASSUME ControlType, TodoExists, RowsStay, NEW a \in Passers,
           NEW S \in SUBSET SessionIds, \A s \in S : sessions[s] # NoRow,
           Proceed(a, S)
    PROVE  /\ Moves(a) /\ Holds(a)'
           /\ todo' \in [Passers -> SUBSET SessionIds] /\ TodoExists'
<1>1. a \in Actors
  BY DEF Passers, Actors, Web
<1>2. CASE S = {} /\ UNCHANGED todo
           /\ Take(a, None, IF a = Watchdog THEN "listDue" ELSE "idle")
  <2>1. (IF a = Watchdog THEN "listDue" ELSE "idle") \in Labels /\ None \in Ids
    BY DEF Labels, ExpiryPC, Ids
  <2>2. Moves(a) /\ pc'[a] \in {"idle", "listDue"}
    BY <1>1, <1>2, <2>1, TakeMoves
  <2>3. Holds(a)'
    BY <1>1, <2>2, IdleHolds
  <2>4. todo' \in [Passers -> SUBSET SessionIds] /\ TodoExists'
    BY <1>2 DEF ControlType, TodoExists, RowsStay
  <2> QED BY <2>2, <2>3, <2>4
<1>3. ASSUME NEW s \in S, Take(a, s, "readSession"),
             todo' = [todo EXCEPT ![a] = S \ {s}]
      PROVE  /\ Moves(a) /\ Holds(a)'
             /\ todo' \in [Passers -> SUBSET SessionIds] /\ TodoExists'
  <2>1. "readSession" \in Labels /\ s \in Ids
    BY DEF Labels, RollbackPC, Ids
  <2>2. Moves(a) /\ pc'[a] = "readSession" /\ job'[a] = s
    BY <1>1, <1>3, <2>1, TakeMoves
  <2>3. Holds(a)'
    BY <2>2 DEF Holds, DraftPC, ConfirmPC, RollbackPC, RestorePC, RecordPC, RowsStay
  <2>4. todo' \in [Passers -> SUBSET SessionIds]
    BY <1>3 DEF ControlType
  <2>5. \A b \in Passers : \A t \in todo'[b] : sessions[t] # NoRow /\ t \in SessionIds
    BY <1>3 DEF ControlType, TodoExists
  <2>6. TodoExists'
    BY <2>5 DEF TodoExists, RowsStay
  <2> QED BY <2>2, <2>3, <2>4, <2>6
<1> QED BY <1>2, <1>3 DEF Proceed

LEMMA AfterRollbackMoves ==
    ASSUME ControlType, TodoExists, RowsStay, NEW a \in Actors, AfterRollback(a)
    PROVE  /\ Moves(a) /\ Holds(a)'
           /\ todo' \in [Passers -> SUBSET SessionIds] /\ TodoExists'
<1>1. CASE a \in Passers /\ Proceed(a, todo[a])
  <2>1. todo[a] \in SUBSET SessionIds /\ \A s \in todo[a] : sessions[s] # NoRow
    BY <1>1 DEF ControlType, TodoExists
  <2> QED BY <1>1, <2>1, ProceedMoves
<1>2. CASE Return(a) /\ UNCHANGED todo
  <2>1. Moves(a) /\ Holds(a)'
    BY <1>2, ReturnMoves, IdleHolds
  <2>2. todo' \in [Passers -> SUBSET SessionIds] /\ TodoExists'
    BY <1>2 DEF ControlType, TodoExists, RowsStay
  <2> QED BY <2>1, <2>2
<1> QED BY <1>1, <1>2 DEF AfterRollback

LEMMA RaiseMoves ==
    ASSUME ControlType, TodoExists, RowsStay, NEW a \in Actors, Raise(a)
    PROVE  /\ Moves(a) /\ Holds(a)'
           /\ todo' \in [Passers -> SUBSET SessionIds] /\ TodoExists'
<1>1. Moves(a) /\ Holds(a)'
  BY ReturnMoves, IdleHolds DEF Raise
<1>2. todo' \in [Passers -> SUBSET SessionIds]
  BY DEF Raise, ControlType
<1>3. \A b \in Passers : todo'[b] \subseteq todo[b]
  BY DEF Raise, ControlType
<1>4. TodoExists'
  BY <1>3 DEF TodoExists, RowsStay, ControlType
<1> QED BY <1>1, <1>2, <1>4

\* A row held stays while its holder does.
LEMMA StillHolds ==
    ASSUME Inv, RowsStay, NEW b \in Actors, pc'[b] = pc[b], job'[b] = job[b]
    PROVE  Holds(b)'
<1>1. Holds(b)
  BY DEF Inv, HoldsRow
<1>2. pc[b] = "openSession" => pc[b] \in DraftPC
  BY DEF DraftPC
<1>3. pc[b] = "markRestored" => pc[b] \in ConfirmPC
  BY DEF ConfirmPC
<1> QED BY <1>1, <1>2, <1>3 DEF Holds, RowsStay

LEMMA RowsStillExist ==
    ASSUME Inv, RowsStay, NewRowsRefer, TodoExists'
    PROVE  RowsExist'
<1>1. TablesType
  BY DEF Inv, TypeOK
<1>2. \A d \in Drafts : drafts'[d] # NoRow /\ drafts'[d].item # None =>
          items'[drafts'[d].item] # NoRow
  <2> SUFFICES ASSUME NEW d \in Drafts, drafts'[d] # NoRow, drafts'[d].item # None
               PROVE  items'[drafts'[d].item] # NoRow
    OBVIOUS
  <2>1. CASE drafts[d] = NoRow
    BY <2>1 DEF NewRowsRefer
  <2>2. CASE drafts[d] # NoRow
    <3>1. drafts'[d].item = drafts[d].item
      BY <2>2 DEF RowsStay
    <3>2. drafts[d].item \in ItemIds /\ items[drafts[d].item] # NoRow
      BY <1>1, <2>2, <3>1 DEF Inv, RowsExist, TablesType, DraftRow
    <3> QED BY <3>1, <3>2 DEF RowsStay
  <2> QED BY <2>1, <2>2
<1>3. \A s \in SessionIds : sessions'[s] # NoRow =>
          /\ drafts'[sessions'[s].draft] # NoRow
          /\ sessions'[s].item # None => items'[sessions'[s].item] # NoRow
  <2> SUFFICES ASSUME NEW s \in SessionIds, sessions'[s] # NoRow
               PROVE  /\ drafts'[sessions'[s].draft] # NoRow
                      /\ sessions'[s].item # None =>
                             items'[sessions'[s].item] # NoRow
    OBVIOUS
  <2>1. CASE sessions[s] = NoRow
    BY <2>1 DEF NewRowsRefer
  <2>2. CASE sessions[s] # NoRow
    <3>1. /\ sessions'[s].draft = sessions[s].draft
          /\ sessions'[s].item = sessions[s].item
      BY <2>2 DEF RowsStay
    <3>2. sessions[s] \in SessionRow
      BY <1>1, <2>2 DEF TablesType
    <3>3. sessions[s].draft \in Drafts /\ drafts[sessions[s].draft] # NoRow
      BY <2>2, <3>2 DEF Inv, RowsExist, SessionRow
    <3>4. sessions[s].item # None =>
              sessions[s].item \in ItemIds /\ items[sessions[s].item] # NoRow
      BY <2>2, <3>2 DEF Inv, RowsExist, SessionRow
    <3> QED BY <3>1, <3>3, <3>4 DEF RowsStay
  <2> QED BY <2>1, <2>2
<1> QED BY <1>2, <1>3 DEF RowsExist, TodoExists

\* A step of one actor that leaves the lists of the passes alone.
LEMMA ActorStep ==
    ASSUME Inv, NEW a \in Actors, Moves(a), Holds(a)', RowsStay, NewRowsRefer,
           TablesType', FirewallType', WorldType', UNCHANGED lists
    PROVE  Inv'
<1>1. HoldsRow'
  BY StillHolds DEF HoldsRow, Moves
<1>2. TodoExists'
  BY DEF Inv, RowsExist, RowsStay, TodoExists, TypeOK, ControlType, lists
<1>3. RowsExist'
  BY <1>2, RowsStillExist
<1>4. ControlType'
  BY DEF Inv, TypeOK, ControlType, Moves, lists
<1> QED BY <1>1, <1>3, <1>4 DEF Inv, TypeOK

\* A step of one actor that works on them.
LEMMA PassStep ==
    ASSUME Inv, NEW a \in Actors, Moves(a), Holds(a)', RowsStay, NewRowsRefer,
           TablesType', FirewallType', WorldType',
           todo' \in [Passers -> SUBSET SessionIds], TodoExists',
           dueRules' \in SUBSET Rules
    PROVE  Inv'
<1>1. HoldsRow'
  BY StillHolds DEF HoldsRow, Moves
<1>2. RowsExist'
  BY RowsStillExist
<1>3. ControlType'
  BY DEF ControlType, Moves
<1> QED BY <1>1, <1>2, <1>3 DEF Inv, TypeOK

\* A step of no actor.
LEMMA NobodyMoves ==
    ASSUME Inv, UNCHANGED control, RowsStay, NewRowsRefer,
           TablesType', FirewallType', WorldType'
    PROVE  Inv'
<1>1. HoldsRow'
  BY StillHolds DEF HoldsRow, control
<1>2. TodoExists'
  BY DEF Inv, RowsExist, RowsStay, TodoExists, TypeOK, ControlType, control, lists
<1>3. RowsExist'
  BY <1>2, RowsStillExist
<1>4. ControlType'
  BY DEF Inv, TypeOK, ControlType, control, lists
<1> QED BY <1>1, <1>3, <1>4 DEF Inv, TypeOK

----------------------------------------------------------------------------
(* Statements on the tables.                                               *)

LEMMA TablesSame ==
    ASSUME TablesType, UNCHANGED tables
    PROVE  TablesType' /\ RowsStay /\ NewRowsRefer
BY DEF TablesType, tables, RowsStay, NewRowsRefer

LEMMA DraftStatus ==
    ASSUME TablesType, NEW d \in Drafts, drafts[d] # NoRow,
           NEW x \in {"pending", "applying", "confirmed", "rolled_back"},
           drafts' = [drafts EXCEPT ![d].status = x],
           UNCHANGED <<sessions, items, schedule>>
    PROVE  TablesType' /\ RowsStay /\ NewRowsRefer
<1>1. drafts[d] \in DraftRow /\ drafts'[d] = [drafts[d] EXCEPT !.status = x]
  BY DEF TablesType
<1>2. /\ drafts'[d] \in DraftRow /\ drafts'[d].op = drafts[d].op
      /\ drafts'[d].item = drafts[d].item /\ drafts'[d] # NoRow
  BY <1>1 DEF DraftRow, NoRow
<1>3. \A e \in Drafts \ {d} : drafts'[e] = drafts[e]
  BY DEF TablesType
<1>4. drafts' \in [Drafts -> {NoRow} \cup DraftRow]
  BY <1>2 DEF TablesType
<1> QED BY <1>2, <1>3, <1>4 DEF TablesType, RowsStay, NewRowsRefer

LEMMA SessionStatus ==
    ASSUME TablesType, NEW s \in SessionIds, sessions[s] # NoRow,
           NEW x \in {"pending", "confirmed", "rolled_back", "rollback_failed"},
           sessions' = [sessions EXCEPT ![s].status = x],
           UNCHANGED <<drafts, items, schedule>>
    PROVE  TablesType' /\ RowsStay /\ NewRowsRefer
<1>1. /\ sessions[s] \in SessionRow
      /\ sessions'[s] = [sessions[s] EXCEPT !.status = x]
  BY DEF TablesType
<1>2. /\ sessions'[s] \in SessionRow /\ sessions'[s].op = sessions[s].op
      /\ sessions'[s].draft = sessions[s].draft
      /\ sessions'[s].item = sessions[s].item /\ sessions'[s] # NoRow
  BY <1>1 DEF SessionRow, NoRow
<1>3. \A t \in SessionIds \ {s} : sessions'[t] = sessions[t]
  BY DEF TablesType
<1>4. sessions' \in [SessionIds -> {NoRow} \cup SessionRow]
  BY <1>2 DEF TablesType
<1> QED BY <1>2, <1>3, <1>4 DEF TablesType, RowsStay, NewRowsRefer

LEMMA ItemStatus ==
    ASSUME TablesType, NEW i \in ItemIds, items[i] # NoRow,
           NEW x \in {"deleted", "restored", "purged"},
           items' = [items EXCEPT ![i].status = x],
           UNCHANGED <<drafts, sessions, schedule>>
    PROVE  TablesType' /\ RowsStay /\ NewRowsRefer
<1>1. items[i] \in ItemRow /\ items'[i] = [items[i] EXCEPT !.status = x]
  BY DEF TablesType
<1>2. /\ items'[i] \in ItemRow /\ items'[i].session = items[i].session
      /\ items'[i] # NoRow
  BY <1>1 DEF ItemRow, NoRow
<1>3. \A j \in ItemIds \ {i} : items'[j] = items[j]
  BY DEF TablesType
<1>4. items' \in [ItemIds -> {NoRow} \cup ItemRow]
  BY <1>2 DEF TablesType
<1> QED BY <1>2, <1>3, <1>4 DEF TablesType, RowsStay, NewRowsRefer

LEMMA ScheduleStatus ==
    ASSUME TablesType, NEW r \in Rules,
           NEW x \in {"active", "due", "expired", "expiration_failed"},
           schedule' = [schedule EXCEPT ![r] = x],
           UNCHANGED <<drafts, sessions, items>>
    PROVE  TablesType' /\ RowsStay /\ NewRowsRefer
BY DEF TablesType, RowsStay, NewRowsRefer

----------------------------------------------------------------------------
(* The invariant.                                                          *)

LEMMA InitInv == Init => Inv
<1> SUFFICES ASSUME Init PROVE Inv
  OBVIOUS
<1>1. drafts = [d \in Drafts |-> NoRow] /\ sessions = [s \in SessionIds |-> NoRow]
      /\ items = [i \in ItemIds |-> NoRow]
  BY DEF Init
<1>2. \A a \in Actors : pc[a] = "idle"
  BY DEF Init
<1>3. \A a \in Passers : todo[a] = {}
  BY DEF Init
<1>4. runtime \in SUBSET Rules /\ permanent \in SUBSET Rules
  BY DEF Init
<1>5. TypeOK
  <2>1. /\ pc \in [Actors -> {"idle"}] /\ job \in [Actors -> {None}]
        /\ todo \in [Passers -> SUBSET SessionIds]
        /\ schedule \in [Rules -> {"none"}]
    BY DEF Init
  <2>2. start \in [runtime : SUBSET Rules, permanent : SUBSET Rules]
    BY <1>4 DEF Init
  <2>3. faults \in 0 .. MaxFaults /\ crashes \in 0 .. MaxCrashes
        /\ emergencies \in 0 .. MaxEmergencies
    BY BoundAssumption DEF Init
  <2>4. /\ drafts \in [Drafts -> {NoRow}] /\ sessions \in [SessionIds -> {NoRow}]
        /\ items \in [ItemIds -> {NoRow}]
    BY <1>1
  <2>5. /\ overdue = {} /\ timed = {} /\ dueRules = {} /\ up = TRUE /\ stopPost = FALSE
        /\ watching = TRUE /\ restartDue = FALSE
    BY DEF Init
  <2> QED BY <1>4, <2>1, <2>2, <2>3, <2>4, <2>5
          DEF TypeOK, TablesType, FirewallType, ControlType, WorldType, Labels, Ids
<1>6. RowsExist
  BY <1>1, <1>3 DEF RowsExist
<1>7. HoldsRow
  BY <1>2 DEF HoldsRow, Holds, DraftPC, ConfirmPC, RollbackPC, RestorePC, RecordPC
<1> QED BY <1>5, <1>6, <1>7 DEF Inv

LEMMA SameWorld == ASSUME Inv, UNCHANGED world PROVE WorldType'
BY DEF Inv, TypeOK, WorldType, world, process

LEMMA SameFirewall == ASSUME Inv, UNCHANGED firewall PROVE FirewallType'
BY DEF Inv, TypeOK, FirewallType, firewall

LEMMA CalledWorld ==
    ASSUME Inv, faults' \in 0 .. MaxFaults, UNCHANGED <<overdue, process, start>>
    PROVE  WorldType'
BY DEF Inv, TypeOK, WorldType, process

\* Where a handler of a draft, or of a session, may go.
LEMMA DraftGoto ==
    ASSUME Inv, RowsStay, NEW a \in Actors, pc[a] \in DraftPC,
           NEW label \in DraftPC \ {"openSession"}, Goto(a, label)
    PROVE  Moves(a) /\ Holds(a)'
<1>1. label \in Labels
  BY DEF Labels
<1>2. Moves(a) /\ pc'[a] = label /\ job'[a] = job[a]
  BY <1>1, GotoMoves DEF Inv, TypeOK
<1>3. job[a] \in Drafts /\ drafts[job[a]] # NoRow
  BY DEF Inv, HoldsRow, Holds
<1> QED BY <1>2, <1>3
        DEF Holds, DraftPC, ConfirmPC, RollbackPC, RestorePC, RecordPC, RowsStay

LEMMA SessionGoto ==
    ASSUME Inv, RowsStay, NEW a \in Actors, pc[a] \in ConfirmPC \cup RollbackPC,
           NEW label \in ConfirmPC \cup RollbackPC, Goto(a, label),
           label = "markRestored" => sessions[job[a]].item # None
    PROVE  Moves(a) /\ Holds(a)'
<1>1. label \in Labels
  BY DEF Labels
<1>2. Moves(a) /\ pc'[a] = label /\ job'[a] = job[a]
  BY <1>1, GotoMoves DEF Inv, TypeOK
<1>3. job[a] \in SessionIds /\ sessions[job[a]] # NoRow
  BY DEF Inv, HoldsRow, Holds
<1> QED BY <1>2, <1>3
        DEF Holds, DraftPC, ConfirmPC, RollbackPC, RestorePC, RecordPC, RowsStay

LEMMA ReturnHolds ==
    ASSUME Inv, NEW a \in Actors, Return(a)
    PROVE  Moves(a) /\ Holds(a)'
BY ReturnMoves, IdleHolds DEF Inv, TypeOK

\* The steps of a confirmation, whichever it skips.
LEMMA ConfirmLabels ==
    ASSUME NEW s
    PROVE  \A l \in {AfterRecycle(s), AfterSchedule(s), AfterPersist(s), FirstStep(s)} :
               l \in ConfirmPC /\ (l = "markRestored" => sessions[s].item # None)
BY DEF AfterRecycle, AfterSchedule, AfterPersist, FirstStep, ConfirmPC

----------------------------------------------------------------------------
LEMMA CreateDraftInv ==
    ASSUME Inv, NEW d \in Drafts, NEW op \in DraftOps \ {"restore"}, NEW r \in Rules,
           NEW temp \in BOOLEAN, CreateDraft(d, op, r, temp)
    PROVE  Inv' /\ RowsStay
<1>1. TablesType
  BY DEF Inv, TypeOK
<1> DEFINE row == [status |-> "pending", op |-> op, rule |-> r, temp |-> temp,
                   item |-> None]
<1>2. row \in DraftRow
  BY OpsAssumption DEF DraftRow
<1>3. drafts' = [drafts EXCEPT ![d] = row] /\ drafts[d] = NoRow
  BY DEF CreateDraft
<1>4. drafts'[d] = row /\ \A e \in Drafts \ {d} : drafts'[e] = drafts[e]
  BY <1>1, <1>3 DEF TablesType
<1>5. drafts' \in [Drafts -> {NoRow} \cup DraftRow]
  BY <1>1, <1>2, <1>3 DEF TablesType
<1>6. UNCHANGED <<sessions, items, schedule, firewall, control, world>>
  BY DEF CreateDraft
<1>7. TablesType' /\ RowsStay /\ NewRowsRefer
  BY <1>1, <1>3, <1>4, <1>5, <1>6 DEF TablesType, RowsStay, NewRowsRefer
<1> QED BY <1>6, <1>7, NobodyMoves, SameWorld, SameFirewall

\* The status of a row changes, or of one that is purged stays.
LEMMA RestoredStatus ==
    ASSUME TablesType, NEW i \in ItemIds, items[i] # NoRow, SetRestored(i)
    PROVE  \E x \in {"restored", "purged"} : items' = [items EXCEPT ![i].status = x]
<1>1. CASE items[i].status = "purged"
  BY <1>1 DEF SetRestored, TablesType
<1>2. CASE items[i].status # "purged"
  BY <1>2 DEF SetRestored, TablesType
<1> QED BY <1>1, <1>2

LEMMA ReadItemInv ==
    ASSUME Inv, NEW w \in Workers, NEW i \in ItemIds, ReadItem(w, i)
    PROVE  Inv' /\ RowsStay
<1>1. w \in Actors /\ "listRules" \in Labels /\ i \in Ids
  BY DEF Actors, Web, Labels, RestorePC, Ids
<1>2. TablesType' /\ RowsStay /\ NewRowsRefer
  BY TablesSame DEF ReadItem, Inv, TypeOK
<1>3. Moves(w) /\ pc'[w] = "listRules" /\ job'[w] = i
  BY <1>1, TakeMoves DEF ReadItem, Inv, TypeOK
<1>4. items[i] # NoRow
  BY DEF ReadItem, NoRow
<1>5. Holds(w)'
  BY <1>2, <1>3, <1>4
     DEF Holds, DraftPC, ConfirmPC, RollbackPC, RestorePC, RecordPC, RowsStay
<1> QED BY <1>1, <1>2, <1>3, <1>5, ActorStep, SameWorld, SameFirewall DEF ReadItem

LEMMA ListRulesInv ==
    ASSUME Inv, NEW w \in Workers, ListRules(w)
    PROVE  Inv' /\ RowsStay
<1> DEFINE i == job[w]
           row == [status |-> "pending", op |-> "restore", rule |-> items[i].rule,
                   temp |-> items[i].temp, item |-> i]
<1>1. TablesType /\ w \in Actors
  BY DEF Inv, TypeOK, Actors, Web
<1>2. i \in ItemIds /\ items[i] # NoRow
  BY <1>1 DEF ListRules, Inv, HoldsRow, Holds, RestorePC
<1>3. UNCHANGED <<sessions, items, schedule, firewall, lists, world>>
  BY DEF ListRules
<1>4. CASE Goto(w, "markFound") /\ UNCHANGED drafts
  <2>1. UNCHANGED tables
    BY <1>3, <1>4 DEF tables
  <2>2. TablesType' /\ RowsStay /\ NewRowsRefer
    BY <1>1, <2>1, TablesSame
  <2>3. "markFound" \in Labels
    BY DEF Labels, RestorePC
  <2>4. Moves(w) /\ pc'[w] = "markFound" /\ job'[w] = i
    BY <1>1, <1>4, <2>3, GotoMoves DEF Inv, TypeOK
  <2>5. Holds(w)'
    BY <1>2, <2>2, <2>4
       DEF Holds, DraftPC, ConfirmPC, RollbackPC, RestorePC, RecordPC, RowsStay
  <2> QED BY <1>1, <1>3, <2>2, <2>4, <2>5, ActorStep, SameWorld, SameFirewall
<1>5. ASSUME NEW d \in Drafts, drafts[d] = NoRow, drafts' = [drafts EXCEPT ![d] = row],
             Return(w)
      PROVE  Inv' /\ RowsStay
  <2>1. items[i] \in ItemRow
    BY <1>1, <1>2 DEF TablesType
  <2>2. row \in DraftRow
    BY <1>2, <2>1 DEF DraftRow, ItemRow
  <2>3. drafts'[d] = row /\ \A e \in Drafts \ {d} : drafts'[e] = drafts[e]
    BY <1>1, <1>5 DEF TablesType
  <2>4. drafts' \in [Drafts -> {NoRow} \cup DraftRow]
    BY <1>1, <1>5, <2>2 DEF TablesType
  <2>5. TablesType' /\ RowsStay /\ NewRowsRefer
    BY <1>1, <1>2, <1>3, <1>5, <2>3, <2>4 DEF TablesType, RowsStay, NewRowsRefer
  <2>6. Moves(w) /\ Holds(w)'
    BY <1>1, <1>5, ReturnHolds
  <2> QED BY <1>1, <1>3, <2>5, <2>6, ActorStep, SameWorld, SameFirewall
<1>6. CASE Return(w) /\ UNCHANGED drafts
  <2>1. UNCHANGED tables
    BY <1>3, <1>6 DEF tables
  <2>2. TablesType' /\ RowsStay /\ NewRowsRefer
    BY <1>1, <2>1, TablesSame
  <2>3. Moves(w) /\ Holds(w)'
    BY <1>1, <1>6, ReturnHolds
  <2> QED BY <1>1, <1>3, <2>2, <2>3, ActorStep, SameWorld, SameFirewall
<1> QED BY <1>4, <1>5, <1>6 DEF ListRules

LEMMA MarkFoundInv ==
    ASSUME Inv, NEW w \in Workers, MarkFound(w)
    PROVE  Inv' /\ RowsStay
<1>1. w \in Actors /\ TablesType
  BY DEF Actors, Web, Inv, TypeOK
<1>2. job[w] \in ItemIds /\ items[job[w]] # NoRow
  BY <1>1 DEF MarkFound, Inv, HoldsRow, Holds, RestorePC
<1>3. UNCHANGED <<drafts, sessions, schedule, firewall, lists, world>>
  BY DEF MarkFound
<1>4. TablesType' /\ RowsStay /\ NewRowsRefer
  BY <1>1, <1>2, <1>3, RestoredStatus, ItemStatus DEF MarkFound
<1>5. Moves(w) /\ Holds(w)'
  BY <1>1, ReturnHolds DEF MarkFound
<1> QED BY <1>1, <1>3, <1>4, <1>5, ActorStep, SameWorld, SameFirewall

LEMMA PurgeItemInv ==
    ASSUME Inv, NEW i \in ItemIds, PurgeItem(i)
    PROVE  Inv' /\ RowsStay
<1>1. items[i] # NoRow
  BY DEF PurgeItem, NoRow
<1>2. TablesType' /\ RowsStay /\ NewRowsRefer
  BY <1>1, ItemStatus DEF PurgeItem, Inv, TypeOK
<1> QED BY <1>2, NobodyMoves, SameWorld, SameFirewall DEF PurgeItem

----------------------------------------------------------------------------
LEMMA ReadDraftInv ==
    ASSUME Inv, NEW w \in Workers, NEW d \in Drafts, ReadDraft(w, d)
    PROVE  Inv' /\ RowsStay
<1>1. w \in Actors /\ "markApplying" \in Labels /\ d \in Ids
  BY DEF Actors, Web, Labels, DraftPC, Ids
<1>2. TablesType' /\ RowsStay /\ NewRowsRefer
  BY TablesSame DEF ReadDraft, Inv, TypeOK
<1>3. Moves(w) /\ pc'[w] = "markApplying" /\ job'[w] = d
  BY <1>1, TakeMoves DEF ReadDraft, Inv, TypeOK
<1>4. drafts[d] # NoRow
  BY DEF ReadDraft, NoRow
<1>5. Holds(w)'
  BY <1>2, <1>3, <1>4 DEF Holds, DraftPC, ConfirmPC, RollbackPC, RestorePC, RecordPC, RowsStay
<1> QED BY <1>1, <1>2, <1>3, <1>5, ActorStep, SameWorld, SameFirewall DEF ReadDraft

LEMMA MarkApplyingInv ==
    ASSUME Inv, NEW w \in Workers, MarkApplying(w)
    PROVE  Inv' /\ RowsStay
<1>1. w \in Actors /\ pc[w] \in DraftPC
  BY DEF Actors, Web, MarkApplying, DraftPC
<1>2. job[w] \in Drafts /\ drafts[job[w]] # NoRow
  BY <1>1 DEF Inv, HoldsRow, Holds
<1>3. TablesType' /\ RowsStay /\ NewRowsRefer
  BY <1>2, DraftStatus DEF MarkApplying, Inv, TypeOK
<1>4. Goto(w, "applyRuntime") \/ Goto(w, "resetDraft")
  BY DEF MarkApplying
<1>5. Moves(w) /\ Holds(w)'
  BY <1>1, <1>3, <1>4, DraftGoto DEF DraftPC
<1> QED BY <1>1, <1>3, <1>5, ActorStep, SameWorld, SameFirewall DEF MarkApplying

LEMMA ResetDraftInv ==
    ASSUME Inv, NEW w \in Workers, ResetDraft(w)
    PROVE  Inv' /\ RowsStay
<1>1. w \in Actors /\ pc[w] \in DraftPC
  BY DEF Actors, Web, ResetDraft, DraftPC
<1>2. job[w] \in Drafts /\ drafts[job[w]] # NoRow
  BY <1>1 DEF Inv, HoldsRow, Holds
<1>3. TablesType' /\ RowsStay /\ NewRowsRefer
  BY <1>2, DraftStatus DEF ResetDraft, Inv, TypeOK
<1>4. Moves(w) /\ Holds(w)'
  BY <1>1, ReturnHolds DEF ResetDraft
<1> QED BY <1>1, <1>3, <1>4, ActorStep, SameWorld, SameFirewall DEF ResetDraft

LEMMA ApplyRuntimeInv ==
    ASSUME Inv, NEW w \in Workers, ApplyRuntime(w)
    PROVE  Inv' /\ RowsStay
<1> DEFINE d == job[w]
<1>1. w \in Actors /\ pc[w] \in DraftPC
  BY DEF Actors, Web, ApplyRuntime, DraftPC
<1>2. d \in Drafts /\ drafts[d] # NoRow
  BY <1>1 DEF Inv, HoldsRow, Holds
<1>3. drafts[d] \in DraftRow
  BY <1>2 DEF Inv, TypeOK, TablesType
<1>4. drafts[d].rule \in Rules
  BY <1>3 DEF DraftRow
<1>5. PICK res \in Results(runtime, TrialOp(d), drafts[d].rule) :
          /\ RuntimeCall(TrialOp(d), drafts[d].rule, drafts[d].temp, res)
          /\ IF res.ok THEN Goto(w, "openSession") ELSE Return(w)
  BY DEF ApplyRuntime
<1>6. UNCHANGED tables /\ UNCHANGED <<overdue, process, start>> /\ UNCHANGED lists
  BY DEF ApplyRuntime
<1>7. TablesType' /\ RowsStay /\ NewRowsRefer
  BY <1>6, TablesSame DEF Inv, TypeOK
<1>8. FirewallType' /\ faults' \in 0 .. MaxFaults
  BY <1>4, <1>5, RuntimeCallType DEF Inv, TypeOK
<1>9. WorldType'
  BY <1>6, <1>8, CalledWorld
<1>10. CASE Goto(w, "openSession") /\ res.ok
  <2>1. drafts[d].op # "update"
    BY <1>5, <1>10, OkIsNotUpdate DEF TrialOp
  <2>2. "openSession" \in Labels
    BY DEF Labels, DraftPC
  <2>3. Moves(w) /\ pc'[w] = "openSession" /\ job'[w] = d
    BY <1>1, <1>10, <2>2, GotoMoves DEF Inv, TypeOK
  <2>4. Holds(w)'
    BY <1>2, <1>7, <2>1, <2>3
       DEF Holds, DraftPC, ConfirmPC, RollbackPC, RestorePC, RecordPC, RowsStay
  <2> QED BY <1>1, <1>6, <1>7, <1>8, <1>9, <2>3, <2>4, ActorStep
<1>11. CASE Return(w)
  <2>1. Moves(w) /\ Holds(w)'
    BY <1>1, <1>11, ReturnHolds
  <2> QED BY <1>1, <1>6, <1>7, <1>8, <1>9, <2>1, ActorStep
<1> QED BY <1>5, <1>10, <1>11

LEMMA OpenSessionInv ==
    ASSUME Inv, NEW w \in Workers, OpenSession(w)
    PROVE  Inv' /\ RowsStay
<1> DEFINE d == job[w]
           row == [status |-> "pending", op |-> TrialOp(d), rule |-> drafts[d].rule,
                   temp |-> drafts[d].temp, draft |-> d, item |-> drafts[d].item]
<1>1. w \in Actors /\ pc[w] = "openSession" /\ pc[w] \in DraftPC
  BY DEF Actors, Web, OpenSession, DraftPC
<1>2. d \in Drafts /\ drafts[d] # NoRow /\ drafts[d].op # "update"
  BY <1>1 DEF Inv, HoldsRow, Holds
<1>3. TablesType
  BY DEF Inv, TypeOK
<1>4. drafts[d] \in DraftRow
  BY <1>2, <1>3 DEF TablesType
<1>5. TrialOp(d) \in {"add", "delete"}
  BY <1>2, <1>4 DEF TrialOp, DraftRow
<1>6. row \in SessionRow
  BY <1>2, <1>4, <1>5 DEF SessionRow, DraftRow
<1>7. PICK s \in SessionIds :
          sessions[s] = NoRow /\ sessions' = [sessions EXCEPT ![s] = row]
  BY DEF OpenSession, FreshSession
<1>8. sessions'[s] = row /\ \A t \in SessionIds \ {s} : sessions'[t] = sessions[t]
  BY <1>3, <1>7 DEF TablesType
<1>9. sessions' \in [SessionIds -> {NoRow} \cup SessionRow]
  BY <1>3, <1>6, <1>7 DEF TablesType
<1>10. UNCHANGED <<drafts, items, schedule, firewall, lists, world>>
  BY DEF OpenSession
<1>11. drafts[d].item # None => items[drafts[d].item] # NoRow
  BY <1>2 DEF Inv, RowsExist
<1>12. TablesType' /\ RowsStay
  BY <1>3, <1>7, <1>8, <1>9, <1>10 DEF TablesType, RowsStay
<1>13. NewRowsRefer
  BY <1>2, <1>8, <1>10, <1>11 DEF NewRowsRefer
<1>14. Moves(w) /\ Holds(w)'
  BY <1>1, ReturnHolds DEF OpenSession
<1> QED BY <1>1, <1>10, <1>12, <1>13, <1>14, ActorStep, SameWorld, SameFirewall

----------------------------------------------------------------------------
\* What the handler of a session has in hand.
LEMMA SessionInHand ==
    ASSUME Inv, NEW a \in Actors, pc[a] \in ConfirmPC \cup RollbackPC
    PROVE  /\ job[a] \in SessionIds /\ sessions[job[a]] \in SessionRow
           /\ sessions[job[a]] # NoRow
           /\ sessions[job[a]].rule \in Rules
           /\ sessions[job[a]].op \in {"add", "delete"}
           /\ sessions[job[a]].draft \in Drafts
           /\ drafts[sessions[job[a]].draft] # NoRow
<1>1. job[a] \in SessionIds /\ sessions[job[a]] # NoRow
  BY DEF Inv, HoldsRow, Holds
<1>2. sessions[job[a]] \in SessionRow
  BY <1>1 DEF Inv, TypeOK, TablesType
<1>3. drafts[sessions[job[a]].draft] # NoRow
  BY <1>1 DEF Inv, RowsExist
<1> QED BY <1>1, <1>2, <1>3 DEF SessionRow

LEMMA ReadForConfirmInv ==
    ASSUME Inv, NEW w \in Workers, NEW s \in SessionIds, ReadForConfirm(w, s)
    PROVE  Inv' /\ RowsStay
<1> DEFINE label == IF s \in overdue THEN "readSession" ELSE FirstStep(s)
<1>1. w \in Actors /\ s \in Ids
  BY DEF Actors, Web, Ids
<1>2. /\ label \in ConfirmPC \cup RollbackPC
      /\ label = "markRestored" => sessions[s].item # None
  BY ConfirmLabels DEF RollbackPC
<1>3. label \in Labels
  BY <1>2 DEF Labels
<1>4. TablesType' /\ RowsStay /\ NewRowsRefer
  BY TablesSame DEF ReadForConfirm, Inv, TypeOK
<1>5. Moves(w) /\ pc'[w] = label /\ job'[w] = s
  BY <1>1, <1>3, TakeMoves DEF ReadForConfirm, Inv, TypeOK
<1>6. sessions[s] # NoRow
  BY DEF ReadForConfirm, NoRow
<1>7. Holds(w)'
  BY <1>2, <1>4, <1>5, <1>6
     DEF Holds, DraftPC, ConfirmPC, RollbackPC, RestorePC, RecordPC, RowsStay
<1> QED BY <1>1, <1>4, <1>5, <1>7, ActorStep, SameWorld, SameFirewall
        DEF ReadForConfirm

LEMMA PersistInv ==
    ASSUME Inv, NEW w \in Workers, Persist(w)
    PROVE  Inv' /\ RowsStay
<1> DEFINE s == job[w]
<1>1. w \in Actors /\ pc[w] \in ConfirmPC \cup RollbackPC
  BY DEF Actors, Web, Persist, ConfirmPC
<1>2. sessions[s].rule \in Rules
  BY <1>1, SessionInHand
<1>3. PICK res \in Results(permanent, sessions[s].op, sessions[s].rule) :
          /\ PermanentCall(sessions[s].op, sessions[s].rule, res)
          /\ Goto(w, IF res.ok THEN AfterPersist(s) ELSE "undoPersist")
  BY DEF Persist
<1>4. UNCHANGED tables /\ UNCHANGED <<overdue, process, start>> /\ UNCHANGED lists
  BY DEF Persist
<1>5. TablesType' /\ RowsStay /\ NewRowsRefer
  BY <1>4, TablesSame DEF Inv, TypeOK
<1>6. FirewallType' /\ faults' \in 0 .. MaxFaults
  BY <1>2, <1>3, PermanentCallType DEF Inv, TypeOK
<1>7. WorldType'
  BY <1>4, <1>6, CalledWorld
<1>8. Goto(w, AfterPersist(s)) \/ Goto(w, "undoPersist")
  BY <1>3
<1>9. "undoPersist" \in ConfirmPC
  BY DEF ConfirmPC
<1>10. Moves(w) /\ Holds(w)'
  BY <1>1, <1>5, <1>8, <1>9, ConfirmLabels, SessionGoto
<1> QED BY <1>1, <1>4, <1>5, <1>6, <1>7, <1>10, ActorStep

LEMMA UndoPersistInv ==
    ASSUME Inv, NEW w \in Workers, UndoPersist(w)
    PROVE  Inv' /\ RowsStay
<1> DEFINE s == job[w]
<1>1. w \in Actors /\ pc[w] \in ConfirmPC \cup RollbackPC
  BY DEF Actors, Web, UndoPersist, ConfirmPC
<1>2. sessions[s].rule \in Rules
  BY <1>1, SessionInHand
<1>3. PICK res \in Results(permanent, Inverse(sessions[s].op), sessions[s].rule) :
          PermanentCall(Inverse(sessions[s].op), sessions[s].rule, res)
  BY DEF UndoPersist
<1>4. UNCHANGED tables /\ UNCHANGED <<overdue, process, start>> /\ UNCHANGED lists
  BY DEF UndoPersist
<1>5. TablesType' /\ RowsStay /\ NewRowsRefer
  BY <1>4, TablesSame DEF Inv, TypeOK
<1>6. FirewallType' /\ faults' \in 0 .. MaxFaults
  BY <1>2, <1>3, PermanentCallType DEF Inv, TypeOK
<1>7. WorldType'
  BY <1>4, <1>6, CalledWorld
<1>8. Moves(w) /\ Holds(w)'
  BY <1>1, <1>5, SessionGoto DEF UndoPersist, RollbackPC
<1> QED BY <1>1, <1>4, <1>5, <1>6, <1>7, <1>8, ActorStep

LEMMA ScheduleExpiryInv ==
    ASSUME Inv, NEW w \in Workers, ScheduleExpiry(w)
    PROVE  Inv' /\ RowsStay
<1>1. w \in Actors /\ pc[w] \in ConfirmPC \cup RollbackPC
  BY DEF Actors, Web, ScheduleExpiry, ConfirmPC
<1>2. sessions[job[w]].rule \in Rules
  BY <1>1, SessionInHand
<1>3. TablesType' /\ RowsStay /\ NewRowsRefer
  BY <1>2, ScheduleStatus DEF ScheduleExpiry, Inv, TypeOK
<1>4. Goto(w, AfterSchedule(job[w]))
  BY DEF ScheduleExpiry
<1>5. Moves(w) /\ Holds(w)'
  BY <1>1, <1>3, <1>4, ConfirmLabels, SessionGoto
<1> QED BY <1>1, <1>3, <1>5, ActorStep, SameWorld, SameFirewall DEF ScheduleExpiry

LEMMA AddRecycleItemInv ==
    ASSUME Inv, NEW w \in Workers, AddRecycleItem(w)
    PROVE  Inv' /\ RowsStay
<1> DEFINE row == [status |-> "deleted", rule |-> sessions[job[w]].rule,
                   temp |-> sessions[job[w]].temp, session |-> job[w]]
<1>1. w \in Actors /\ pc[w] \in ConfirmPC \cup RollbackPC
  BY DEF Actors, Web, AddRecycleItem, ConfirmPC
<1>2. row \in ItemRow
  BY <1>1, SessionInHand DEF ItemRow, SessionRow
<1>3. PICK i \in ItemIds : items[i] = NoRow /\ items' = [items EXCEPT ![i] = row]
  BY DEF AddRecycleItem, FreshItem
<1>4. TablesType
  BY DEF Inv, TypeOK
<1>5. items' \in [ItemIds -> {NoRow} \cup ItemRow]
  BY <1>2, <1>3, <1>4 DEF TablesType
<1>6. \A j \in ItemIds \ {i} : items'[j] = items[j]
  BY <1>3, <1>4 DEF TablesType
<1>7. UNCHANGED <<drafts, sessions, schedule, firewall, lists, world>>
  BY DEF AddRecycleItem
<1>8. TablesType' /\ RowsStay /\ NewRowsRefer
  BY <1>3, <1>4, <1>5, <1>6, <1>7 DEF TablesType, RowsStay, NewRowsRefer
<1>9. Goto(w, AfterRecycle(job[w]))
  BY DEF AddRecycleItem
<1>10. Moves(w) /\ Holds(w)'
  BY <1>1, <1>8, <1>9, ConfirmLabels, SessionGoto
<1> QED BY <1>1, <1>7, <1>8, <1>10, ActorStep, SameWorld, SameFirewall

LEMMA MarkRestoredInv ==
    ASSUME Inv, NEW w \in Workers, MarkRestored(w)
    PROVE  Inv' /\ RowsStay
<1> DEFINE i == sessions[job[w]].item
<1>1. /\ w \in Actors /\ pc[w] = "markRestored"
      /\ pc[w] \in ConfirmPC \cup RollbackPC
  BY DEF Actors, Web, MarkRestored, ConfirmPC
<1>2. job[w] \in SessionIds /\ sessions[job[w]] \in SessionRow
  BY <1>1, SessionInHand
<1>3. i # None
  BY <1>1 DEF Inv, HoldsRow, Holds
<1>4. i \in ItemIds /\ items[i] # NoRow
  BY <1>1, <1>2, <1>3, SessionInHand DEF SessionRow, Inv, RowsExist
<1>5. PICK x \in {"restored", "purged"} : items' = [items EXCEPT ![i].status = x]
  BY <1>4, RestoredStatus DEF MarkRestored, Inv, TypeOK
<1>6. UNCHANGED <<drafts, sessions, schedule, firewall, lists, world>>
  BY DEF MarkRestored
<1>7. TablesType' /\ RowsStay /\ NewRowsRefer
  BY <1>4, <1>5, <1>6, ItemStatus DEF Inv, TypeOK
<1>8. Moves(w) /\ Holds(w)'
  BY <1>1, <1>7, SessionGoto DEF MarkRestored, ConfirmPC
<1> QED BY <1>1, <1>6, <1>7, <1>8, ActorStep, SameWorld, SameFirewall

LEMMA SetConfirmedInv ==
    ASSUME Inv, NEW w \in Workers, SetConfirmed(w)
    PROVE  Inv' /\ RowsStay
<1>1. w \in Actors /\ pc[w] \in ConfirmPC \cup RollbackPC
  BY DEF Actors, Web, SetConfirmed, ConfirmPC
<1>2. TablesType' /\ RowsStay /\ NewRowsRefer
  BY <1>1, SessionInHand, SessionStatus DEF SetConfirmed, Inv, TypeOK
<1>3. Moves(w) /\ Holds(w)'
  BY <1>1, <1>2, SessionGoto DEF SetConfirmed, ConfirmPC
<1> QED BY <1>1, <1>2, <1>3, ActorStep, SameWorld, SameFirewall DEF SetConfirmed

LEMMA DraftConfirmedInv ==
    ASSUME Inv, NEW w \in Workers, DraftConfirmed(w)
    PROVE  Inv' /\ RowsStay
<1>1. w \in Actors /\ pc[w] \in ConfirmPC \cup RollbackPC
  BY DEF Actors, Web, DraftConfirmed, ConfirmPC
<1>2. TablesType' /\ RowsStay /\ NewRowsRefer
  BY <1>1, SessionInHand, DraftStatus DEF DraftConfirmed, Inv, TypeOK
<1>3. Moves(w) /\ Holds(w)'
  BY <1>1, ReturnHolds DEF DraftConfirmed
<1> QED BY <1>1, <1>2, <1>3, ActorStep, SameWorld, SameFirewall DEF DraftConfirmed

----------------------------------------------------------------------------
LEMMA TodoRows == ASSUME Inv PROVE TodoExists
BY DEF Inv, RowsExist, TodoExists

LEMMA RequestRollbackInv ==
    ASSUME Inv, NEW w \in Workers, NEW s \in SessionIds, RequestRollback(w, s)
    PROVE  Inv' /\ RowsStay
<1>1. w \in Actors /\ s \in Ids /\ "readSession" \in Labels
  BY DEF Actors, Web, Ids, Labels, RollbackPC
<1>2. TablesType' /\ RowsStay /\ NewRowsRefer
  BY TablesSame DEF RequestRollback, Inv, TypeOK
<1>3. Moves(w) /\ pc'[w] = "readSession" /\ job'[w] = s
  BY <1>1, TakeMoves DEF RequestRollback, Inv, TypeOK
<1>4. sessions[s] # NoRow
  BY DEF RequestRollback, NoRow
<1>5. Holds(w)'
  BY <1>2, <1>3, <1>4 DEF Holds, DraftPC, ConfirmPC, RollbackPC, RestorePC, RecordPC, RowsStay
<1> QED BY <1>1, <1>2, <1>3, <1>5, ActorStep, SameWorld, SameFirewall
        DEF RequestRollback

LEMMA ReadSessionInv ==
    ASSUME Inv, NEW a \in Actors, ReadSession(a)
    PROVE  Inv' /\ RowsStay
<1>1. pc[a] \in ConfirmPC \cup RollbackPC
  BY DEF ReadSession, RollbackPC
<1>2. UNCHANGED <<tables, firewall, dueRules, world>>
  BY DEF ReadSession
<1>3. TablesType' /\ RowsStay /\ NewRowsRefer
  BY <1>2, TablesSame DEF Inv, TypeOK
<1>4. CASE Goto(a, "inverse") /\ UNCHANGED todo
  <2>1. Moves(a) /\ Holds(a)'
    BY <1>1, <1>3, <1>4, SessionGoto DEF RollbackPC
  <2>2. UNCHANGED lists
    BY <1>2, <1>4 DEF lists
  <2> QED BY <1>2, <1>3, <2>1, <2>2, ActorStep, SameWorld, SameFirewall
<1>5. CASE AfterRollback(a)
  <2>1. /\ Moves(a) /\ Holds(a)'
        /\ todo' \in [Passers -> SUBSET SessionIds] /\ TodoExists'
    BY <1>3, <1>5, AfterRollbackMoves, TodoRows DEF Inv, TypeOK
  <2>2. dueRules' \in SUBSET Rules
    BY <1>2 DEF Inv, TypeOK, ControlType
  <2> QED BY <1>2, <1>3, <2>1, <2>2, PassStep, SameWorld, SameFirewall
<1> QED BY <1>4, <1>5 DEF ReadSession

LEMMA RunInverseInv ==
    ASSUME Inv, NEW a \in Actors, RunInverse(a)
    PROVE  Inv' /\ RowsStay
<1> DEFINE s == job[a]
<1>1. pc[a] \in ConfirmPC \cup RollbackPC
  BY DEF RunInverse, RollbackPC
<1>2. sessions[s].rule \in Rules
  BY <1>1, SessionInHand
<1>3. PICK res \in Results(runtime, Inverse(sessions[s].op), sessions[s].rule) :
          /\ RuntimeCall(Inverse(sessions[s].op), sessions[s].rule,
                         sessions[s].temp, res)
          /\ Goto(a, IF res.ok THEN "setRolledBack" ELSE "setRollbackFailed")
  BY DEF RunInverse
<1>4. UNCHANGED tables /\ UNCHANGED <<overdue, process, start>> /\ UNCHANGED lists
  BY DEF RunInverse
<1>5. TablesType' /\ RowsStay /\ NewRowsRefer
  BY <1>4, TablesSame DEF Inv, TypeOK
<1>6. FirewallType' /\ faults' \in 0 .. MaxFaults
  BY <1>2, <1>3, RuntimeCallType DEF Inv, TypeOK
<1>7. WorldType'
  BY <1>4, <1>6, CalledWorld
<1>8. Goto(a, "setRolledBack") \/ Goto(a, "setRollbackFailed")
  BY <1>3
<1>9. Moves(a) /\ Holds(a)'
  BY <1>1, <1>5, <1>8, SessionGoto DEF RollbackPC
<1> QED BY <1>4, <1>5, <1>6, <1>7, <1>9, ActorStep

LEMMA SetRolledBackInv ==
    ASSUME Inv, NEW a \in Actors, SetRolledBack(a)
    PROVE  Inv' /\ RowsStay
<1>1. pc[a] \in ConfirmPC \cup RollbackPC
  BY DEF SetRolledBack, RollbackPC
<1>2. TablesType' /\ RowsStay /\ NewRowsRefer
  BY <1>1, SessionInHand, SessionStatus DEF SetRolledBack, Inv, TypeOK
<1>3. Moves(a) /\ Holds(a)'
  BY <1>1, <1>2, SessionGoto DEF SetRolledBack, RollbackPC
<1> QED BY <1>2, <1>3, ActorStep, SameWorld, SameFirewall DEF SetRolledBack

LEMMA DraftRolledBackInv ==
    ASSUME Inv, NEW a \in Actors, DraftRolledBack(a)
    PROVE  Inv' /\ RowsStay
<1>1. pc[a] \in ConfirmPC \cup RollbackPC
  BY DEF DraftRolledBack, RollbackPC
<1>2. TablesType' /\ RowsStay /\ NewRowsRefer
  BY <1>1, SessionInHand, DraftStatus DEF DraftRolledBack, Inv, TypeOK
<1>3. /\ Moves(a) /\ Holds(a)'
      /\ todo' \in [Passers -> SUBSET SessionIds] /\ TodoExists'
  BY <1>2, AfterRollbackMoves, TodoRows DEF DraftRolledBack, Inv, TypeOK
<1>4. dueRules' \in SUBSET Rules
  BY DEF DraftRolledBack, Inv, TypeOK, ControlType
<1> QED BY <1>2, <1>3, <1>4, PassStep, SameWorld, SameFirewall DEF DraftRolledBack

LEMMA SetRollbackFailedInv ==
    ASSUME Inv, NEW a \in Actors, SetRollbackFailed(a)
    PROVE  Inv' /\ RowsStay
<1>1. pc[a] \in ConfirmPC \cup RollbackPC
  BY DEF SetRollbackFailed, RollbackPC
<1>2. TablesType' /\ RowsStay /\ NewRowsRefer
  BY <1>1, SessionInHand, SessionStatus DEF SetRollbackFailed, Inv, TypeOK
<1>3. /\ Moves(a) /\ Holds(a)'
      /\ todo' \in [Passers -> SUBSET SessionIds] /\ TodoExists'
  BY <1>2, RaiseMoves, TodoRows DEF SetRollbackFailed, Inv, TypeOK
<1>4. dueRules' \in SUBSET Rules
  BY DEF SetRollbackFailed, Inv, TypeOK, ControlType
<1> QED BY <1>2, <1>3, <1>4, PassStep, SameWorld, SameFirewall DEF SetRollbackFailed

----------------------------------------------------------------------------
LEMMA PendingRows ==
    ASSUME NEW S, S \subseteq Pending
    PROVE  S \in SUBSET SessionIds /\ \A s \in S : sessions[s] # NoRow
BY DEF Pending, NoRow

LEMMA RollbackExpiredInv ==
    ASSUME Inv, RollbackExpired
    PROVE  Inv' /\ RowsStay
<1>1. Watchdog \in Actors /\ Watchdog \in Passers
  BY DEF Actors, Web, Passers
<1>2. TablesType' /\ RowsStay /\ NewRowsRefer
  BY TablesSame DEF RollbackExpired, Inv, TypeOK
<1>3. /\ Moves(Watchdog) /\ Holds(Watchdog)'
      /\ todo' \in [Passers -> SUBSET SessionIds] /\ TodoExists'
  <2>1. Proceed(Watchdog, Pending \cap overdue)
    BY DEF RollbackExpired
  <2>2. /\ Pending \cap overdue \in SUBSET SessionIds
        /\ \A s \in Pending \cap overdue : sessions[s] # NoRow
    BY PendingRows
  <2> QED BY <1>1, <1>2, <2>1, <2>2, ProceedMoves, TodoRows DEF Inv, TypeOK
<1>4. dueRules' \in SUBSET Rules
  BY DEF RollbackExpired, Inv, TypeOK, ControlType
<1>5. WorldType'
  BY VersionAssumption DEF RollbackExpired, Inv, TypeOK, WorldType
<1> QED BY <1>1, <1>2, <1>3, <1>4, <1>5, PassStep, SameFirewall DEF RollbackExpired

LEMMA EmergencyRollbackInv ==
    ASSUME Inv, EmergencyRollback
    PROVE  Inv' /\ RowsStay
<1>1. Cli \in Actors /\ Cli \in Passers
  BY DEF Actors, Passers
<1>2. TablesType' /\ RowsStay /\ NewRowsRefer
  BY TablesSame DEF EmergencyRollback, Inv, TypeOK
<1>3. /\ Moves(Cli) /\ Holds(Cli)'
      /\ todo' \in [Passers -> SUBSET SessionIds] /\ TodoExists'
  BY <1>1, <1>2, ProceedMoves, PendingRows, TodoRows
     DEF EmergencyRollback, Inv, TypeOK
<1>4. dueRules' \in SUBSET Rules
  BY DEF EmergencyRollback, Inv, TypeOK, ControlType
<1>5. WorldType'
  <2>1. WorldType
    BY DEF Inv, TypeOK
  <2>2. emergencies \in Nat /\ emergencies =< MaxEmergencies
    BY <2>1, BoundAssumption DEF WorldType
  <2>3. \/ emergencies' = emergencies
        \/ emergencies < MaxEmergencies /\ emergencies' = emergencies + 1
    BY DEF EmergencyRollback
  <2>4. emergencies' \in 0 .. MaxEmergencies
    BY <2>2, <2>3, BoundAssumption
  <2>5. stopPost' = FALSE \/ stopPost' = stopPost
    BY DEF EmergencyRollback
  <2>6. stopPost' \in BOOLEAN
    BY <2>1, <2>5 DEF WorldType
  <2>7. UNCHANGED <<overdue, up, watching, restartDue, faults, crashes, start>>
    BY DEF EmergencyRollback
  <2> QED BY <2>1, <2>4, <2>6, <2>7 DEF WorldType
<1>6. UNCHANGED firewall
  BY DEF EmergencyRollback
<1> QED BY <1>1, <1>2, <1>3, <1>4, <1>5, <1>6, PassStep, SameFirewall

\* A round over the temporary rules touches no session list.
LEMMA TodoSame ==
    ASSUME Inv, RowsStay, UNCHANGED todo
    PROVE  todo' \in [Passers -> SUBSET SessionIds] /\ TodoExists'
BY DEF Inv, TypeOK, ControlType, RowsExist, TodoExists, RowsStay

LEMMA NextDueMoves ==
    ASSUME ControlType, NEW S \in SUBSET Rules, NextDue(S)
    PROVE  /\ Watchdog \in Actors /\ Moves(Watchdog) /\ Holds(Watchdog)'
           /\ dueRules' \in SUBSET Rules
<1> DEFINE label == IF S = {} THEN "idle" ELSE "expireRule"
<1>1. Watchdog \in Actors /\ None \in Ids /\ label \in Labels
  BY DEF Actors, Web, Ids, Labels, ExpiryPC
<1>2. Moves(Watchdog) /\ pc'[Watchdog] = label
  BY <1>1, TakeMoves DEF NextDue
<1>3. Holds(Watchdog)'
  BY <1>1, <1>2, IdleHolds
<1> QED BY <1>1, <1>2, <1>3 DEF NextDue

LEMMA ListDueInv ==
    ASSUME Inv, ListDue
    PROVE  Inv' /\ RowsStay
<1>1. TablesType' /\ RowsStay /\ NewRowsRefer
  BY TablesSame DEF ListDue, Inv, TypeOK
<1>2. /\ Watchdog \in Actors /\ Moves(Watchdog) /\ Holds(Watchdog)'
      /\ dueRules' \in SUBSET Rules
  BY NextDueMoves DEF ListDue, Inv, TypeOK
<1>3. todo' \in [Passers -> SUBSET SessionIds] /\ TodoExists'
  BY <1>1, TodoSame DEF ListDue
<1> QED BY <1>1, <1>2, <1>3, PassStep, SameWorld, SameFirewall DEF ListDue

LEMMA ExpireRuleInv ==
    ASSUME Inv, ExpireRule
    PROVE  Inv' /\ RowsStay
<1>1. PICK r \in dueRules : \E res \in Results(runtime, "delete", r) :
          /\ RuntimeCall("delete", r, TRUE, res)
          /\ dueRules' = dueRules \ {r}
          /\ Take(Watchdog, r,
                  IF res.ok THEN "setExpired" ELSE "setExpirationFailed")
  BY DEF ExpireRule
<1>2. PICK res \in Results(runtime, "delete", r) :
          /\ RuntimeCall("delete", r, TRUE, res)
          /\ dueRules' = dueRules \ {r}
          /\ Take(Watchdog, r,
                  IF res.ok THEN "setExpired" ELSE "setExpirationFailed")
  BY <1>1
<1>3. r \in Rules /\ dueRules' \in SUBSET Rules
  BY <1>2 DEF Inv, TypeOK, ControlType
<1>4. UNCHANGED <<tables, overdue, todo, process, start>>
  BY DEF ExpireRule
<1>5. TablesType' /\ RowsStay /\ NewRowsRefer
  BY <1>4, TablesSame DEF Inv, TypeOK
<1>6. FirewallType' /\ faults' \in 0 .. MaxFaults
  BY <1>2, <1>3, RuntimeCallType DEF Inv, TypeOK
<1>7. WorldType'
  BY <1>4, <1>6, CalledWorld
<1> DEFINE label == IF res.ok THEN "setExpired" ELSE "setExpirationFailed"
<1>8. Watchdog \in Actors /\ r \in Ids /\ label \in Labels /\ label \in RecordPC
  BY <1>3 DEF Actors, Web, Ids, Labels, ExpiryPC, RecordPC
<1>9. Moves(Watchdog) /\ pc'[Watchdog] = label /\ job'[Watchdog] = r
  BY <1>2, <1>8, TakeMoves DEF Inv, TypeOK
<1>10. Holds(Watchdog)'
  BY <1>3, <1>8, <1>9 DEF Holds, DraftPC, ConfirmPC, RollbackPC, RestorePC, RecordPC
<1>11. todo' \in [Passers -> SUBSET SessionIds] /\ TodoExists'
  BY <1>4, <1>5, TodoSame
<1> QED BY <1>3, <1>5, <1>6, <1>7, <1>8, <1>9, <1>10, <1>11, PassStep

LEMMA SetExpiryInv ==
    ASSUME Inv, NEW label \in RecordPC, NEW x \in {"expired", "expiration_failed"},
           SetExpiry(label, x)
    PROVE  Inv' /\ RowsStay
<1>1. Watchdog \in Actors /\ job[Watchdog] \in Rules
  BY DEF Actors, Web, SetExpiry, Inv, HoldsRow, Holds
<1>2. TablesType' /\ RowsStay /\ NewRowsRefer
  BY <1>1, ScheduleStatus DEF SetExpiry, Inv, TypeOK
<1>3. /\ Moves(Watchdog) /\ Holds(Watchdog)'
      /\ dueRules' \in SUBSET Rules
  BY NextDueMoves DEF SetExpiry, Inv, TypeOK, ControlType
<1>4. todo' \in [Passers -> SUBSET SessionIds] /\ TodoExists'
  BY <1>2, TodoSame DEF SetExpiry
<1> QED BY <1>1, <1>2, <1>3, <1>4, PassStep, SameWorld, SameFirewall DEF SetExpiry

----------------------------------------------------------------------------
LEMMA DeadlineInv ==
    ASSUME Inv, NEW s \in SessionIds, Deadline(s)
    PROVE  Inv' /\ RowsStay
<1>1. TablesType' /\ RowsStay /\ NewRowsRefer
  BY TablesSame DEF Deadline, Inv, TypeOK
<1>2. WorldType'
  BY DEF Deadline, Inv, TypeOK, WorldType, process
<1> QED BY <1>1, <1>2, NobodyMoves, SameFirewall DEF Deadline

LEMMA ScheduleDueInv ==
    ASSUME Inv, NEW r \in Rules, ScheduleDue(r)
    PROVE  Inv' /\ RowsStay
<1>1. TablesType' /\ RowsStay /\ NewRowsRefer
  BY ScheduleStatus DEF ScheduleDue, Inv, TypeOK
<1> QED BY <1>1, NobodyMoves, SameWorld, SameFirewall DEF ScheduleDue

LEMMA TimerEndsInv ==
    ASSUME Inv, NEW r \in Rules, TimerEnds(r)
    PROVE  Inv' /\ RowsStay
<1>1. TablesType' /\ RowsStay /\ NewRowsRefer
  BY TablesSame DEF TimerEnds, Inv, TypeOK
<1>2. FirewallType'
  BY DEF TimerEnds, Inv, TypeOK, FirewallType
<1> QED BY <1>1, <1>2, NobodyMoves, SameWorld DEF TimerEnds

\* Whoever is not killed still holds its row.
LEMMA KillInv ==
    ASSUME Inv, NEW Gone \in SUBSET Actors, Kill(Gone), RowsStay, NewRowsRefer,
           TablesType', FirewallType', WorldType'
    PROVE  Inv'
<1>1. ControlType'
  <2>1. "idle" \in Labels /\ None \in Ids
    BY DEF Labels, Ids
  <2> QED BY <2>1 DEF Kill, Inv, TypeOK, ControlType, Passers, Actors, Web
<1>2. \A a \in Passers : todo'[a] \subseteq todo[a]
  BY DEF Kill
<1>3. TodoExists'
  BY <1>2 DEF TodoExists, RowsStay, Inv, RowsExist, TypeOK, ControlType
<1>4. RowsExist'
  BY <1>3, RowsStillExist
<1>5. HoldsRow'
  <2> SUFFICES ASSUME NEW a \in Actors PROVE Holds(a)'
    BY DEF HoldsRow
  <2>1. CASE a \in Gone
    <3>1. pc'[a] = "idle"
      BY <2>1 DEF Kill
    <3> QED BY <3>1, IdleHolds
  <2>2. CASE a \notin Gone
    <3>1. pc'[a] = pc[a] /\ job'[a] = job[a]
      BY <2>2 DEF Kill
    <3> QED BY <3>1, StillHolds
  <2> QED BY <2>1, <2>2
<1> QED BY <1>1, <1>4, <1>5 DEF Inv, TypeOK

LEMMA MoreCrashes ==
    ASSUME crashes \in 0 .. MaxCrashes, crashes < MaxCrashes,
           crashes' = crashes + 1
    PROVE  crashes' \in 0 .. MaxCrashes
BY BoundAssumption

LEMMA CrashInv ==
    ASSUME Inv, NEW failed \in BOOLEAN, Crash(failed)
    PROVE  Inv' /\ RowsStay
<1>1. TablesType' /\ RowsStay /\ NewRowsRefer
  BY TablesSame DEF Crash, Inv, TypeOK
<1>2. WorldType'
  <2>1. WorldType
    BY DEF Inv, TypeOK
  <2>2. crashes' \in 0 .. MaxCrashes
    BY <2>1, MoreCrashes DEF Crash, WorldType
  <2>3. /\ up' \in BOOLEAN /\ stopPost' \in BOOLEAN /\ restartDue' \in BOOLEAN
        /\ UNCHANGED <<overdue, watching, faults, emergencies, start>>
    BY DEF Crash
  <2> QED BY <2>1, <2>2, <2>3 DEF WorldType
<1>3. Web \in SUBSET Actors /\ Kill(Web) /\ UNCHANGED firewall
  BY DEF Actors, Crash
<1> QED BY <1>1, <1>2, <1>3, KillInv, SameFirewall

LEMMA RebootInv ==
    ASSUME Inv, Reboot
    PROVE  Inv' /\ RowsStay
<1>1. TablesType' /\ RowsStay /\ NewRowsRefer
  BY TablesSame DEF Reboot, Inv, TypeOK
<1>2. WorldType'
  <2>1. WorldType
    BY DEF Inv, TypeOK
  <2>2. crashes' \in 0 .. MaxCrashes
    BY <2>1, MoreCrashes DEF Reboot, WorldType
  <2>3. /\ up' \in BOOLEAN /\ stopPost' \in BOOLEAN /\ restartDue' \in BOOLEAN
        /\ UNCHANGED <<overdue, watching, faults, emergencies, start>>
    BY DEF Reboot
  <2> QED BY <2>1, <2>2, <2>3 DEF WorldType
<1>3. FirewallType'
  BY DEF Reboot, Inv, TypeOK, FirewallType
<1>4. Kill(Actors)
  BY DEF Reboot
<1> QED BY <1>1, <1>2, <1>3, <1>4, KillInv

LEMMA RestartInv ==
    ASSUME Inv, Restart
    PROVE  Inv' /\ RowsStay
<1>1. TablesType' /\ RowsStay /\ NewRowsRefer
  BY TablesSame DEF Restart, Inv, TypeOK
<1>2. WorldType'
  BY DEF Restart, Inv, TypeOK, WorldType
<1> QED BY <1>1, <1>2, NobodyMoves, SameFirewall DEF Restart

----------------------------------------------------------------------------
\* Every step keeps the invariant and the rows.
LEMMA StepInv ==
    ASSUME Inv, [Next]_vars
    PROVE  Inv' /\ RowsStay
<1>1. CASE DraftRequest
  BY <1>1, CreateDraftInv DEF DraftRequest
<1>2. CASE \E i \in ItemIds : PurgeItem(i)
  BY <1>2, PurgeItemInv
<1>3. ASSUME NEW w \in Workers, Request(w)
      PROVE  Inv' /\ RowsStay
  BY <1>3, ReadDraftInv, ReadForConfirmInv, RequestRollbackInv, ReadItemInv DEF Request
<1>4. ASSUME NEW w \in Workers, WorkerStep(w)
      PROVE  Inv' /\ RowsStay
  BY <1>4, ListRulesInv, MarkFoundInv, MarkApplyingInv, ResetDraftInv, ApplyRuntimeInv,
     OpenSessionInv,
     PersistInv, UndoPersistInv, ScheduleExpiryInv, AddRecycleItemInv,
     MarkRestoredInv, SetConfirmedInv, DraftConfirmedInv DEF WorkerStep
<1>5. ASSUME NEW a \in Actors, RollbackStep(a)
      PROVE  Inv' /\ RowsStay
  BY <1>5, ReadSessionInv, RunInverseInv, SetRolledBackInv, DraftRolledBackInv,
     SetRollbackFailedInv DEF RollbackStep
<1>6. CASE WatchdogStep
  BY <1>6, RollbackExpiredInv, ListDueInv, ExpireRuleInv, SetExpiryInv
     DEF WatchdogStep, SetExpired, SetExpirationFailed, RecordPC
<1>7. CASE EmergencyRollback
  BY <1>7, EmergencyRollbackInv
<1>8. CASE Environment
  BY <1>8, DeadlineInv, ScheduleDueInv, TimerEndsInv, CrashInv, RebootInv, RestartInv
     DEF Environment
<1>9. CASE UNCHANGED vars
  <2>1. /\ UNCHANGED tables /\ UNCHANGED firewall /\ UNCHANGED control
        /\ UNCHANGED world
    BY <1>9 DEF vars
  <2>2. TablesType' /\ RowsStay /\ NewRowsRefer
    BY <2>1, TablesSame DEF Inv, TypeOK
  <2> QED BY <2>1, <2>2, NobodyMoves, SameWorld, SameFirewall
<1> QED BY <1>1, <1>2, <1>3, <1>4, <1>5, <1>6, <1>7, <1>8, <1>9 DEF Next

THEOREM InvHolds == Spec => []Inv
<1>1. Init => Inv
  BY InitInv
<1>2. Inv /\ [Next]_vars => Inv'
  BY StepInv
<1> QED BY <1>1, <1>2, PTL DEF Spec

\* Whatever interleaves, fails or crashes, every row and every handler keeps its
\* type; in particular no session is ever opened for an "update", the
\* operation the API accepts and the agent refuses (begin_rule_apply).
THEOREM TypeCorrect == Spec => []TypeOK
<1>1. Inv => TypeOK
  BY DEF Inv
<1> QED BY <1>1, InvHolds, PTL

----------------------------------------------------------------------------
(* Who enters the steps of a confirmation.                                 *)

\* The actor moves, to a place outside the confirmation.
Outside(a) ==
    /\ pc'[a] \notin ConfirmPC
    /\ \A b \in Actors \ {a} : pc'[b] = pc[b] /\ job'[b] = job[b]

Within(w) ==
    \/ Persist(w) \/ ScheduleExpiry(w) \/ AddRecycleItem(w)
    \/ MarkRestored(w) \/ SetConfirmed(w)

LEMMA OutsideGoto ==
    ASSUME ControlType, NEW a \in Actors, NEW label, label \notin ConfirmPC, NEW id,
           Goto(a, label) \/ Take(a, id, label)
    PROVE  Outside(a)
BY DEF Outside, Goto, Take, ControlType

LEMMA OutsideReturn ==
    ASSUME ControlType, NEW a \in Actors, Return(a)
    PROVE  Outside(a)
BY OutsideGoto DEF Return, ConfirmPC

LEMMA OutsideProceed ==
    ASSUME ControlType, NEW a \in Actors, NEW S, Proceed(a, S)
    PROVE  Outside(a)
<1>1. CASE Take(a, None, IF a = Watchdog THEN "listDue" ELSE "idle")
  BY <1>1, OutsideGoto DEF ConfirmPC
<1>2. ASSUME NEW s \in S, Take(a, s, "readSession")
      PROVE  Outside(a)
  BY <1>2, OutsideGoto DEF ConfirmPC
<1> QED BY <1>1, <1>2 DEF Proceed

LEMMA OutsideAfterRollback ==
    ASSUME ControlType, NEW a \in Actors, AfterRollback(a)
    PROVE  Outside(a)
BY OutsideProceed, OutsideReturn DEF AfterRollback

LEMMA OutsideNextDue ==
    ASSUME ControlType, NEW S, NextDue(S)
    PROVE  Watchdog \in Actors /\ Outside(Watchdog)
<1>1. Watchdog \in Actors
  BY DEF Actors, Web
<1>2. (IF S = {} THEN "idle" ELSE "expireRule") \notin ConfirmPC
  BY DEF ConfirmPC
<1> QED BY <1>1, <1>2, OutsideGoto DEF NextDue

\* Only the first step of a confirmation enters it.
LEMMA ConfirmEntry ==
    ASSUME Inv, [Next]_vars
    PROVE  \/ UNCHANGED <<pc, job>>
           \/ \E Gone \in SUBSET Actors : Kill(Gone)
           \/ \E a \in Actors : Outside(a)
           \/ \E w \in Workers, s \in SessionIds : ReadForConfirm(w, s)
           \/ \E w \in Workers : Within(w)
<1> DEFINE Goal == \/ UNCHANGED <<pc, job>>
                   \/ \E Gone \in SUBSET Actors : Kill(Gone)
                   \/ \E a \in Actors : Outside(a)
                   \/ \E w \in Workers, s \in SessionIds : ReadForConfirm(w, s)
                   \/ \E w \in Workers : Within(w)
<1> SUFFICES Goal
  OBVIOUS
<1>0. ControlType /\ Workers \subseteq Actors
  BY DEF Inv, TypeOK, Actors, Web
<1>1. CASE DraftRequest
  BY <1>1 DEF DraftRequest, CreateDraft, control
<1>2. CASE \E i \in ItemIds : PurgeItem(i)
  BY <1>2 DEF PurgeItem, control
<1>3. ASSUME NEW w \in Workers, Request(w)
      PROVE  Goal
  <2>1. ASSUME NEW d \in Drafts, ReadDraft(w, d) PROVE Outside(w)
    BY <1>0, <2>1, OutsideGoto DEF ReadDraft, ConfirmPC
  <2>2. ASSUME NEW s \in SessionIds, RequestRollback(w, s) PROVE Outside(w)
    BY <1>0, <2>2, OutsideGoto DEF RequestRollback, ConfirmPC
  <2>3. ASSUME NEW i \in ItemIds, ReadItem(w, i) PROVE Outside(w)
    BY <1>0, <2>3, OutsideGoto DEF ReadItem, ConfirmPC
  <2> QED BY <1>0, <1>3, <2>1, <2>2, <2>3 DEF Request
<1>4. ASSUME NEW w \in Workers, WorkerStep(w)
      PROVE  Goal
  <2>1. CASE MarkApplying(w)
    BY <1>0, <2>1, OutsideGoto DEF MarkApplying, ConfirmPC
  <2>2. CASE ResetDraft(w) \/ DraftConfirmed(w)
    BY <1>0, <2>2, OutsideReturn DEF ResetDraft, DraftConfirmed
  <2>3. CASE ApplyRuntime(w)
    <3>1. Goto(w, "openSession") \/ Return(w)
      BY <2>3 DEF ApplyRuntime
    <3> QED BY <1>0, <3>1, OutsideGoto, OutsideReturn DEF ConfirmPC
  <2>4. CASE OpenSession(w)
    BY <1>0, <2>4, OutsideReturn DEF OpenSession
  <2>5. CASE UndoPersist(w)
    BY <1>0, <2>5, OutsideGoto DEF UndoPersist, ConfirmPC
  <2>6. CASE ListRules(w) \/ MarkFound(w)
    <3>1. Goto(w, "markFound") \/ Return(w)
      BY <2>6 DEF ListRules, MarkFound
    <3> QED BY <1>0, <3>1, OutsideGoto, OutsideReturn DEF ConfirmPC
  <2> QED BY <1>0, <1>4, <2>1, <2>2, <2>3, <2>4, <2>5, <2>6 DEF WorkerStep, Within
<1>5. ASSUME NEW a \in Actors, RollbackStep(a)
      PROVE  Goal
  <2>1. CASE ReadSession(a)
    BY <1>0, <2>1, OutsideGoto, OutsideAfterRollback DEF ReadSession, ConfirmPC
  <2>2. CASE RunInverse(a)
    <3>1. Goto(a, "setRolledBack") \/ Goto(a, "setRollbackFailed")
      BY <2>2 DEF RunInverse
    <3> QED BY <1>0, <3>1, OutsideGoto DEF ConfirmPC
  <2>3. CASE SetRolledBack(a)
    BY <1>0, <2>3, OutsideGoto DEF SetRolledBack, ConfirmPC
  <2>4. CASE DraftRolledBack(a)
    BY <1>0, <2>4, OutsideAfterRollback DEF DraftRolledBack
  <2>5. CASE SetRollbackFailed(a)
    BY <1>0, <2>5, OutsideReturn DEF SetRollbackFailed, Raise
  <2> QED BY <1>5, <2>1, <2>2, <2>3, <2>4, <2>5 DEF RollbackStep
<1>6. CASE WatchdogStep
  <2>0. Watchdog \in Actors
    BY DEF Actors, Web
  <2>1. CASE RollbackExpired
    BY <1>0, <2>0, <2>1, OutsideProceed DEF RollbackExpired
  <2>2. CASE ListDue
    BY <1>0, <2>2, OutsideNextDue DEF ListDue
  <2>3. CASE ExpireRule
    <3>1. \E r, l : l \notin ConfirmPC /\ Take(Watchdog, r, l)
      BY <2>3 DEF ExpireRule, ConfirmPC
    <3> QED BY <1>0, <2>0, <3>1, OutsideGoto
  <2>4. CASE SetExpired \/ SetExpirationFailed
    BY <1>0, <2>4, OutsideNextDue DEF SetExpired, SetExpirationFailed, SetExpiry
  <2> QED BY <1>6, <2>1, <2>2, <2>3, <2>4 DEF WatchdogStep
<1>7. CASE EmergencyRollback
  <2>1. Cli \in Actors
    BY DEF Actors
  <2> QED BY <1>0, <1>7, <2>1, OutsideProceed DEF EmergencyRollback
<1>8. CASE Environment
  <2>1. ASSUME NEW failed \in BOOLEAN, Crash(failed)
        PROVE  Goal
    BY <2>1 DEF Crash, Actors
  <2>2. CASE Reboot
    BY <2>2 DEF Reboot
  <2>3. CASE ~Reboot /\ \A failed \in BOOLEAN : ~Crash(failed)
    BY <1>8, <2>3
       DEF Environment, Deadline, ScheduleDue, TimerEnds, Restart, control
  <2> QED BY <2>1, <2>2, <2>3
<1>9. CASE UNCHANGED vars
  BY <1>9 DEF vars, control
<1> HIDE DEF Goal
<1> QED BY <1>1, <1>2, <1>3, <1>4, <1>5, <1>6, <1>7, <1>8, <1>9 DEF Next

\* Only the last step but one of a confirmation confirms a session.
LEMMA OnlySetConfirmed ==
    ASSUME Inv, [Next]_vars, NEW s \in SessionIds,
           sessions[s].status # "confirmed", sessions'[s].status = "confirmed"
    PROVE  \E w \in Workers : SetConfirmed(w) /\ job[w] = s
<1>0. sessions' # sessions
  OBVIOUS
<1>1. TablesType
  BY DEF Inv, TypeOK
<1>2. ASSUME NEW w \in Workers, OpenSession(w)
      PROVE  FALSE
  <2> DEFINE row == [status |-> "pending", op |-> TrialOp(job[w]),
                     rule |-> drafts[job[w]].rule, temp |-> drafts[job[w]].temp,
                     draft |-> job[w], item |-> drafts[job[w]].item]
  <2>1. PICK t \in SessionIds : sessions' = [sessions EXCEPT ![t] = row]
    BY <1>2 DEF OpenSession
  <2>2. row.status = "pending"
    OBVIOUS
  <2> QED BY <1>1, <2>1, <2>2 DEF TablesType
<1>3. ASSUME NEW a \in Actors, SetRolledBack(a) \/ SetRollbackFailed(a)
      PROVE  FALSE
  <2>1. pc[a] \in ConfirmPC \cup RollbackPC
    BY <1>3 DEF SetRolledBack, SetRollbackFailed, RollbackPC
  <2>2. job[a] \in SessionIds /\ sessions[job[a]] \in SessionRow
    BY <2>1, SessionInHand
  <2>3. PICK x \in {"rolled_back", "rollback_failed"} :
            sessions' = [sessions EXCEPT ![job[a]].status = x]
    BY <1>3 DEF SetRolledBack, SetRollbackFailed
  <2>4. sessions'[job[a]] = [sessions[job[a]] EXCEPT !.status = x]
        /\ \A t \in SessionIds \ {job[a]} : sessions'[t] = sessions[t]
    BY <1>1, <2>2, <2>3 DEF TablesType
  <2>5. sessions'[job[a]].status = x
    BY <2>2, <2>4 DEF SessionRow
  <2> QED BY <2>2, <2>4, <2>5
<1>4. ASSUME NEW w \in Workers, SetConfirmed(w)
      PROVE  job[w] = s
  BY <1>1, <1>4 DEF SetConfirmed, TablesType
<1>5. CASE DraftRequest
  BY <1>0, <1>5 DEF DraftRequest, CreateDraft
<1>6. CASE \E i \in ItemIds : PurgeItem(i)
  BY <1>0, <1>6 DEF PurgeItem
<1>7. ASSUME NEW w \in Workers, Request(w) PROVE FALSE
  BY <1>0, <1>7 DEF Request, ReadDraft, ReadForConfirm, RequestRollback, ReadItem, tables
<1>8. ASSUME NEW w \in Workers, WorkerStep(w) PROVE SetConfirmed(w)
  BY <1>0, <1>2, <1>8
     DEF WorkerStep, ListRules, MarkFound, MarkApplying, ResetDraft, ApplyRuntime,
         Persist, UndoPersist, ScheduleExpiry, AddRecycleItem, MarkRestored,
         DraftConfirmed, tables
<1>9. ASSUME NEW a \in Actors, RollbackStep(a) PROVE FALSE
  BY <1>0, <1>3, <1>9 DEF RollbackStep, ReadSession, RunInverse, DraftRolledBack, tables
<1>10. CASE WatchdogStep
  BY <1>0, <1>10
     DEF WatchdogStep, RollbackExpired, ListDue, ExpireRule, SetExpired,
         SetExpirationFailed, SetExpiry, tables
<1>11. CASE EmergencyRollback
  BY <1>0, <1>11 DEF EmergencyRollback, tables
<1>12. CASE Environment
  BY <1>0, <1>12
     DEF Environment, Deadline, ScheduleDue, TimerEnds, Crash, Reboot, Restart, tables
<1>13. CASE UNCHANGED vars
  BY <1>0, <1>13 DEF vars, tables
<1> QED BY <1>4, <1>5, <1>6, <1>7, <1>8, <1>9, <1>10, <1>11, <1>12, <1>13 DEF Next

----------------------------------------------------------------------------
(* The recycle bin.                                                        *)

BinInv == Inv /\ BinWritten /\ ConfirmedDeleteInBin

LEMMA StillInBin ==
    ASSUME RowsStay, NEW s \in SessionIds, InBin(s)
    PROVE  InBin(s)'
BY DEF RowsStay, InBin

\* An actor that keeps its place has its row in the bin, if it needs one.
LEMMA StillWritten ==
    ASSUME Inv, BinWritten, RowsStay, NEW a \in Actors, NEW s \in SessionIds,
           job[a] = s, pc[a] \in {"markRestored", "setConfirmed"},
           sessions'[s].op = "delete"
    PROVE  InBin(s)'
<1>1. pc[a] \in ConfirmPC \cup RollbackPC
  BY DEF ConfirmPC
<1>2. sessions[s] # NoRow
  BY <1>1, SessionInHand
<1>3. sessions[s].op = "delete"
  BY <1>2 DEF RowsStay
<1>4. InBin(s)
  BY <1>3 DEF BinWritten
<1> QED BY <1>4, StillInBin

\* A confirmation that does not go to the recycle bin next is of an addition,
\* or has been there.
LEMMA DeleteGoesToBin ==
    ASSUME NEW s, sessions[s].op = "delete"
    PROVE  \A l \in {AfterSchedule(s), AfterPersist(s), FirstStep(s)} :
               l \notin {"markRestored", "setConfirmed"}
BY DEF AfterSchedule, AfterPersist, FirstStep

LEMMA WithinWritten ==
    ASSUME Inv, BinWritten, RowsStay, NEW w \in Workers, Within(w),
           NEW s \in SessionIds, job[w] = s, sessions'[s].op = "delete",
           pc'[w] \in {"markRestored", "setConfirmed"}
    PROVE  InBin(s)'
<1>0. w \in Actors /\ ControlType
  BY DEF Actors, Web, Inv, TypeOK
<1>1. pc[w] \in ConfirmPC \cup RollbackPC
  BY DEF Within, Persist, ScheduleExpiry, AddRecycleItem, MarkRestored, SetConfirmed,
         ConfirmPC
<1>2. sessions[s] # NoRow
  BY <1>0, <1>1, SessionInHand
<1>3. sessions[s].op = "delete"
  BY <1>2 DEF RowsStay
<1>4. CASE Persist(w)
  <2>1. Goto(w, AfterPersist(s)) \/ Goto(w, "undoPersist")
    BY <1>4 DEF Persist
  <2>2. pc'[w] \in {AfterPersist(s), "undoPersist"}
    BY <1>0, <2>1 DEF Goto, ControlType
  <2> QED BY <1>3, <2>2, DeleteGoesToBin
<1>5. CASE ScheduleExpiry(w)
  <2>1. pc'[w] = AfterSchedule(s)
    BY <1>0, <1>5 DEF ScheduleExpiry, Goto, ControlType
  <2> QED BY <1>3, <2>1, DeleteGoesToBin
<1>6. CASE AddRecycleItem(w)
  <2> DEFINE row == [status |-> "deleted", rule |-> sessions[s].rule,
                     temp |-> sessions[s].temp, session |-> s]
  <2>1. PICK i \in ItemIds : items' = [items EXCEPT ![i] = row]
    BY <1>6 DEF AddRecycleItem
  <2>2. items'[i] = row
    BY <2>1 DEF Inv, TypeOK, TablesType
  <2>3. items'[i] # NoRow /\ items'[i].session = s
    BY <2>2 DEF NoRow
  <2> QED BY <2>3 DEF InBin
<1>7. CASE MarkRestored(w)
  BY <1>0, <1>7, StillWritten DEF MarkRestored
<1>8. CASE SetConfirmed(w)
  <2>1. pc'[w] = "draftConfirmed"
    BY <1>0, <1>8 DEF SetConfirmed, Goto, ControlType
  <2> QED BY <2>1
<1> QED BY <1>4, <1>5, <1>6, <1>7, <1>8 DEF Within

LEMMA WrittenStep ==
    ASSUME BinInv, [Next]_vars
    PROVE  BinWritten'
<1>0. Inv /\ BinWritten /\ RowsStay
  BY StepInv DEF BinInv
<1> SUFFICES ASSUME NEW a \in Actors, NEW s \in SessionIds, job'[a] = s,
                    pc'[a] \in {"markRestored", "setConfirmed"},
                    sessions'[s].op = "delete"
             PROVE  InBin(s)'
  BY DEF BinWritten
<1>a. pc'[a] \in ConfirmPC /\ pc'[a] # "idle"
  BY DEF ConfirmPC
<1>b. CASE pc'[a] = pc[a] /\ job'[a] = job[a]
  BY <1>0, <1>b, StillWritten
<1>1. CASE UNCHANGED <<pc, job>>
  BY <1>1, <1>b
<1>2. ASSUME NEW Gone \in SUBSET Actors, Kill(Gone)
      PROVE  InBin(s)'
  <2>1. pc'[a] = "idle" \/ (pc'[a] = pc[a] /\ job'[a] = job[a])
    BY <1>2 DEF Kill
  <2> QED BY <2>1, <1>a, <1>b
<1>3. ASSUME NEW b \in Actors, Outside(b)
      PROVE  InBin(s)'
  BY <1>3, <1>a, <1>b DEF Outside
<1>4. ASSUME NEW w \in Workers, NEW t \in SessionIds, ReadForConfirm(w, t)
      PROVE  InBin(s)'
  <2>0. w \in Actors /\ ControlType
    BY <1>0 DEF Actors, Web, Inv, TypeOK
  <2>1. CASE a # w
    BY <1>4, <2>0, <2>1, <1>b DEF ReadForConfirm, Take, ControlType
  <2>2. CASE a = w
    <3>1. t = s /\ pc'[w] \in {"readSession", FirstStep(t)}
      BY <1>4, <2>0, <2>2 DEF ReadForConfirm, Take, ControlType
    <3>2. sessions'[s].op = sessions[s].op
      BY <1>4 DEF ReadForConfirm, tables
    <3> QED BY <2>2, <3>1, <3>2, DeleteGoesToBin
  <2> QED BY <2>1, <2>2
<1>5. ASSUME NEW w \in Workers, Within(w)
      PROVE  InBin(s)'
  <2>0. w \in Actors
    BY DEF Actors, Web
  <2>1. PICK label : Goto(w, label)
    BY <1>5 DEF Within, Persist, ScheduleExpiry, AddRecycleItem, MarkRestored,
                SetConfirmed
  <2>2. job'[a] = job[a] /\ (a # w => pc'[a] = pc[a])
    BY <1>0, <2>0, <2>1 DEF Goto, Inv, TypeOK, ControlType
  <2>3. CASE a = w
    BY <1>0, <1>5, <2>2, <2>3, WithinWritten
  <2>4. CASE a # w
    BY <2>2, <2>4, <1>b
  <2> QED BY <2>3, <2>4
<1> QED BY <1>0, <1>1, <1>2, <1>3, <1>4, <1>5, ConfirmEntry

LEMMA InBinStep ==
    ASSUME BinInv, [Next]_vars
    PROVE  ConfirmedDeleteInBin'
<1>0. Inv /\ Inv' /\ BinWritten /\ ConfirmedDeleteInBin /\ RowsStay
  BY StepInv DEF BinInv
<1> SUFFICES ASSUME NEW s \in SessionIds, sessions'[s].status = "confirmed",
                    sessions'[s].op = "delete"
             PROVE  InBin(s)'
  BY DEF ConfirmedDeleteInBin
<1>1. CASE sessions[s].status = "confirmed"
  <2>1. sessions[s] # NoRow
    BY <1>1 DEF NoRow
  <2>2. sessions[s].op = "delete"
    BY <1>0, <2>1 DEF RowsStay
  <2>3. InBin(s)
    BY <1>0, <1>1, <2>2 DEF ConfirmedDeleteInBin
  <2> QED BY <1>0, <2>3, StillInBin
<1>2. CASE sessions[s].status # "confirmed"
  <2>1. PICK w \in Workers : SetConfirmed(w) /\ job[w] = s
    BY <1>0, <1>2, OnlySetConfirmed
  <2>2. w \in Actors /\ pc[w] = "setConfirmed" /\ pc[w] \in ConfirmPC \cup RollbackPC
    BY <2>1 DEF Actors, Web, SetConfirmed, ConfirmPC
  <2>3. sessions[s] # NoRow
    BY <1>0, <2>1, <2>2, SessionInHand
  <2>4. sessions[s].op = "delete"
    BY <1>0, <2>3 DEF RowsStay
  <2>5. InBin(s)
    BY <1>0, <2>1, <2>2, <2>4 DEF BinWritten
  <2> QED BY <1>0, <2>5, StillInBin
<1> QED BY <1>1, <1>2

\* No confirmed deletion is missing from the recycle bin, however many
\* confirmations, rollbacks, crashes and failing calls interleave
\* (confirm_apply adds the row before it marks the session).
THEOREM DeletionsRecoverable == Spec => []ConfirmedDeleteInBin
<1>1. Init => BinInv
  <2> SUFFICES ASSUME Init PROVE BinInv
    OBVIOUS
  <2>1. Inv
    BY InitInv
  <2>2. BinWritten
    BY DEF Init, BinWritten
  <2>3. ConfirmedDeleteInBin
    BY DEF Init, ConfirmedDeleteInBin, NoRow
  <2> QED BY <2>1, <2>2, <2>3 DEF BinInv
<1>2. BinInv /\ [Next]_vars => BinInv'
  BY StepInv, WrittenStep, InBinStep DEF BinInv
<1>3. BinInv => ConfirmedDeleteInBin
  BY DEF BinInv
<1> QED BY <1>1, <1>2, <1>3, PTL DEF Spec

----------------------------------------------------------------------------
(* The deadline.                                                           *)

LEMMA LapsedStep ==
    ASSUME Inv, [Next]_vars, NEW s \in SessionIds, Lapsed(s)
    PROVE  Lapsed(s)'
<1>0. Inv' /\ RowsStay
  BY StepInv
<1>1. sessions'[s].status \in {"pending", "rolled_back", "rollback_failed"}
  <2>1. sessions[s] # NoRow
    BY DEF Lapsed, NoRow
  <2>2. sessions'[s] \in SessionRow
    BY <1>0, <2>1 DEF RowsStay, Inv, TypeOK, TablesType
  <2>3. sessions'[s].status # "confirmed"
    <3> SUFFICES ASSUME sessions'[s].status = "confirmed" PROVE FALSE
      OBVIOUS
    <3>1. PICK w \in Workers : SetConfirmed(w) /\ job[w] = s
      BY OnlySetConfirmed DEF Lapsed
    <3> QED BY <3>1 DEF SetConfirmed, Lapsed, Confirming, ConfirmPC
  <2> QED BY <2>2, <2>3 DEF SessionRow
<1>2. s \in overdue'
  <2>1. s \in overdue
    BY DEF Lapsed
  <2>2. overdue \subseteq overdue'
    <3>1. CASE DraftRequest \/ \E i \in ItemIds : PurgeItem(i)
      BY <3>1 DEF DraftRequest, CreateDraft, PurgeItem, world
    <3>2. ASSUME NEW w \in Workers, Request(w) \/ WorkerStep(w)
          PROVE  overdue' = overdue
      BY <3>2
         DEF Request, ReadDraft, ReadForConfirm, RequestRollback, ReadItem, WorkerStep,
             ListRules, MarkFound, MarkApplying, ResetDraft, ApplyRuntime, OpenSession,
             Persist,
             UndoPersist, ScheduleExpiry, AddRecycleItem, MarkRestored,
             SetConfirmed, DraftConfirmed, world
    <3>3. ASSUME NEW a \in Actors, RollbackStep(a)
          PROVE  overdue' = overdue
      BY <3>3
         DEF RollbackStep, ReadSession, RunInverse, SetRolledBack, DraftRolledBack,
             SetRollbackFailed, world
    <3>4. CASE WatchdogStep \/ EmergencyRollback
      BY <3>4
         DEF WatchdogStep, RollbackExpired, ListDue, ExpireRule, SetExpired,
             SetExpirationFailed, SetExpiry, EmergencyRollback, world
    <3>5. CASE Environment
      BY <3>5
         DEF Environment, Deadline, ScheduleDue, TimerEnds, Crash, Reboot, Restart,
             world
    <3>6. CASE UNCHANGED vars
      BY <3>6 DEF vars, world
    <3> QED BY <3>1, <3>2, <3>3, <3>4, <3>5, <3>6 DEF Next
  <2> QED BY <2>1, <2>2
<1>3. ~Confirming(s)'
  <2> SUFFICES ASSUME NEW w \in Workers, pc'[w] \in ConfirmPC, job'[w] = s
               PROVE  FALSE
    BY DEF Confirming
  <2>0. w \in Actors /\ ControlType
    BY DEF Actors, Web, Inv, TypeOK
  <2>a. ~(pc[w] \in ConfirmPC /\ job[w] = s)
    BY DEF Lapsed, Confirming
  <2>1. CASE UNCHANGED <<pc, job>>
    BY <2>1, <2>a
  <2>2. ASSUME NEW Gone \in SUBSET Actors, Kill(Gone)
        PROVE  FALSE
    <3>1. pc'[w] = "idle" \/ (pc'[w] = pc[w] /\ job'[w] = job[w])
      BY <2>0, <2>2 DEF Kill
    <3> QED BY <3>1, <2>a DEF ConfirmPC
  <2>3. ASSUME NEW a \in Actors, Outside(a)
        PROVE  FALSE
    BY <2>0, <2>3, <2>a DEF Outside
  <2>4. ASSUME NEW v \in Workers, NEW t \in SessionIds, ReadForConfirm(v, t)
        PROVE  FALSE
    <3>1. CASE v # w
      <4>1. pc'[w] = pc[w] /\ job'[w] = job[w]
        BY <2>0, <2>4, <3>1 DEF ReadForConfirm, Take, ControlType
      <4> QED BY <4>1, <2>a
    <3>2. CASE v = w
      <4>1. t = s
        BY <2>0, <2>4, <3>2 DEF ReadForConfirm, Take, ControlType
      <4>2. pc'[w] = "readSession"
        BY <2>0, <2>4, <3>2, <4>1 DEF ReadForConfirm, Take, ControlType, Lapsed
      <4> QED BY <4>2 DEF ConfirmPC
    <3> QED BY <3>1, <3>2
  <2>5. ASSUME NEW v \in Workers, Within(v)
        PROVE  FALSE
    <3>1. PICK label : Goto(v, label)
      BY <2>5 DEF Within, Persist, ScheduleExpiry, AddRecycleItem, MarkRestored,
                  SetConfirmed
    <3>2. pc[v] \in ConfirmPC
      BY <2>5 DEF Within, Persist, ScheduleExpiry, AddRecycleItem, MarkRestored,
                  SetConfirmed, ConfirmPC
    <3>3. job'[w] = job[w] /\ (v # w => pc'[w] = pc[w])
      BY <2>0, <3>1 DEF Goto, ControlType
    <3> QED BY <3>2, <3>3, <2>a
  <2> QED BY <2>1, <2>2, <2>3, <2>4, <2>5, ConfirmEntry
<1> QED BY <1>1, <1>2, <1>3 DEF Lapsed

\* Once its deadline has passed with no confirmation of it under way, a session
\* is never confirmed (confirm_apply reads the deadline with the status).
THEOREM DeadlineHolds == Spec => LapsedStaysLapsed
<1>1. Inv /\ [Next]_vars => [\A s \in SessionIds : Lapsed(s) => Lapsed(s)']_vars
  BY LapsedStep
<1> QED BY <1>1, InvHolds, PTL DEF Spec, LapsedStaysLapsed

----------------------------------------------------------------------------
(* Who changes the recycle bin, the permanent rules, and adds rows.        *)

LEMMA ItemKind ==
    ASSUME [Next]_vars
    PROVE  \/ UNCHANGED items
           \/ \E i \in ItemIds : PurgeItem(i)
           \/ \E w \in Workers : AddRecycleItem(w) \/ MarkRestored(w) \/ MarkFound(w)
<1>1. CASE DraftRequest
  BY <1>1 DEF DraftRequest, CreateDraft
<1>2. ASSUME NEW w \in Workers, Request(w)
      PROVE  UNCHANGED items
  BY <1>2 DEF Request, ReadDraft, ReadForConfirm, RequestRollback, ReadItem, tables
<1>3. ASSUME NEW w \in Workers, WorkerStep(w)
      PROVE  UNCHANGED items \/ AddRecycleItem(w) \/ MarkRestored(w) \/ MarkFound(w)
  <2>1. \/ ListRules(w) \/ MarkApplying(w) \/ ResetDraft(w) \/ ApplyRuntime(w) \/ OpenSession(w)
        => UNCHANGED items
    BY DEF ListRules, MarkApplying, ResetDraft, ApplyRuntime, OpenSession, tables
  <2>2. \/ Persist(w) \/ UndoPersist(w) \/ ScheduleExpiry(w) \/ SetConfirmed(w)
        \/ DraftConfirmed(w)
        => UNCHANGED items
    BY DEF Persist, UndoPersist, ScheduleExpiry, SetConfirmed, DraftConfirmed, tables
  <2> QED BY <1>3, <2>1, <2>2 DEF WorkerStep
<1>4. ASSUME NEW a \in Actors, RollbackStep(a)
      PROVE  UNCHANGED items
  BY <1>4 DEF RollbackStep, ReadSession, RunInverse, SetRolledBack, DraftRolledBack,
              SetRollbackFailed, tables
<1>5. CASE WatchdogStep \/ EmergencyRollback
  BY <1>5 DEF WatchdogStep, RollbackExpired, ListDue, ExpireRule, SetExpired,
              SetExpirationFailed, SetExpiry, EmergencyRollback, tables
<1>6. CASE Environment
  BY <1>6 DEF Environment, Deadline, ScheduleDue, TimerEnds, Crash, Reboot, Restart,
              tables
<1>7. CASE UNCHANGED vars
  BY <1>7 DEF vars, tables
<1> QED BY <1>1, <1>2, <1>3, <1>4, <1>5, <1>6, <1>7 DEF Next

\* Only a confirmation puts a row into the recycle bin.
LEMMA NewItem ==
    ASSUME Inv, [Next]_vars, NEW i \in ItemIds, items[i] = NoRow, items'[i] # NoRow
    PROVE  \E w \in Workers :
               /\ AddRecycleItem(w)
               /\ items'[i].session = job[w] /\ items'[i].rule = sessions[job[w]].rule
               /\ items'[i].temp = sessions[job[w]].temp
<1>0. TablesType
  BY DEF Inv, TypeOK
<1>1. ASSUME NEW j \in ItemIds, items[j] # NoRow, NEW x,
             items' = [items EXCEPT ![j].status = x] \/ items' = items
      PROVE  FALSE
  BY <1>0, <1>1 DEF TablesType
<1>2. ASSUME NEW j \in ItemIds, PurgeItem(j)
      PROVE  FALSE
  BY <1>1, <1>2 DEF PurgeItem, NoRow
<1>3. ASSUME NEW w \in Workers, MarkFound(w)
      PROVE  FALSE
  <2>1. w \in Actors /\ pc[w] \in RestorePC
    BY <1>3 DEF Actors, Web, MarkFound, RestorePC
  <2>2. job[w] \in ItemIds /\ items[job[w]] # NoRow
    BY <2>1 DEF Inv, HoldsRow, Holds
  <2> QED BY <1>0, <1>1, <1>3, <2>2, RestoredStatus DEF MarkFound
<1>4. ASSUME NEW w \in Workers, MarkRestored(w)
      PROVE  FALSE
  <2>1. w \in Actors /\ pc[w] = "markRestored"
    BY <1>4 DEF Actors, Web, MarkRestored
  <2>2. /\ job[w] \in SessionIds /\ sessions[job[w]] # NoRow
        /\ sessions[job[w]].item # None
    BY <2>1 DEF Inv, HoldsRow, Holds, ConfirmPC
  <2>3. sessions[job[w]].item \in ItemIds /\ items[sessions[job[w]].item] # NoRow
    BY <1>0, <2>2 DEF Inv, RowsExist, TablesType, SessionRow
  <2> QED BY <1>0, <1>1, <1>4, <2>3, RestoredStatus DEF MarkRestored
<1>5. PICK w \in Workers : AddRecycleItem(w)
  BY <1>2, <1>3, <1>4, ItemKind
<1>6. PICK j \in ItemIds :
          items' = [items EXCEPT ![j] =
              [status |-> "deleted", rule |-> sessions[job[w]].rule,
               temp |-> sessions[job[w]].temp, session |-> job[w]]]
  BY <1>5 DEF AddRecycleItem
<1>7. items'[i] = [status |-> "deleted", rule |-> sessions[job[w]].rule,
                   temp |-> sessions[job[w]].temp, session |-> job[w]]
  BY <1>0, <1>6 DEF TablesType
<1> QED BY <1>5, <1>7

LEMMA PermanentKept ==
    ASSUME [Next]_vars, permanent' # permanent
    PROVE  \E w \in Workers : Persist(w) \/ UndoPersist(w)
<1>1. ~DraftRequest /\ \A i \in ItemIds : ~PurgeItem(i)
  BY DEF DraftRequest, CreateDraft, PurgeItem, firewall
<1>2. ASSUME NEW w \in Workers, Request(w) \/ WorkerStep(w)
      PROVE  Persist(w) \/ UndoPersist(w)
  BY <1>2 DEF Request, ReadDraft, ReadForConfirm, RequestRollback, ReadItem, WorkerStep,
              ListRules, MarkFound, MarkApplying, ResetDraft, ApplyRuntime, OpenSession,
              ScheduleExpiry,
              AddRecycleItem, MarkRestored, SetConfirmed, DraftConfirmed, RuntimeCall,
              firewall
<1>3. ASSUME NEW a \in Actors, RollbackStep(a)
      PROVE  FALSE
  BY <1>3 DEF RollbackStep, ReadSession, RunInverse, SetRolledBack, DraftRolledBack,
              SetRollbackFailed, RuntimeCall, firewall
<1>4. ~WatchdogStep /\ ~EmergencyRollback
  BY DEF WatchdogStep, RollbackExpired, ListDue, ExpireRule, SetExpired,
         SetExpirationFailed, SetExpiry, EmergencyRollback, RuntimeCall, firewall
<1>5. ~Environment /\ vars' # vars
  BY DEF Environment, Deadline, ScheduleDue, TimerEnds, Crash, Reboot, Restart,
         vars, firewall
<1> QED BY <1>1, <1>2, <1>3, <1>4, <1>5 DEF Next

LEMMA DraftKind ==
    ASSUME [Next]_vars
    PROVE  \/ UNCHANGED drafts \/ DraftRequest
           \/ \E w \in Workers : ListRules(w)
           \/ \E w \in Workers : MarkApplying(w) \/ ResetDraft(w) \/ DraftConfirmed(w)
           \/ \E a \in Actors : DraftRolledBack(a)
<1>1. ASSUME NEW w \in Workers, Request(w) \/ WorkerStep(w)
      PROVE  \/ UNCHANGED drafts \/ ListRules(w)
             \/ MarkApplying(w) \/ ResetDraft(w) \/ DraftConfirmed(w)
  BY <1>1 DEF Request, ReadDraft, ReadForConfirm, RequestRollback, ReadItem, WorkerStep,
              MarkFound, ApplyRuntime, OpenSession, Persist, UndoPersist, ScheduleExpiry,
              AddRecycleItem, MarkRestored, SetConfirmed, tables
<1>2. ASSUME NEW a \in Actors, RollbackStep(a)
      PROVE  UNCHANGED drafts \/ DraftRolledBack(a)
  BY <1>2 DEF RollbackStep, ReadSession, RunInverse, SetRolledBack, SetRollbackFailed,
              tables
<1>3. WatchdogStep \/ EmergencyRollback => UNCHANGED drafts
  BY DEF WatchdogStep, RollbackExpired, ListDue, ExpireRule, SetExpired,
         SetExpirationFailed, SetExpiry, EmergencyRollback, tables
<1>4. Environment \/ UNCHANGED vars => UNCHANGED drafts
  BY DEF Environment, Deadline, ScheduleDue, TimerEnds, Crash, Reboot, Restart,
         vars, tables
<1>5. (\E i \in ItemIds : PurgeItem(i)) => UNCHANGED drafts
  BY DEF PurgeItem
<1> QED BY <1>1, <1>2, <1>3, <1>4, <1>5 DEF Next

LEMMA SessionKind ==
    ASSUME [Next]_vars
    PROVE  \/ UNCHANGED sessions
           \/ \E w \in Workers : OpenSession(w) \/ SetConfirmed(w)
           \/ \E a \in Actors : SetRolledBack(a) \/ SetRollbackFailed(a)
<1>1. ASSUME NEW w \in Workers, Request(w) \/ WorkerStep(w)
      PROVE  UNCHANGED sessions \/ OpenSession(w) \/ SetConfirmed(w)
  BY <1>1 DEF Request, ReadDraft, ReadForConfirm, RequestRollback, ReadItem, WorkerStep,
              ListRules, MarkFound, MarkApplying, ResetDraft, ApplyRuntime, Persist,
              UndoPersist,
              ScheduleExpiry, AddRecycleItem, MarkRestored, DraftConfirmed, tables
<1>2. ASSUME NEW a \in Actors, RollbackStep(a)
      PROVE  UNCHANGED sessions \/ SetRolledBack(a) \/ SetRollbackFailed(a)
  BY <1>2 DEF RollbackStep, ReadSession, RunInverse, DraftRolledBack, tables
<1>3. WatchdogStep \/ EmergencyRollback => UNCHANGED sessions
  BY DEF WatchdogStep, RollbackExpired, ListDue, ExpireRule, SetExpired,
         SetExpirationFailed, SetExpiry, EmergencyRollback, tables
<1>4. Environment \/ UNCHANGED vars => UNCHANGED sessions
  BY DEF Environment, Deadline, ScheduleDue, TimerEnds, Crash, Reboot, Restart,
         vars, tables
<1>5. DraftRequest \/ (\E i \in ItemIds : PurgeItem(i)) => UNCHANGED sessions
  BY DEF DraftRequest, CreateDraft, PurgeItem
<1> QED BY <1>1, <1>2, <1>3, <1>4, <1>5 DEF Next

----------------------------------------------------------------------------
(* What drafts and sessions come from.                                     *)

\* What restores a row of the recycle bin is an addition; who adds a rule took
\* it from the bin, or was asked to add it.
AddRows ==
    /\ \A d \in Drafts : drafts[d] # NoRow =>
           /\ drafts[d].item # None => drafts[d].op = "restore"
           /\ drafts[d].op = "restore" => HasItem(drafts[d].rule)
    /\ \A s \in SessionIds : sessions[s] # NoRow =>
           /\ sessions[s].item # None => sessions[s].op = "add"
           /\ sessions[s].op = "add" =>
                  HasItem(sessions[s].rule) \/ Asked(sessions[s].rule)

LEMMA NewDraft ==
    ASSUME Inv, [Next]_vars, NEW d \in Drafts, drafts[d] = NoRow, drafts'[d] # NoRow
    PROVE  \/ drafts'[d].op # "restore" /\ drafts'[d].item = None
           \/ drafts'[d].op = "restore" /\ HasItem(drafts'[d].rule)
<1>0. TablesType /\ Workers \subseteq Actors
  BY DEF Inv, TypeOK, Actors, Web
<1>1. ASSUME NEW e \in Drafts, drafts[e] # NoRow, NEW x,
             drafts' = [drafts EXCEPT ![e].status = x]
      PROVE  FALSE
  BY <1>0, <1>1 DEF TablesType
<1>2. ASSUME NEW w \in Workers, MarkApplying(w) \/ ResetDraft(w)
      PROVE  FALSE
  <2>1. w \in Actors /\ pc[w] \in DraftPC
    BY <1>0, <1>2 DEF MarkApplying, ResetDraft, DraftPC
  <2>2. job[w] \in Drafts /\ drafts[job[w]] # NoRow
    BY <2>1 DEF Inv, HoldsRow, Holds
  <2> QED BY <1>1, <1>2, <2>2 DEF MarkApplying, ResetDraft
<1>3. ASSUME NEW a \in Actors, DraftRolledBack(a) \/ (a \in Workers /\ DraftConfirmed(a))
      PROVE  FALSE
  <2>1. pc[a] \in ConfirmPC \cup RollbackPC
    BY <1>3 DEF DraftRolledBack, DraftConfirmed, ConfirmPC, RollbackPC
  <2>2. /\ sessions[job[a]].draft \in Drafts
        /\ drafts[sessions[job[a]].draft] # NoRow
    BY <2>1, SessionInHand
  <2> QED BY <1>1, <1>3, <2>2 DEF DraftRolledBack, DraftConfirmed
<1>4. ASSUME NEW e \in Drafts, NEW row, drafts' = [drafts EXCEPT ![e] = row]
      PROVE  drafts'[d] = row
  BY <1>0, <1>4 DEF TablesType
<1>5. ASSUME NEW e \in Drafts, NEW op \in DraftOps \ {"restore"}, NEW r \in Rules,
             NEW temp \in BOOLEAN, CreateDraft(e, op, r, temp)
      PROVE  drafts'[d].op # "restore" /\ drafts'[d].item = None
  <2>1. drafts'[d] = [status |-> "pending", op |-> op, rule |-> r, temp |-> temp,
                      item |-> None]
    BY <1>4, <1>5 DEF CreateDraft
  <2> QED BY <2>1
<1>6. ASSUME NEW w \in Workers, ListRules(w), drafts' # drafts
      PROVE  drafts'[d].op = "restore" /\ HasItem(drafts'[d].rule)
  <2> DEFINE i == job[w]
             row == [status |-> "pending", op |-> "restore", rule |-> items[i].rule,
                     temp |-> items[i].temp, item |-> i]
  <2>1. i \in ItemIds /\ items[i] # NoRow
    BY <1>0, <1>6 DEF ListRules, Inv, HoldsRow, Holds, RestorePC
  <2>2. PICK e \in Drafts : drafts' = [drafts EXCEPT ![e] = row]
    BY <1>6 DEF ListRules
  <2>3. drafts'[d] = row
    BY <1>4, <2>2
  <2>4. drafts'[d].op = "restore" /\ drafts'[d].rule = items[i].rule
    BY <2>3
  <2> QED BY <2>1, <2>4 DEF HasItem
<1>7. drafts' # drafts
  OBVIOUS
<1> QED BY <1>0, <1>2, <1>3, <1>5, <1>6, <1>7, DraftKind DEF DraftRequest

LEMMA NewSession ==
    ASSUME Inv, [Next]_vars, NEW s \in SessionIds, sessions[s] = NoRow,
           sessions'[s] # NoRow
    PROVE  \E d \in Drafts :
               /\ drafts[d] # NoRow
               /\ sessions'[s].op = TrialOp(d) /\ sessions'[s].rule = drafts[d].rule
               /\ sessions'[s].temp = drafts[d].temp
               /\ sessions'[s].item = drafts[d].item
<1>0. TablesType /\ Workers \subseteq Actors
  BY DEF Inv, TypeOK, Actors, Web
<1>1. ASSUME NEW a \in Actors,
             SetRolledBack(a) \/ SetRollbackFailed(a) \/ (a \in Workers /\ SetConfirmed(a))
      PROVE  FALSE
  <2>1. pc[a] \in ConfirmPC \cup RollbackPC
    BY <1>1 DEF SetRolledBack, SetRollbackFailed, SetConfirmed, ConfirmPC, RollbackPC
  <2>2. job[a] \in SessionIds /\ sessions[job[a]] # NoRow
    BY <2>1, SessionInHand
  <2>3. \E x : sessions' = [sessions EXCEPT ![job[a]].status = x]
    BY <1>1 DEF SetRolledBack, SetRollbackFailed, SetConfirmed
  <2>4. sessions'[s] = sessions[s]
    BY <1>0, <2>2, <2>3 DEF TablesType
  <2> QED BY <2>4
<1>2. PICK w \in Workers : OpenSession(w)
  BY <1>0, <1>1, SessionKind
<1>3. job[w] \in Drafts /\ drafts[job[w]] # NoRow
  BY <1>0, <1>2 DEF OpenSession, Inv, HoldsRow, Holds, DraftPC
<1>4. PICK t \in SessionIds :
          sessions' = [sessions EXCEPT ![t] =
              [status |-> "pending", op |-> TrialOp(job[w]), rule |-> drafts[job[w]].rule,
               temp |-> drafts[job[w]].temp, draft |-> job[w],
               item |-> drafts[job[w]].item]]
  BY <1>2 DEF OpenSession
<1>5. sessions'[s] = [status |-> "pending", op |-> TrialOp(job[w]),
                      rule |-> drafts[job[w]].rule, temp |-> drafts[job[w]].temp,
                      draft |-> job[w], item |-> drafts[job[w]].item]
  BY <1>0, <1>4 DEF TablesType
<1> QED BY <1>3, <1>5

LEMMA StillAsked ==
    ASSUME RowsStay, NEW r, HasItem(r) \/ Asked(r)
    PROVE  HasItem(r)' \/ Asked(r)'
<1>1. HasItem(r) => HasItem(r)'
  BY DEF RowsStay, HasItem
<1>2. Asked(r) => Asked(r)'
  BY DEF RowsStay, Asked
<1> QED BY <1>1, <1>2

LEMMA AddRowsStep ==
    ASSUME Inv, AddRows, [Next]_vars
    PROVE  AddRows'
<1>0. RowsStay
  BY StepInv
<1>1. ASSUME NEW d \in Drafts, drafts'[d] # NoRow, NEW r, r = drafts'[d].rule
      PROVE  /\ drafts'[d].item # None => drafts'[d].op = "restore"
             /\ drafts'[d].op = "restore" => HasItem(r)'
  <2>1. HasItem(r) => HasItem(r)'
    BY <1>0 DEF RowsStay, HasItem
  <2>2. CASE drafts[d] # NoRow
    <3>1. /\ drafts'[d].op = drafts[d].op /\ drafts'[d].item = drafts[d].item
          /\ r = drafts[d].rule
      BY <1>0, <1>1, <2>2 DEF RowsStay
    <3> QED BY <2>1, <2>2, <3>1 DEF AddRows
  <2>3. CASE drafts[d] = NoRow
    <3>1. \/ drafts'[d].op # "restore" /\ drafts'[d].item = None
          \/ drafts'[d].op = "restore" /\ HasItem(r)
      BY <1>1, <2>3, NewDraft
    <3> QED BY <2>1, <3>1
  <2> QED BY <2>2, <2>3
<1>2. ASSUME NEW s \in SessionIds, sessions'[s] # NoRow, NEW r, r = sessions'[s].rule
      PROVE  /\ sessions'[s].item # None => sessions'[s].op = "add"
             /\ sessions'[s].op = "add" => HasItem(r)' \/ Asked(r)'
  <2>2. CASE sessions[s] # NoRow
    <3>1. /\ sessions'[s].op = sessions[s].op /\ sessions'[s].item = sessions[s].item
          /\ r = sessions[s].rule
      BY <1>0, <1>2, <2>2 DEF RowsStay
    <3>2. sessions[s].op = "add" => HasItem(r) \/ Asked(r)
      BY <2>2, <3>1 DEF AddRows
    <3>3. sessions[s].item # None => sessions[s].op = "add"
      BY <2>2 DEF AddRows
    <3> QED BY <1>0, <3>1, <3>2, <3>3, StillAsked
  <2>3. CASE sessions[s] = NoRow
    <3>1. PICK d \in Drafts :
              /\ drafts[d] # NoRow
              /\ sessions'[s].op = TrialOp(d) /\ r = drafts[d].rule
              /\ sessions'[s].item = drafts[d].item
      BY <1>2, <2>3, NewSession
    <3>2. /\ drafts[d].item # None => drafts[d].op = "restore"
          /\ drafts[d].op = "restore" => HasItem(r)
      BY <3>1 DEF AddRows
    <3>3. drafts[d].op = "add" => Asked(r)
      BY <3>1 DEF Asked
    <3>4. TrialOp(d) = "add" => drafts[d].op \in {"add", "restore"}
      BY DEF TrialOp
    <3>5. drafts[d].op = "restore" => TrialOp(d) = "add"
      BY DEF TrialOp
    <3> QED BY <1>0, <3>1, <3>2, <3>3, <3>4, <3>5, StillAsked
  <2> QED BY <2>2, <2>3
<1>3. \A d \in Drafts : drafts'[d] # NoRow =>
          /\ drafts'[d].item # None => drafts'[d].op = "restore"
          /\ drafts'[d].op = "restore" => HasItem(drafts[d].rule)'
  BY <1>1 DEF HasItem
<1>4. \A s \in SessionIds : sessions'[s] # NoRow =>
          /\ sessions'[s].item # None => sessions'[s].op = "add"
          /\ sessions'[s].op = "add" =>
                 HasItem(sessions[s].rule)' \/ Asked(sessions[s].rule)'
  BY <1>2 DEF HasItem, Asked
<1> QED BY <1>3, <1>4 DEF AddRows

LEMMA InitAddRows == Init => AddRows
BY DEF Init, AddRows

----------------------------------------------------------------------------
(* The restoration of a rule from the recycle bin.                         *)

\* A confirmation comes to mark the row restored through the permanent call.
RestoreHands ==
    \A w \in Workers :
        LET s == sessions[job[w]] IN
        /\ pc[w] # "scheduleExpiry"
        /\ pc[w] = "addRecycleItem" => s.op = "delete"
        /\ pc[w] = "markRestored" => s.temp \/ s.rule \in permanent

RestoreInv == Inv /\ AddRows /\ RestoreHands

LEMMA RestoreHandsStep ==
    ASSUME Backend = "firewalld", NEW w, Workers = {w}, Inv, AddRows, RestoreHands,
           [Next]_vars
    PROVE  RestoreHands'
<1>0. RowsStay /\ ControlType /\ w \in Actors /\ w \in Workers
  BY StepInv DEF Inv, TypeOK, Actors, Web
<1> DEFINE At == {"scheduleExpiry", "addRecycleItem", "markRestored"}
           Good == /\ pc'[w] # "scheduleExpiry"
                   /\ pc'[w] = "addRecycleItem" => sessions'[job'[w]].op = "delete"
                   /\ pc'[w] = "markRestored" => \/ sessions'[job'[w]].temp
                                                 \/ sessions'[job'[w]].rule \in permanent'
<1> SUFFICES Good
  BY DEF RestoreHands
<1>1. At \subseteq ConfirmPC \ {"persist", "undoPersist"}
  BY DEF ConfirmPC
<1>2. ASSUME pc[w] \in ConfirmPC
      PROVE  /\ job[w] \in SessionIds
             /\ sessions'[job[w]].temp = sessions[job[w]].temp
             /\ sessions'[job[w]].op = sessions[job[w]].op
             /\ sessions'[job[w]].rule = sessions[job[w]].rule
  <2>1. job[w] \in SessionIds /\ sessions[job[w]] # NoRow
    BY <1>0, <1>2, SessionInHand
  <2> QED BY <1>0, <2>1 DEF RowsStay
<1>3. pc[w] \notin {"persist", "undoPersist"} => permanent' = permanent
  BY PermanentKept DEF Persist, UndoPersist
<1>4. CASE pc'[w] = pc[w] /\ job'[w] = job[w]
  BY <1>0, <1>1, <1>2, <1>3, <1>4 DEF RestoreHands
<1>5. CASE pc'[w] \notin ConfirmPC
  BY <1>1, <1>5
<1>6. ASSUME NEW s \in SessionIds, ReadForConfirm(w, s)
      PROVE  Good
  <2>1. pc'[w] \in {"readSession", FirstStep(s)} /\ job'[w] = s
    BY <1>0, <1>6 DEF ReadForConfirm, Take, ControlType
  <2>2. sessions' = sessions
    BY <1>6 DEF ReadForConfirm, tables
  <2> QED BY <2>1, <2>2 DEF FirstStep, AfterPersist, AfterSchedule, AfterRecycle
<1>7. CASE Within(w)
  <2>1. PICK label : Goto(w, label)
    BY <1>7 DEF Within, Persist, ScheduleExpiry, AddRecycleItem, MarkRestored,
                SetConfirmed
  <2>2. pc'[w] = label /\ job'[w] = job[w]
    BY <1>0, <2>1 DEF Goto, ControlType
  <2>3. pc[w] \in ConfirmPC
    BY <1>7 DEF Within, Persist, ScheduleExpiry, AddRecycleItem, MarkRestored,
                SetConfirmed, ConfirmPC
  <2>4. PICK s \in SessionIds : s = job[w]
    BY <1>2, <2>3
  <2>5. /\ sessions[s] # NoRow /\ sessions[s].op \in {"add", "delete"}
        /\ sessions[s].item # None => sessions[s].op = "add"
    BY <1>0, <2>3, <2>4, SessionInHand DEF AddRows
  <2>6. CASE Persist(w)
    <3>1. PICK res \in Results(permanent, sessions[s].op, sessions[s].rule) :
              /\ permanent' = res.rules
              /\ Goto(w, IF res.ok THEN AfterPersist(s) ELSE "undoPersist")
      BY <2>4, <2>6 DEF Persist, PermanentCall
    <3>2. pc'[w] = IF res.ok THEN AfterPersist(s) ELSE "undoPersist"
      BY <1>0, <3>1 DEF Goto, ControlType
    <3>3. res.ok => permanent' = Effect(permanent, sessions[s].op, sessions[s].rule)
      BY <3>1 DEF Results, Faulty
    <3>4. sessions[s].op = "add" /\ res.ok => sessions[s].rule \in permanent'
      BY <3>3 DEF Effect
    <3>5. pc'[w] = "markRestored" => sessions[s].op = "add" /\ res.ok
      BY <2>5, <3>2 DEF AfterPersist, AfterSchedule, AfterRecycle
    <3>6. /\ pc'[w] # "scheduleExpiry"
          /\ pc'[w] = "addRecycleItem" => sessions[s].op = "delete"
      BY <3>2 DEF AfterPersist, AfterSchedule, AfterRecycle
    <3> QED BY <1>2, <2>2, <2>3, <2>4, <3>4, <3>5, <3>6
  <2>7. CASE ScheduleExpiry(w)
    BY <1>0, <2>7 DEF ScheduleExpiry, RestoreHands
  <2>8. CASE AddRecycleItem(w)
    <3>1. pc'[w] = AfterRecycle(s) /\ sessions[s].op = "delete"
      BY <1>0, <2>4, <2>8 DEF AddRecycleItem, Goto, ControlType, RestoreHands
    <3> QED BY <2>5, <3>1 DEF AfterRecycle
  <2>9. CASE MarkRestored(w) \/ SetConfirmed(w)
    <3>1. pc'[w] \in {"setConfirmed", "draftConfirmed"}
      BY <1>0, <2>9 DEF MarkRestored, SetConfirmed, Goto, ControlType
    <3> QED BY <3>1
  <2> QED BY <1>7, <2>6, <2>7, <2>8, <2>9 DEF Within
<1>8. CASE UNCHANGED <<pc, job>>
  BY <1>4, <1>8
<1>9. ASSUME NEW Gone \in SUBSET Actors, Kill(Gone)
      PROVE  Good
  <2>1. pc'[w] = "idle" \/ (pc'[w] = pc[w] /\ job'[w] = job[w])
    BY <1>0, <1>9 DEF Kill
  <2> QED BY <2>1, <1>4
<1>10. ASSUME NEW b \in Actors, Outside(b)
       PROVE  Good
  BY <1>0, <1>4, <1>5, <1>10 DEF Outside
<1> HIDE DEF Good
<1> QED BY <1>6, <1>7, <1>8, <1>9, <1>10, ConfirmEntry

\* A confirmation marks a row restored only once its rule is permanent, or has
\* a lifetime: whatever the permanent call answered, whoever undoes the trial
\* meanwhile and whenever the process or the host goes down (confirm_apply).
\* firewalld, whose permanent call comes first; of one request at a time, for
\* another confirmation could delete the rule between.  What a restoration that
\* found its rule in force marks (restore_recycle) is not spoken of: the trial
\* it found may be rolled back before (FoundIsBack, ApplyRestoreRace.cfg).
THEOREM RestorationsHold ==
    ASSUME Backend = "firewalld", NEW v, Workers = {v}
    PROVE  Spec => RestoredIsBack
<1>1. Init => RestoreInv
  <2> SUFFICES ASSUME Init PROVE RestoreInv
    OBVIOUS
  <2>1. \A w \in Workers : pc[w] = "idle"
    BY DEF Init, Actors, Web
  <2> QED BY <2>1, InitInv, InitAddRows DEF RestoreInv, RestoreHands
<1>2. RestoreInv /\ [Next]_vars => RestoreInv'
  BY StepInv, AddRowsStep, RestoreHandsStep DEF RestoreInv
<1>3. RestoreInv /\ [Next]_vars =>
          [\A w \in Workers :
               MarkRestored(w) => LET s == sessions[job[w]] IN s.temp \/ s.rule \in permanent]_vars
  BY DEF RestoreInv, RestoreHands, MarkRestored
<1>4. Spec => []RestoreInv
  BY <1>1, <1>2, PTL DEF Spec
<1> QED BY <1>3, <1>4, PTL DEF Spec, RestoredIsBack

----------------------------------------------------------------------------
(* No deletion is lost, whoever interleaves.                               *)

\* Worker w has taken r from the permanent rules and is about to put it into
\* the recycle bin, or, where its call failed, back.
Owes(w, r) ==
    /\ pc[w] = "addRecycleItem" \/ (pc[w] = "undoPersist" /\ faults = 1)
    /\ sessions[job[w]].op = "delete" /\ sessions[job[w]].rule = r

Kept ==
    crashes = 0 /\ faults =< 1 =>
        \A r \in start.permanent \ permanent :
            HasItem(r) \/ Asked(r) \/ \E w \in Workers : Owes(w, r)

KeptInv == Inv /\ AddRows /\ Kept

\* Only the actor moves, and not from where something is owed.
Owing == {"addRecycleItem", "undoPersist"}
Alone(a) == \A b \in Actors \ {a} : pc'[b] = pc[b] /\ job'[b] = job[b]
Free(a)  == pc[a] \notin Owing /\ Alone(a)

LEMMA AloneGoto ==
    ASSUME NEW a, NEW label, NEW id, Goto(a, label) \/ Take(a, id, label), ControlType
    PROVE  Alone(a)
BY DEF Goto, Take, Alone, ControlType

LEMMA AloneReturn == ASSUME NEW a, Return(a), ControlType PROVE Alone(a)
BY AloneGoto DEF Return

LEMMA AloneProceed == ASSUME NEW a, NEW S, Proceed(a, S), ControlType PROVE Alone(a)
<1>1. \E id, label : Take(a, id, label)
  BY DEF Proceed
<1> QED BY <1>1, AloneGoto

LEMMA AloneAfterRollback == ASSUME NEW a, AfterRollback(a), ControlType PROVE Alone(a)
BY AloneProceed, AloneReturn DEF AfterRollback

\* Without a crash, who owes something keeps its place until it has given it.
LEMMA WhoMoves ==
    ASSUME Inv, [Next]_vars
    PROVE  \/ UNCHANGED <<pc, job>>
           \/ \E a \in Actors : Free(a)
           \/ \E w \in Workers : Alone(w) /\ (AddRecycleItem(w) \/ UndoPersist(w))
           \/ crashes' = crashes + 1
<1> DEFINE Goal == \/ UNCHANGED <<pc, job>>
                   \/ \E a \in Actors : Free(a)
                   \/ \E w \in Workers : Alone(w) /\ (AddRecycleItem(w) \/ UndoPersist(w))
                   \/ crashes' = crashes + 1
<1> SUFFICES Goal
  OBVIOUS
<1>0. ControlType /\ Workers \subseteq Actors /\ Watchdog \in Actors /\ Cli \in Actors
  BY DEF Inv, TypeOK, Actors, Web
<1>1. CASE DraftRequest \/ \E i \in ItemIds : PurgeItem(i)
  BY <1>1 DEF DraftRequest, CreateDraft, PurgeItem, control
<1>2. ASSUME NEW w \in Workers, Request(w)
      PROVE  Free(w)
  <2>1. pc[w] \notin Owing /\ \E id, label : Take(w, id, label)
    BY <1>2 DEF Request, ReadDraft, ReadForConfirm, RequestRollback, ReadItem, Owing
  <2> QED BY <1>0, <2>1, AloneGoto DEF Free
<1>3. ASSUME NEW w \in Workers, WorkerStep(w)
      PROVE  Free(w) \/ (Alone(w) /\ (AddRecycleItem(w) \/ UndoPersist(w)))
  <2>1. (\E label : Goto(w, label)) \/ Return(w)
    BY <1>3 DEF WorkerStep, ListRules, MarkFound, MarkApplying, ResetDraft, ApplyRuntime,
                OpenSession, Persist, UndoPersist, ScheduleExpiry, AddRecycleItem,
                MarkRestored, SetConfirmed, DraftConfirmed
  <2>2. Alone(w)
    BY <1>0, <2>1, AloneGoto, AloneReturn
  <2>3. pc[w] \notin Owing \/ AddRecycleItem(w) \/ UndoPersist(w)
    BY <1>3 DEF WorkerStep, ListRules, MarkFound, MarkApplying, ResetDraft, ApplyRuntime,
                OpenSession, Persist, ScheduleExpiry, MarkRestored, SetConfirmed,
                DraftConfirmed, Owing
  <2> QED BY <2>2, <2>3 DEF Free
<1>4. ASSUME NEW a \in Actors, RollbackStep(a)
      PROVE  Free(a)
  <2>1. (\E label : Goto(a, label)) \/ Return(a) \/ AfterRollback(a)
    BY <1>4 DEF RollbackStep, ReadSession, RunInverse, SetRolledBack, DraftRolledBack,
                SetRollbackFailed, Raise
  <2>2. pc[a] \notin Owing
    BY <1>4 DEF RollbackStep, ReadSession, RunInverse, SetRolledBack, DraftRolledBack,
                SetRollbackFailed, Owing
  <2> QED BY <1>0, <2>1, <2>2, AloneGoto, AloneReturn, AloneAfterRollback DEF Free
<1>5. CASE WatchdogStep
  <2>1. (\E id, label : Take(Watchdog, id, label)) \/ \E S : Proceed(Watchdog, S)
    BY <1>5 DEF WatchdogStep, RollbackExpired, ListDue, ExpireRule, SetExpired,
                SetExpirationFailed, SetExpiry, NextDue
  <2>2. pc[Watchdog] \notin Owing
    BY <1>5 DEF WatchdogStep, RollbackExpired, ListDue, ExpireRule, SetExpired,
                SetExpirationFailed, SetExpiry, Owing
  <2> QED BY <1>0, <2>1, <2>2, AloneGoto, AloneProceed DEF Free
<1>6. CASE EmergencyRollback
  BY <1>0, <1>6, AloneProceed DEF EmergencyRollback, Free, Owing
<1>7. CASE Environment
  BY <1>7 DEF Environment, Deadline, ScheduleDue, TimerEnds, Crash, Reboot, Restart,
              control
<1>8. CASE UNCHANGED vars
  BY <1>8 DEF vars, control
<1> QED BY <1>0, <1>1, <1>2, <1>3, <1>4, <1>5, <1>6, <1>7, <1>8 DEF Next

\* The counters only grow, and the start stays what it was.
LEMMA FaultsGrow ==
    ASSUME Inv, NEW rules, NEW op, NEW r, NEW res \in Results(rules, op, r),
           faults' = faults + res.fault
    PROVE  faults' = faults \/ faults' = faults + 1
<1>1. faults \in Nat
  BY BoundAssumption DEF Inv, TypeOK, WorldType
<1>2. res.fault = 0 \/ res.fault = 1
  BY DEF Results, Faulty
<1> QED BY <1>1, <1>2

Grown == /\ start' = start
         /\ faults' = faults \/ faults' = faults + 1
         /\ crashes' = crashes \/ crashes' = crashes + 1

LEMMA WorldGrows ==
    ASSUME Inv, [Next]_vars
    PROVE  Grown
<1>1. CASE DraftRequest \/ \E i \in ItemIds : PurgeItem(i)
  BY <1>1 DEF DraftRequest, CreateDraft, PurgeItem, world, process, Grown
<1>2. ASSUME NEW w \in Workers, Request(w)
      PROVE  Grown
  BY <1>2 DEF Request, ReadDraft, ReadForConfirm, RequestRollback, ReadItem, world,
              process, Grown
<1>3. ASSUME NEW w \in Workers, WorkerStep(w)
      PROVE  Grown
  <2>1. CASE ApplyRuntime(w) \/ Persist(w) \/ UndoPersist(w)
    BY <2>1, FaultsGrow DEF ApplyRuntime, Persist, UndoPersist, RuntimeCall,
                            PermanentCall, process, Grown
  <2>2. CASE ~(ApplyRuntime(w) \/ Persist(w) \/ UndoPersist(w))
    BY <1>3, <2>2
       DEF WorkerStep, ListRules, MarkFound, MarkApplying, ResetDraft, OpenSession,
           ScheduleExpiry, AddRecycleItem, MarkRestored, SetConfirmed, DraftConfirmed,
           world, process, Grown
  <2> QED BY <2>1, <2>2
<1>4. ASSUME NEW a \in Actors, RollbackStep(a)
      PROVE  Grown
  <2>1. CASE RunInverse(a)
    BY <2>1, FaultsGrow DEF RunInverse, RuntimeCall, process, Grown
  <2>2. CASE ~RunInverse(a)
    BY <1>4, <2>2
       DEF RollbackStep, ReadSession, SetRolledBack, DraftRolledBack,
           SetRollbackFailed, world, process, Grown
  <2> QED BY <2>1, <2>2
<1>5. CASE WatchdogStep
  <2>1. CASE ExpireRule
    BY <2>1, FaultsGrow DEF ExpireRule, RuntimeCall, process, Grown
  <2>2. CASE ~ExpireRule
    BY <1>5, <2>2
       DEF WatchdogStep, RollbackExpired, ListDue, SetExpired, SetExpirationFailed,
           SetExpiry, world, process, Grown
  <2> QED BY <2>1, <2>2
<1>6. CASE EmergencyRollback
  BY <1>6 DEF EmergencyRollback, Grown
<1>7. CASE Environment
  BY <1>7 DEF Environment, Deadline, ScheduleDue, TimerEnds, Crash, Reboot, Restart,
              world, process, Grown
<1>8. CASE UNCHANGED vars
  BY <1>8 DEF vars, world, process, Grown
<1> QED BY <1>1, <1>2, <1>3, <1>4, <1>5, <1>6, <1>7, <1>8 DEF Next

\* Who does not move owes what it owed.
LEMMA StillOwes ==
    ASSUME Inv, RowsStay, NEW w \in Workers, NEW r, Owes(w, r), faults' =< 1,
           faults' = faults \/ faults' = faults + 1, pc'[w] = pc[w], job'[w] = job[w]
    PROVE  Owes(w, r)'
<1>1. w \in Actors /\ pc[w] \in ConfirmPC \cup RollbackPC
  BY DEF Actors, Web, Owes, ConfirmPC
<1>2. job[w] \in SessionIds /\ sessions[job[w]] # NoRow
  BY <1>1, SessionInHand
<1>3. /\ sessions'[job[w]].op = sessions[job[w]].op
      /\ sessions'[job[w]].rule = sessions[job[w]].rule
  BY <1>2 DEF RowsStay
<1> QED BY <1>3 DEF Owes

\* A rule that was missing is in the bin, asked for or owed after the step, too.
LEMMA MissingStays ==
    ASSUME Inv, [Next]_vars, crashes = 0, crashes' = 0, faults' =< 1, NEW r \in Rules,
           r \notin permanent',
           HasItem(r) \/ Asked(r) \/ \E w \in Workers : Owes(w, r)
    PROVE  HasItem(r)' \/ Asked(r)' \/ \E w \in Workers : Owes(w, r)'
<1>0. RowsStay /\ Grown /\ TablesType /\ Workers \subseteq Actors
  BY StepInv, WorldGrows DEF Inv, TypeOK, Actors, Web
<1>1. CASE HasItem(r) \/ Asked(r)
  BY <1>0, <1>1, StillAsked
<1>2. ASSUME NEW w \in Workers, Owes(w, r)
      PROVE  HasItem(r)' \/ Owes(w, r)'
  <2>1. pc[w] \in Owing /\ pc[w] \in ConfirmPC \cup RollbackPC
    BY <1>2 DEF Owes, Owing, ConfirmPC
  <2>2. CASE pc'[w] = pc[w] /\ job'[w] = job[w]
    BY <1>0, <1>2, <2>2, StillOwes DEF Grown
  <2>3. CASE AddRecycleItem(w)
    <3> DEFINE row == [status |-> "deleted", rule |-> sessions[job[w]].rule,
                       temp |-> sessions[job[w]].temp, session |-> job[w]]
    <3>1. PICK i \in ItemIds : items' = [items EXCEPT ![i] = row]
      BY <2>3 DEF AddRecycleItem
    <3>2. items'[i] = row
      BY <1>0, <3>1 DEF TablesType
    <3>3. items'[i] # NoRow /\ items'[i].rule = r
      BY <1>2, <3>2 DEF NoRow, Owes
    <3> QED BY <3>3 DEF HasItem
  <2>4. ~UndoPersist(w)
    <3> SUFFICES ASSUME UndoPersist(w) PROVE FALSE
      OBVIOUS
    <3>1. /\ pc[w] = "undoPersist" /\ faults = 1
          /\ sessions[job[w]].op = "delete" /\ sessions[job[w]].rule = r
      BY <1>2 DEF UndoPersist, Owes
    <3>2. PICK res \in Results(permanent, "add", r) : PermanentCall("add", r, res)
      BY <3>1 DEF UndoPersist, Inverse
    <3>3. permanent' = res.rules /\ faults' = 1 + res.fault
      BY <3>1, <3>2 DEF PermanentCall
    <3>4. res.fault # 1
      BY <3>3
    <3>5. \/ res.rules = permanent /\ r \in permanent
          \/ res.rules = Effect(permanent, "add", r)
      BY <3>4 DEF Results, Faulty, Refused
    <3> QED BY <3>3, <3>5 DEF Effect
  <2>5. ASSUME NEW a \in Actors, Alone(a), a # w
        PROVE  pc'[w] = pc[w] /\ job'[w] = job[w]
    BY <1>0, <2>5 DEF Alone
  <2>6. ASSUME NEW a \in Actors, Free(a)
        PROVE  pc'[w] = pc[w] /\ job'[w] = job[w]
    BY <2>1, <2>5, <2>6 DEF Free
  <2> QED BY <1>0, <2>2, <2>3, <2>4, <2>5, <2>6, WhoMoves
<1> QED BY <1>1, <1>2

\* A rule that a step takes from the permanent ones is owed, or was added.
LEMMA TakenIsOwed ==
    ASSUME Inv, AddRows, [Next]_vars, faults' =< 1, NEW r \in permanent, r \notin permanent'
    PROVE  HasItem(r)' \/ Asked(r)' \/ \E w \in Workers : Owes(w, r)'
<1>0. /\ RowsStay /\ TablesType /\ ControlType /\ Workers \subseteq Actors
      /\ faults \in Nat
  BY StepInv, BoundAssumption DEF Inv, TypeOK, WorldType, Actors, Web
<1>1. PICK w \in Workers : Persist(w) \/ UndoPersist(w)
  BY PermanentKept
<1> DEFINE s == job[w]
<1>2. /\ pc[w] \in ConfirmPC \cup RollbackPC /\ w \in Actors
  BY <1>0, <1>1 DEF Persist, UndoPersist, ConfirmPC
<1>3. /\ s \in SessionIds /\ sessions[s] # NoRow /\ sessions[s].op \in {"add", "delete"}
      /\ sessions'[s].op = sessions[s].op /\ sessions'[s].rule = sessions[s].rule
  BY <1>0, <1>2, SessionInHand DEF RowsStay
<1>4. ASSUME NEW op, NEW q, NEW res \in Results(permanent, op, q), permanent' = res.rules
      PROVE  op = "delete" /\ q = r /\ (res.ok \/ res.fault = 1)
  BY <1>4 DEF Results, Faulty, Effect
<1>5. CASE Persist(w)
  <2>1. PICK res \in Results(permanent, sessions[s].op, sessions[s].rule) :
            /\ PermanentCall(sessions[s].op, sessions[s].rule, res)
            /\ Goto(w, IF res.ok THEN AfterPersist(s) ELSE "undoPersist")
    BY <1>5 DEF Persist
  <2>2. /\ sessions[s].op = "delete" /\ sessions[s].rule = r
        /\ res.ok \/ res.fault = 1
    BY <1>4, <2>1 DEF PermanentCall
  <2>3. pc'[w] = (IF res.ok THEN AfterPersist(s) ELSE "undoPersist") /\ job'[w] = s
    BY <1>0, <1>2, <2>1 DEF Goto, ControlType
  <2>4. AfterPersist(s) = "addRecycleItem"
    BY <2>2 DEF AfterPersist, AfterSchedule
  <2>5. res.fault = 1 => faults' = 1
    BY <1>0, <2>1 DEF PermanentCall
  <2> QED BY <1>3, <2>2, <2>3, <2>4, <2>5 DEF Owes
<1>6. CASE UndoPersist(w)
  <2>1. Inverse(sessions[s].op) = "delete" /\ sessions[s].rule = r
    BY <1>4, <1>6 DEF UndoPersist, PermanentCall
  <2>2. HasItem(r) \/ Asked(r)
    BY <1>3, <2>1 DEF Inverse, AddRows
  <2> QED BY <1>0, <2>2, StillAsked
<1> QED BY <1>1, <1>5, <1>6

LEMMA KeptStep ==
    ASSUME KeptInv, [Next]_vars
    PROVE  Kept'
<1>0. Inv /\ AddRows /\ Kept /\ Grown
  BY WorldGrows DEF KeptInv
<1>1. crashes \in Nat /\ faults \in Nat /\ start.permanent \in SUBSET Rules
  BY <1>0, BoundAssumption DEF Inv, TypeOK, WorldType
<1> SUFFICES ASSUME crashes' = 0, faults' =< 1, NEW r \in start.permanent,
                    r \notin permanent'
             PROVE  HasItem(r)' \/ Asked(r)' \/ \E w \in Workers : Owes(w, r)'
  BY <1>0 DEF Kept, Grown
<1>2. crashes = 0 /\ faults =< 1 /\ r \in Rules
  BY <1>0, <1>1 DEF Grown
<1>3. CASE r \in permanent
  BY <1>0, <1>3, TakenIsOwed
<1>4. CASE r \notin permanent
  <2>1. HasItem(r) \/ Asked(r) \/ \E w \in Workers : Owes(w, r)
    BY <1>0, <1>2, <1>4 DEF Kept
  <2> QED BY <1>0, <1>2, <2>1, MissingStays
<1> QED BY <1>3, <1>4

\* Whatever requests, rollbacks and adapter calls interleave, over one session or
\* several, no rule is lost from the permanent ones without a row in the recycle
\* bin: of a run without a crash and with at most one call that fails on its own,
\* and where nobody asked to add that rule (confirm_apply).
THEOREM DeletionsAreKept == Spec => []DeletionsKept
<1>1. Init => KeptInv
  <2> SUFFICES ASSUME Init PROVE KeptInv
    OBVIOUS
  <2>1. Kept
    BY DEF Init, Kept
  <2> QED BY <2>1, InitInv, InitAddRows DEF KeptInv
<1>2. KeptInv /\ [Next]_vars => KeptInv'
  BY StepInv, AddRowsStep, KeptStep DEF KeptInv
<1>3. KeptInv => DeletionsKept
  <2> SUFFICES ASSUME KeptInv, Quiet, crashes = 0, faults =< 1,
                      NEW r \in start.permanent \ permanent
               PROVE  HasItem(r) \/ Asked(r)
    BY DEF DeletionsKept
  <2>1. \A w \in Workers : ~Owes(w, r)
    BY DEF Quiet, Owes, Actors, Web
  <2> QED BY <2>1 DEF KeptInv, Kept
<1> QED BY <1>1, <1>2, <1>3, PTL DEF Spec

=============================================================================
