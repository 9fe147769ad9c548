---------------------------- MODULE AgentProofs ----------------------------
(***************************************************************************)
(* Theorems about AgentChannel, for every number of rules, of calls under  *)
(* way, of failures and of changes of the host's firewall.                 *)
(***************************************************************************)
EXTENDS AgentChannel, TLAPS

----------------------------------------------------------------------------
(* Calls.                                                                  *)

Labels == Calling \cup {"idle", "finish"}

InProgress(c) ==
    c.stage \in {"detect", "compare", "replace", "adapt", "check", "use", "act"}

SameJob(c, d) ==
    /\ d.rule = c.rule /\ d.op = c.op /\ d.permanent = c.permanent

Known(c) ==
    c.stage \in {"compare", "replace", "adapt", "act"} => c.found \in Backends

\* What a caller is left with when its call ends.
Ended(k, c, d) ==
    IF k \in Late THEN d = NoCall
    ELSE /\ d.stage \in {"ok", "error"} /\ d.rule = None
         /\ d.stage = "ok" /\ c.rule = None => d.found \in Backends

\* A process waits for the call of its label.
Matches(p) ==
    /\ pc[p] \notin Calling => call[p] = NoCall
    /\ pc[p] \in Calling => call[p].stage # "none"
    /\ InProgress(call[p]) => SameJob(Request(p, pc[p]), call[p])
    /\ pc[p] = "snapshot" /\ call[p].stage = "ok" => call[p].found \in Backends
    /\ p = Poller => pc[p] \in {"idle", "snapshot"}

LateMatches(l) ==
    call[l] # NoCall => InProgress(call[l]) /\ call[l].rule \in Rules

CallInv ==
    /\ \A p \in Processes : Matches(p)
    /\ \A l \in Late : LateMatches(l)
    /\ \A k \in Callers : Known(call[k])

LEMMA NoCallTyped == NoCall \in CallType /\ NoCall.stage = "none"
                     /\ NoCall.rule = None /\ ~ InProgress(NoCall)
                     /\ Known(NoCall)
BY DEF NoCall, CallType, Stages, InProgress, Known

LEMMA Replaced ==
    ASSUME call \in [Callers -> CallType], NEW k \in Callers,
           NEW c \in CallType, call' = [call EXCEPT ![k] = c]
    PROVE  /\ call' \in [Callers -> CallType] /\ call'[k] = c
           /\ \A j \in Callers \ {k} : call'[j] = call[j]
OBVIOUS

\* A stage of the agent moves its own call and no other.
Moved(k) ==
    /\ call' \in [Callers -> CallType]
    /\ InProgress(call[k])
    /\ \A j \in Callers \ {k} : call'[j] = call[j]
    /\ Known(call'[k])
    /\ \/ InProgress(call'[k]) /\ SameJob(call[k], call'[k])
       \/ Ended(k, call[k], call'[k])

LEMMA AdvanceMoves ==
    ASSUME call \in [Callers -> CallType], NEW k \in Callers,
           NEW s \in {"check", "use", "replace", "adapt"}, Advance(k, s),
           InProgress(call[k]),
           s \in {"replace", "adapt"} => call[k].found \in Backends
    PROVE  Moved(k) /\ call'[k].stage = s /\ SameJob(call[k], call'[k])
           /\ call'[k].found = call[k].found
<1> DEFINE c == [call[k] EXCEPT !.stage = s]
<1>1. call[k] \in CallType OBVIOUS
<1>2. /\ c \in CallType /\ c.stage = s /\ SameJob(call[k], c)
      /\ c.found = call[k].found
    BY <1>1 DEF CallType, Stages, SameJob
<1>3. call' = [call EXCEPT ![k] = c] BY DEF Advance
<1> HIDE DEF c
<1>4. /\ call' \in [Callers -> CallType] /\ call'[k] = c
      /\ \A j \in Callers \ {k} : call'[j] = call[j]
    BY <1>2, <1>3, Replaced
<1> QED BY <1>2, <1>4 DEF Moved, Known, InProgress

LEMMA FoundMoves ==
    ASSUME call \in [Callers -> CallType], NEW k \in Callers,
           NEW s \in {"compare", "check", "act"}, NEW b \in Backends \cup {None},
           call' = [call EXCEPT ![k].stage = s, ![k].found = b],
           InProgress(call[k]), s = "check" \/ b \in Backends
    PROVE  Moved(k) /\ call'[k].stage = s /\ call'[k].found = b
           /\ SameJob(call[k], call'[k])
<1> DEFINE c == [call[k] EXCEPT !.stage = s, !.found = b]
<1>1. call[k] \in CallType OBVIOUS
<1>2. c \in CallType /\ c.stage = s /\ SameJob(call[k], c) /\ c.found = b
    BY <1>1 DEF CallType, Stages, SameJob
<1>3. call' = [call EXCEPT ![k] = c] OBVIOUS
<1> HIDE DEF c
<1>4. /\ call' \in [Callers -> CallType] /\ call'[k] = c
      /\ \A j \in Callers \ {k} : call'[j] = call[j]
    BY <1>2, <1>3, Replaced
<1> QED BY <1>2, <1>4 DEF Moved, Known, InProgress

LEMMA ReplyMoves ==
    ASSUME call \in [Callers -> CallType], NEW k \in Callers,
           NEW s \in {"ok", "error"}, Reply(k, s), InProgress(call[k]),
           s = "ok" => call[k].rule \in Rules
    PROVE  Moved(k) /\ (k \notin Late => call'[k].stage = s)
           /\ ~ InProgress(call'[k])
<1> DEFINE c == [NoCall EXCEPT !.stage = s]
           d == IF k \in Late THEN NoCall ELSE c
<1>1. c \in CallType /\ c.stage = s /\ c.rule = None
    BY DEF CallType, Stages, NoCall
<1>2. call' = [call EXCEPT ![k] = d] BY DEF Reply
<1>3. d \in CallType BY <1>1, NoCallTyped
<1>4. ~ InProgress(c) /\ Known(c) BY <1>1 DEF InProgress, Known
<1> HIDE DEF c
<1>5. /\ Known(d) /\ Ended(k, call[k], d) /\ ~ InProgress(d)
      /\ (k \notin Late => d.stage = s)
    BY <1>1, <1>4, NoCallTyped, NamesAssumption DEF Ended
<1> HIDE DEF d
<1>6. /\ call' \in [Callers -> CallType] /\ call'[k] = d
      /\ \A j \in Callers \ {k} : call'[j] = call[j]
    BY <1>2, <1>3, Replaced
<1> QED BY <1>5, <1>6 DEF Moved

LEMMA AgentMoves ==
    ASSUME TypeOK, CallInv, NEW k \in Callers, AgentStep(k)
    PROVE  Moved(k)
<1> USE DEF TypeOK
<1>0. call[k] \in CallType /\ Known(call[k]) /\ real \in Backends
      /\ adapter \in Backends
    BY DEF CallInv
<1>1. CASE Detect(k)
    BY <1>0, <1>1, FoundMoves DEF Detect, InProgress
<1>2. CASE Compare(k)
    <2>1. InProgress(call[k]) /\ call[k].found \in Backends
        BY <1>0, <1>2 DEF Compare, InProgress, Known
    <2>2. CASE call[k].found = detection
        BY <1>2, <2>1, <2>2, FoundMoves DEF Compare, Refreshed
    <2>3. CASE call[k].found # detection
        BY <1>2, <2>1, <2>3, AdvanceMoves DEF Compare
    <2> QED BY <2>2, <2>3
<1>3. CASE Adapt(k)
    BY <1>0, <1>3, FoundMoves DEF Adapt, InProgress, Refreshed
<1>8. CASE Replace(k)
    <2>1. InProgress(call[k]) /\ call[k].found \in Backends
        BY <1>0, <1>8 DEF Replace, InProgress, Known
    <2> QED BY <1>8, <2>1, AdvanceMoves DEF Replace
<1>4. CASE Check(k)
    <2>1. InProgress(call[k]) BY <1>4 DEF Check, InProgress
    <2>2. Advance(k, "use") \/ Reply(k, "error") BY <1>4 DEF Check
    <2> QED BY <2>1, <2>2, AdvanceMoves, ReplyMoves
<1>5. CASE Use(k)
    BY <1>0, <1>5, FoundMoves DEF Use, InProgress
<1>6. CASE Status(k)
    <2>1. InProgress(call[k]) /\ call[k].found \in Backends
          /\ call[k].rule = None
        BY <1>0, <1>6 DEF Status, InProgress, Known
    <2>2. CASE Reply(k, "error") BY <2>1, <2>2, ReplyMoves
    <2> DEFINE c == [NoCall EXCEPT !.stage = "ok", !.found = call[k].found]
               d == IF k \in Late THEN NoCall ELSE c
    <2>3. CASE call' = [call EXCEPT ![k] = d]
        <3>1. /\ c \in CallType /\ c.stage = "ok" /\ c.rule = None
              /\ c.found \in Backends
            BY <2>1 DEF CallType, Stages, NoCall
        <3>2. Known(c) BY <3>1 DEF Known
        <3> HIDE DEF c
        <3>3. d \in CallType /\ Known(d) /\ Ended(k, call[k], d)
            BY <3>1, <3>2, NoCallTyped DEF Ended
        <3> HIDE DEF d
        <3>4. /\ call' \in [Callers -> CallType] /\ call'[k] = d
              /\ \A j \in Callers \ {k} : call'[j] = call[j]
            BY <2>3, <3>3, Replaced
        <3> QED BY <2>1, <3>3, <3>4 DEF Moved
    <2> QED BY <1>6, <2>2, <2>3 DEF Status
<1>7. CASE Act(k) \/ Refuse(k) \/ Fail(k)
    <2>1. /\ InProgress(call[k]) /\ call[k].rule \in Rules
          /\ Reply(k, "ok") \/ Reply(k, "error")
        BY <1>0, <1>7 DEF Act, Refuse, Fail, InProgress, CallType
    <2> QED BY <2>1, ReplyMoves
<1> QED BY <1>1, <1>2, <1>3, <1>4, <1>5, <1>6, <1>7, <1>8 DEF AgentStep

----------------------------------------------------------------------------
(* The handlers.                                                           *)

\* A process goes on to another label, alone.
Went(p, label) ==
    /\ label \in Labels
    /\ p = Poller => label \in {"idle", "snapshot"}
    /\ Goto(p, label)

LEMMA RequestTyped ==
    ASSUME NEW p \in Processes, NEW label \in Calling,
           p = Poller => label = "snapshot"
    PROVE  /\ Request(p, label) \in CallType /\ InProgress(Request(p, label))
           /\ Request(p, label).stage = "detect"
           /\ Request(p, label).rule \in {p, None}
           /\ Request(p, label).rule = None <=> label = "snapshot"
           /\ label \in {"persist", "unpersist"}
              <=> Request(p, label).permanent
           /\ label \in {"trial", "persist"}
              => Request(p, label).op = TrialOp(p)
           /\ label \in {"unpersist", "rollback"}
              => Request(p, label).op = Inverse(p)
<1>1. CASE label = "snapshot"
    BY <1>1, NamesAssumption
       DEF Request, NoCall, CallType, Stages, InProgress
<1>2. CASE label # "snapshot"
    <2>1. p \in Rules BY <1>2 DEF Processes
    <2>2. TrialOp(p) \in {"add", "delete"} /\ Inverse(p) \in {"add", "delete"}
        BY DEF TrialOp, Inverse
    <2> DEFINE op == CASE label \in {"trial", "persist"} -> TrialOp(p)
                       [] label \in {"unpersist", "rollback"} -> Inverse(p)
                       [] OTHER -> "delete"
    <2>3. /\ op \in {"add", "delete"}
          /\ label \in {"trial", "persist"} => op = TrialOp(p)
          /\ label \in {"unpersist", "rollback"} => op = Inverse(p)
        BY <2>2
    <2> HIDE DEF op
    <2> DEFINE lasts == label \in {"persist", "unpersist"}
               c == [stage |-> "detect", rule |-> p, op |-> op,
                     permanent |-> lasts, found |-> None]
    <2>4. Request(p, label) = c BY <1>2 DEF Request, op
    <2>5. lasts \in BOOLEAN OBVIOUS
    <2>6. lasts <=> label \in {"persist", "unpersist"} OBVIOUS
    <2> HIDE DEF lasts
    <2>7. /\ c.stage = "detect" /\ c.rule = p /\ c.op = op
          /\ c.permanent = lasts
        OBVIOUS
    <2>8. c \in CallType BY <2>1, <2>3, <2>5 DEF CallType, Stages
    <2> HIDE DEF c
    <2>9. InProgress(c) BY <2>7 DEF InProgress
    <2>10. c.permanent <=> label \in {"persist", "unpersist"}
        BY <2>6, <2>7
    <2> QED BY <1>2, <2>1, <2>3, <2>4, <2>7, <2>8, <2>9, <2>10,
               NamesAssumption
<1> QED BY <1>1, <1>2

LEMMA WentShape ==
    ASSUME TypeOK, NEW p \in Processes, NEW label, Went(p, label)
    PROVE  /\ pc' \in [Processes -> Labels]
           /\ pc'[p] = label /\ \A q \in Processes \ {p} : pc'[q] = pc[q]
           /\ call' \in [Callers -> CallType]
           /\ call'[p] = IF label \in Calling THEN Request(p, label) ELSE NoCall
           /\ \A k \in Callers \ {p} : call'[k] = call[k]
<1>1. p \in Callers BY DEF Callers
<1>2. /\ pc' \in [Processes -> Labels]
      /\ pc'[p] = label /\ \A q \in Processes \ {p} : pc'[q] = pc[q]
    BY DEF Went, Goto, TypeOK, Labels
<1> DEFINE c == IF label \in Calling THEN Request(p, label) ELSE NoCall
<1>3. c \in CallType
    BY RequestTyped, NoCallTyped DEF Went, Calling
<1>4. call' = [call EXCEPT ![p] = c] BY DEF Went, Goto
<1> HIDE DEF c
<1>5. /\ call' \in [Callers -> CallType] /\ call'[p] = c
      /\ \A k \in Callers \ {p} : call'[k] = call[k]
    BY <1>1, <1>3, <1>4, Replaced DEF TypeOK
<1> QED BY <1>2, <1>5 DEF c

LEMMA WentInv ==
    ASSUME TypeOK, CallInv, NEW p \in Processes, NEW label, Went(p, label)
    PROVE  CallInv'
<1> DEFINE c == IF label \in Calling THEN Request(p, label) ELSE NoCall
<1>1. /\ pc'[p] = label /\ \A q \in Processes \ {p} : pc'[q] = pc[q]
      /\ call'[p] = c /\ \A k \in Callers \ {p} : call'[k] = call[k]
    BY WentShape
<1>2. CASE label \in Calling
    <2>1. /\ c = Request(p, label) /\ c.stage = "detect" /\ Known(c)
        BY <1>2, RequestTyped DEF Went, Known, Calling
    <2>2. Matches(p)'
        BY <1>1, <1>2, <2>1 DEF Matches, SameJob, Went, Request
    <2> QED BY <1>1, <2>1, <2>2, NamesAssumption
            DEF CallInv, Matches, LateMatches, Callers
<1>3. CASE label \notin Calling
    <2>1. c = NoCall BY <1>3
    <2>2. Matches(p)' /\ Known(call'[p])
        BY <1>1, <1>3, <2>1, NoCallTyped DEF Matches, Went, Calling
    <2> QED BY <1>1, <2>2, NamesAssumption
            DEF CallInv, Matches, LateMatches, Callers
<1> QED BY <1>2, <1>3

\* A step of a handler is one of its process; only a refused expiry stays.
HandlerStep(p) ==
    \/ Receive(p)
    \/ p = Poller /\ Poll
    \/ p \in Rules /\ (Handle(p) \/ Answer(p))

LEMMA HandlersGo ==
    ASSUME NEW p \in Processes, HandlerStep(p)
    PROVE  (\E label : Went(p, label)) \/ UNCHANGED <<pc, call>>
<1> USE DEF Went, Labels, Calling
<1>1. CASE Receive(p)
    <2>1. CASE StatusTold(p) BY <2>1 DEF StatusTold
    <2>2. CASE NotTold(p) BY <2>2 DEF NotTold
    <2> QED BY <1>1, <2>1, <2>2 DEF Receive
<1>2. CASE p = Poller /\ Poll BY <1>2 DEF Poll
<1>3. CASE p \in Rules /\ Handle(p)
    <2>0. p # Poller BY <1>3, NamesAssumption
    <2>1. CASE BeginTrial(p) BY <2>0, <2>1 DEF BeginTrial
    <2>2. CASE Confirm(p) BY <2>0, <2>2 DEF Confirm
    <2>3. CASE Rollback(p) BY <2>0, <2>3 DEF Rollback
    <2>4. CASE Expire(p) BY <2>0, <2>4 DEF Expire
    <2> QED BY <1>3, <2>1, <2>2, <2>3, <2>4 DEF Handle
<1>4. CASE p \in Rules /\ Answer(p)
    <2>0. p # Poller BY <1>4, NamesAssumption
    <2>1. CASE TrialAnswered(p) BY <2>0, <2>1 DEF TrialAnswered
    <2>2. CASE PersistAnswered(p) BY <2>0, <2>2 DEF PersistAnswered
    <2>3. CASE UnpersistAnswered(p) BY <2>0, <2>3 DEF UnpersistAnswered
    <2>4. CASE FinishConfirm(p) BY <2>0, <2>4 DEF FinishConfirm
    <2>5. CASE RollbackAnswered(p) BY <2>0, <2>5 DEF RollbackAnswered
    <2>6. CASE ExpireAnswered(p) BY <2>0, <2>6 DEF ExpireAnswered
    <2> QED BY <1>4, <2>1, <2>2, <2>3, <2>4, <2>5, <2>6 DEF Answer
<1> QED BY <1>1, <1>2, <1>3, <1>4 DEF HandlerStep

LEMMA StepKinds ==
    ASSUME Next
    PROVE  \/ \E k \in Callers : AgentStep(k)
           \/ \E p \in Processes : HandlerStep(p)
           \/ \E p \in Processes : Hang(p) \/ TimeOut(p)
           \/ \E p \in Processes : GiveUp(p)
           \/ AgentRestart \/ Switch
BY DEF Next, HandlerStep, Processes

LEMMA AgentKeepsWeb ==
    ASSUME NEW k \in Callers, AgentStep(k)
    PROVE  UNCHANGED <<remembered, pc, session, expiry, tried, switches, misled>>
BY DEF AgentStep, Detect, Compare, Replace, Adapt, Check, Use, Status, Act,
       Refuse, Fail, web, bounds, history

LEMMA HangShape ==
    ASSUME TypeOK, CallInv, NEW p \in Processes, Hang(p)
    PROVE  /\ InProgress(call[p]) /\ call[p].stage = "act"
           /\ call[p].found = "firewalld"
           /\ call' \in [Callers -> CallType]
           /\ call'[p].stage = "hung" /\ call'[p].rule = None
           /\ \A k \in Callers \ {p} : call'[k] = call[k]
           /\ UNCHANGED <<agent, web, tried, switches, crossed, misled>>
<1> DEFINE d == [NoCall EXCEPT !.stage = "hung"]
<1>1. d \in CallType /\ d.stage = "hung" /\ d.rule = None
    BY DEF NoCall, CallType, Stages
<1>2. p \in Callers BY DEF Callers
<1>3. call' = [call EXCEPT ![p] = d] BY DEF Hang
<1> HIDE DEF d
<1>4. /\ call' \in [Callers -> CallType] /\ call'[p] = d
      /\ \A k \in Callers \ {p} : call'[k] = call[k]
    BY <1>1, <1>2, <1>3, Replaced DEF TypeOK
<1> QED BY <1>1, <1>4 DEF Hang, InProgress

LEMMA TimeOutShape ==
    ASSUME TypeOK, CallInv, NEW p \in Processes, TimeOut(p)
    PROVE  /\ call[p].stage = "hung"
           /\ call' \in [Callers -> CallType]
           /\ call'[p].stage = "error"
           /\ \A k \in Callers \ {p} : call'[k] = call[k]
           /\ UNCHANGED <<host, agent, web, bounds, history>>
<1> DEFINE d == [call[p] EXCEPT !.stage = "error"]
<1>1. p \in Callers BY DEF Callers
<1>2. d \in CallType /\ d.stage = "error"
    BY <1>1 DEF TypeOK, CallType, Stages
<1>3. call' = [call EXCEPT ![p] = d] BY DEF TimeOut, Advance
<1> HIDE DEF d
<1>4. /\ call' \in [Callers -> CallType] /\ call'[p] = d
      /\ \A k \in Callers \ {p} : call'[k] = call[k]
    BY <1>1, <1>2, <1>3, Replaced DEF TypeOK
<1> QED BY <1>2, <1>4 DEF TimeOut

LEMMA GiveUpShape ==
    ASSUME TypeOK, CallInv, NEW p \in Processes, GiveUp(p)
    PROVE  \E l \in Late :
             /\ call[l] = NoCall /\ InProgress(call[p]) /\ call[p].rule \in Rules
             /\ call' \in [Callers -> CallType]
             /\ call'[l] = call[p]
             /\ call'[p].stage = "error" /\ call'[p].rule = call[p].rule
             /\ \A k \in Callers \ {l, p} : call'[k] = call[k]
             /\ UNCHANGED web
<1>1. PICK l \in Late :
         /\ call[l] = NoCall
         /\ call' = [call EXCEPT ![l] = call[p], ![p].stage = "error"]
    BY DEF GiveUp
<1>2. l # p /\ l \in Callers /\ p \in Callers
    BY NamesAssumption DEF Callers
<1>3. call[p] \in CallType BY <1>2 DEF TypeOK
<1>4. InProgress(call[p]) /\ call[p].rule \in Rules
    BY <1>3 DEF GiveUp, InProgress, CallType, Stages
<1> DEFINE d == [call[p] EXCEPT !.stage = "error"]
<1>5. d \in CallType /\ d.stage = "error" /\ d.rule = call[p].rule
    BY <1>3 DEF CallType, Stages
<1>6. call' = [call EXCEPT ![l] = call[p], ![p] = d]
    BY <1>1, <1>2
<1> HIDE DEF d
<1>7. /\ call' \in [Callers -> CallType]
      /\ call'[l] = call[p] /\ call'[p] = d
      /\ \A k \in Callers \ {l, p} : call'[k] = call[k]
    BY <1>2, <1>3, <1>5, <1>6 DEF TypeOK
<1> QED BY <1>1, <1>4, <1>5, <1>7 DEF GiveUp

LEMMA RestartShape ==
    ASSUME TypeOK, CallInv, AgentRestart
    PROVE  /\ call' \in [Callers -> CallType]
           /\ \A k \in Callers : ~ InProgress(call'[k])
           /\ \A l \in Late : call'[l] = NoCall
           /\ \A p \in Processes :
                \/ call'[p] = call[p]
                \/ call[p] # NoCall /\ call'[p].stage = "error"
           /\ UNCHANGED <<web, misled>>
<1> DEFINE e == [NoCall EXCEPT !.stage = "error"]
<1>1. e \in CallType /\ e.stage = "error" /\ ~ InProgress(e)
    BY DEF NoCall, CallType, Stages, InProgress
<1> HIDE DEF e
<1>2. PICK lost \in SUBSET Waiting :
         /\ \A p \in Waiting \ lost : call[p].stage \in {"ok", "error"}
         /\ call' = [k \in Callers |->
                       IF k \in lost THEN e
                       ELSE IF k \in Waiting THEN call[k] ELSE NoCall]
    BY DEF AgentRestart, e
<1>3. \A p \in Waiting \ lost : ~ InProgress(call[p])
    BY <1>2 DEF InProgress
<1>4. Waiting \subseteq Processes /\ Waiting \subseteq Callers
      /\ Late \subseteq Callers
    BY DEF Waiting, Callers
<1>5. call' \in [Callers -> CallType]
    BY <1>1, <1>2, <1>4, NoCallTyped DEF TypeOK
<1>6. \A k \in Callers : ~ InProgress(call'[k])
    BY <1>1, <1>2, <1>3, <1>4, NoCallTyped
<1>7. \A l \in Late : call'[l] = NoCall
    BY <1>2, <1>4, NamesAssumption
<1>8. \A p \in Processes : \/ call'[p] = call[p]
                           \/ call[p] # NoCall /\ call'[p].stage = "error"
    BY <1>1, <1>2 DEF Waiting, Callers
<1>9. UNCHANGED <<web, misled>> BY DEF AgentRestart
<1> QED BY <1>5, <1>6, <1>7, <1>8, <1>9

LEMMA CallInvInit == Init => CallInv
BY NoCallTyped DEF Init, CallInv, Matches, LateMatches, Callers, Calling,
                   Processes

LEMMA CallInvStep ==
    ASSUME TypeOK, CallInv, [Next]_vars
    PROVE  CallInv'
<1>1. CASE \E k \in Callers : AgentStep(k)
    <2>1. PICK k \in Callers : AgentStep(k) BY <1>1
    <2>2. Moved(k) /\ pc' = pc BY <2>1, AgentMoves, AgentKeepsWeb
    <2>3. k \in Processes => Matches(k)'
        <3> HAVE k \in Processes
        <3>1. k \notin Late BY NamesAssumption
        <3>2. pc[k] \in Calling
            BY <2>2, NoCallTyped DEF CallInv, Matches, Moved
        <3>3. CASE InProgress(call'[k]) /\ SameJob(call[k], call'[k])
            BY <2>2, <3>2, <3>3
               DEF CallInv, Matches, Moved, SameJob, InProgress
        <3>4. CASE Ended(k, call[k], call'[k])
            <4>1. /\ call'[k].stage \in {"ok", "error"}
                  /\ call'[k].stage = "ok" /\ call[k].rule = None
                     => call'[k].found \in Backends
                BY <3>1, <3>4 DEF Ended
            <4>2. pc[k] = "snapshot" => call[k].rule = None
                BY <2>2 DEF CallInv, Matches, Moved, SameJob, Request, NoCall
            <4> QED BY <2>2, <3>2, <4>1, <4>2
                    DEF CallInv, Matches, InProgress
        <3> QED BY <2>2, <3>3, <3>4 DEF Moved
    <2>4. k \in Late => LateMatches(k)'
        BY <2>2, NoCallTyped
           DEF CallInv, LateMatches, Moved, Ended, SameJob
    <2>5. \A p \in Processes \ {k} : Matches(p)'
        BY <2>2 DEF CallInv, Matches, Moved, Callers
    <2>6. \A l \in Late \ {k} : LateMatches(l)'
        BY <2>2 DEF CallInv, LateMatches, Moved, Callers
    <2>7. \A j \in Callers : Known(call'[j])
        BY <2>2 DEF CallInv, Moved
    <2> QED BY <2>3, <2>4, <2>5, <2>6, <2>7 DEF CallInv
<1>2. CASE \E p \in Processes : HandlerStep(p)
    <2>1. PICK p \in Processes : HandlerStep(p) BY <1>2
    <2>2. CASE \E label : Went(p, label) BY <2>2, WentInv
    <2>3. CASE UNCHANGED <<pc, call>>
        BY <2>3 DEF CallInv, Matches, LateMatches
    <2> QED BY <2>1, <2>2, <2>3, HandlersGo
<1>3. CASE \E p \in Processes : GiveUp(p)
    <2>1. PICK p \in Processes : GiveUp(p) BY <1>3
    <2>2. PICK l \in Late :
             /\ InProgress(call[p]) /\ call[p].rule \in Rules
             /\ call'[l] = call[p]
             /\ call'[p].stage = "error"
             /\ \A k \in Callers \ {l, p} : call'[k] = call[k]
             /\ pc' = pc
        BY <2>1, GiveUpShape DEF web
    <2>3. l \notin Processes /\ p \notin Late BY NamesAssumption
    <2>4. Matches(p)'
        BY <2>2, NoCallTyped DEF CallInv, Matches, InProgress
    <2>5. \A q \in Processes \ {p} : Matches(q)'
        BY <2>2, <2>3 DEF CallInv, Matches, Callers
    <2>6. \A m \in Late : LateMatches(m)'
        BY <2>2, <2>3 DEF CallInv, LateMatches, Callers
    <2>7. \A k \in Callers : Known(call'[k])
        BY <2>2, <2>3 DEF CallInv, Known, Callers
    <2> QED BY <2>4, <2>5, <2>6, <2>7 DEF CallInv
<1>4. CASE AgentRestart
    <2>1. pc' = pc BY <1>4, RestartShape DEF web
    <2>2. \A p \in Processes : Matches(p)'
        BY <1>4, <2>1, RestartShape
           DEF CallInv, Matches, Callers
    <2>3. \A l \in Late : LateMatches(l)'
        BY <1>4, RestartShape DEF LateMatches
    <2>4. \A k \in Callers : Known(call'[k])
        BY <1>4, RestartShape DEF Known, InProgress
    <2> QED BY <2>2, <2>3, <2>4 DEF CallInv
<1>5. CASE Switch \/ UNCHANGED vars
    BY <1>5 DEF Switch, vars, web, CallInv, Matches, LateMatches
<1>6. CASE \E p \in Processes : Hang(p) \/ TimeOut(p)
    <2>1. PICK p \in Processes : Hang(p) \/ TimeOut(p) BY <1>6
    <2>2. /\ call[p].stage # "none" /\ call'[p].stage \in {"hung", "error"}
          /\ \A k \in Callers \ {p} : call'[k] = call[k]
          /\ pc' = pc
        BY <2>1, HangShape, TimeOutShape DEF web
    <2>3. Matches(p)' /\ Known(call'[p])
        BY <2>2, NoCallTyped DEF CallInv, Matches, InProgress, Known
    <2>4. \A q \in Processes \ {p} : Matches(q)'
        BY <2>2 DEF CallInv, Matches, Callers
    <2>5. \A l \in Late : LateMatches(l)'
        BY <2>2, NamesAssumption DEF CallInv, LateMatches, Callers
    <2>6. \A k \in Callers : Known(call'[k])
        BY <2>2, <2>3 DEF CallInv
    <2> QED BY <2>3, <2>4, <2>5, <2>6 DEF CallInv
<1> QED BY <1>1, <1>2, <1>3, <1>4, <1>5, <1>6, StepKinds

----------------------------------------------------------------------------
(* Types.                                                                  *)

HostTyped ==
    /\ real \in Backends /\ detection \in Backends /\ adapter \in Backends
    /\ runtime \subseteq Rules /\ kept \in [Managed -> SUBSET Rules]

WebTyped ==
    /\ remembered \in Backends
    /\ pc \in [Processes -> Labels]
    /\ session \in [Rules -> {"none", "pending", "confirmed", "rolled_back",
                              "rollback_failed"}]
    /\ expiry \in [Rules -> {"none", "active", "expired", "expiration_failed"}]
    /\ tried \subseteq Rules /\ switches \in 0..MaxSwitches
    /\ misled \subseteq Rules

CountsTyped ==
    /\ faults \in 0..MaxFaults
    /\ crossed \in BOOLEAN /\ trouble \in [Rules -> 0..2]

LEMMA TypeParts ==
    ASSUME HostTyped', call' \in [Callers -> CallType], WebTyped', CountsTyped'
    PROVE  TypeOK'
BY DEF TypeOK, HostTyped, WebTyped, CountsTyped, Labels

LEMMA TypeInit == Init => TypeOK
<1> SUFFICES ASSUME Init PROVE TypeOK
    OBVIOUS
<1>1. HomeRules("firewalld") \subseteq Rules /\ HomeRules("ufw") \subseteq Rules
    BY DEF HomeRules
<1>2. kept \in [Managed -> SUBSET Rules]
    BY <1>1 DEF Init, HomeRules
<1>3. kept["firewalld"] \subseteq Rules BY <1>2 DEF Managed
<1>4. runtime \subseteq Rules BY <1>3 DEF Init
<1>5. call \in [Callers -> CallType] BY NoCallTyped DEF Init
<1>6. 0 \in 0..MaxSwitches /\ 0 \in 0..MaxFaults /\ 0 \in 0..2
    BY BoundsAssumption
<1>7. /\ switches \in 0..MaxSwitches /\ faults \in 0..MaxFaults
      /\ trouble \in [Rules -> 0..2]
    BY <1>6 DEF Init
<1>8. /\ real \in Backends /\ detection \in Backends /\ adapter \in Backends
      /\ remembered \in Backends /\ tried \subseteq Rules
      /\ misled \subseteq Rules
    BY RulesAssumption DEF Init
<1>9. crossed \in BOOLEAN BY DEF Init
<1>10. /\ pc \in [Processes -> Calling \cup {"idle", "finish"}]
       /\ session \in [Rules -> {"none", "pending", "confirmed", "rolled_back",
                                 "rollback_failed"}]
       /\ expiry \in [Rules -> {"none", "active", "expired",
                                "expiration_failed"}]
    BY DEF Init
<1> QED BY <1>2, <1>4, <1>5, <1>7, <1>8, <1>9, <1>10 DEF TypeOK

\* What a call of a rule changes, and how.
LEMMA ChangeShape ==
    ASSUME TypeOK, CallInv, NEW k \in Callers, call[k].stage = "act",
           call[k].rule # None, Reachable(call[k]), Changed(call[k])
    PROVE  LET c == call[k]
               set == IF c.found = "firewalld" /\ ~ c.permanent
                      THEN runtime ELSE kept[c.found]
               new == Effect(set, c.op, c.rule)
           IN  /\ c.found \in Managed /\ c.rule \in Rules
               /\ set \subseteq Rules /\ new \subseteq Rules
               /\ real' = real
               /\ runtime' \subseteq Rules /\ kept' \in [Managed -> SUBSET Rules]
               /\ IF c.found = "firewalld" /\ ~ c.permanent
                  THEN runtime' = new /\ kept' = kept
                  ELSE /\ runtime' = runtime /\ kept'[c.found] = new
                       /\ \A b \in Managed \ {c.found} : kept'[b] = kept[b]
<1> DEFINE c == call[k]
           set == IF c.found = "firewalld" /\ ~ c.permanent
                  THEN runtime ELSE kept[c.found]
           new == Effect(set, c.op, c.rule)
<1>1. c \in CallType BY DEF TypeOK
<1>2. c.found \in Managed BY DEF Reachable, Managed
<1>3. c.rule \in Rules BY <1>1 DEF CallType
<1>4. set \subseteq Rules BY <1>2 DEF TypeOK
<1>5. new \subseteq Rules BY <1>3, <1>4 DEF Effect
<1>6. new = Effect(Target(c), c.op, c.rule) BY DEF Target
<1>7. CASE c.found = "firewalld" /\ ~ c.permanent
    BY <1>2, <1>3, <1>4, <1>5, <1>6, <1>7 DEF Changed, TypeOK
<1>8. CASE ~ (c.found = "firewalld" /\ ~ c.permanent)
    <2>1. /\ kept' = [kept EXCEPT ![c.found] = new] /\ real' = real
          /\ runtime' = runtime
        BY <1>6, <1>8 DEF Changed
    <2> QED BY <1>2, <1>3, <1>4, <1>5, <1>8, <2>1 DEF TypeOK
<1> QED BY <1>7, <1>8

LEMMA HostStep ==
    ASSUME TypeOK, CallInv, [Next]_vars
    PROVE  HostTyped'
<1> USE DEF HostTyped
<1>0. HostTyped BY DEF TypeOK
<1>1. CASE \E k \in Callers : AgentStep(k)
    <2>1. PICK k \in Callers : AgentStep(k) BY <1>1
    <2>2. Known(call[k]) BY DEF CallInv
    <2>3. CASE Detect(k) \/ Compare(k) \/ Check(k) \/ Use(k) \/ Status(k)
               \/ Refuse(k)
        BY <1>0, <2>3 DEF Detect, Compare, Check, Use, Status, Refuse, host,
                          agent
    <2>4. CASE Replace(k)
        BY <1>0, <2>2, <2>4 DEF Replace, host, Known
    <2>5. CASE Adapt(k)
        BY <1>0, <2>2, <2>5 DEF Adapt, host, Known
    <2>6. CASE Act(k)
        BY <1>0, <2>6, ChangeShape DEF Act, agent
    <2>7. CASE Fail(k)
        <3>1. CASE Changed(call[k])
            BY <1>0, <2>7, <3>1, ChangeShape DEF Fail, agent
        <3>2. CASE UNCHANGED host
            BY <1>0, <2>7, <3>2 DEF Fail, agent, host
        <3> QED BY <2>7, <3>1, <3>2 DEF Fail
    <2> QED BY <2>1, <2>3, <2>4, <2>5, <2>6, <2>7 DEF AgentStep
<1>2. CASE \E p \in Processes : HandlerStep(p)
    <2>1. UNCHANGED <<host, agent>>
        BY <1>2 DEF HandlerStep, Receive, StatusTold, NotTold, Poll, Handle,
                    BeginTrial, Confirm, Rollback, Expire, Answer,
                    TrialAnswered, PersistAnswered, UnpersistAnswered,
                    FinishConfirm, RollbackAnswered, ExpireAnswered, Answered
    <2> QED BY <1>0, <2>1 DEF host, agent
<1>3. CASE (\E p \in Processes : GiveUp(p)) \/ AgentRestart
    BY <1>0, <1>3 DEF GiveUp, AgentRestart, host, agent
<1>4. CASE Switch
    <2>1. kept["firewalld"] \subseteq Rules BY <1>0 DEF Managed
    <2> QED BY <1>0, <1>4, <2>1 DEF Switch, agent
<1>5. CASE UNCHANGED vars BY <1>0, <1>5 DEF vars, host, agent
<1>6. CASE \E p \in Processes : Hang(p)
    <2>1. PICK p \in Processes : Hang(p) BY <1>6
    <2>2. p \in Callers BY DEF Callers
    <2>3. UNCHANGED agent BY <2>1, HangShape
    <2>4. CASE call[p].rule # None /\ Changed(call[p])
        BY <1>0, <2>1, <2>2, <2>3, <2>4, ChangeShape DEF Hang, agent
    <2>5. CASE UNCHANGED host
        BY <1>0, <2>3, <2>5 DEF agent, host
    <2> QED BY <2>1, <2>4, <2>5 DEF Hang
<1>7. CASE \E p \in Processes : TimeOut(p)
    BY <1>0, <1>7, TimeOutShape DEF host, agent
<1> QED BY <1>1, <1>2, <1>3, <1>4, <1>5, <1>6, <1>7, StepKinds

\* What the handlers write.
LEMMA WebStep ==
    ASSUME TypeOK, CallInv, [Next]_vars
    PROVE  WebTyped'
<1>0. WebTyped BY DEF TypeOK, WebTyped, Labels
<1>1. CASE \E k \in Callers : AgentStep(k)
    BY <1>0, <1>1, AgentKeepsWeb DEF WebTyped
<1>2. CASE \E p \in Processes : HandlerStep(p)
    <2>1. PICK p \in Processes : HandlerStep(p) BY <1>2
    <2>2. pc' \in [Processes -> Labels]
        BY <1>0, <2>1, HandlersGo, WentShape DEF WebTyped
    <2>3. switches' = switches
        BY <2>1 DEF HandlerStep, Receive, StatusTold, NotTold, Poll, Handle,
                    BeginTrial, Confirm, Rollback, Expire, Answer,
                    TrialAnswered, PersistAnswered, UnpersistAnswered,
                    FinishConfirm, RollbackAnswered, ExpireAnswered, Answered,
                    bounds
    <2>4. CASE StatusTold(p)
        <3>1. call[p].found \in Backends
            BY <2>4 DEF StatusTold, Answered, CallInv, Matches
        <3> QED BY <1>0, <2>2, <2>4, <3>1
                DEF StatusTold, Answered, bounds, WebTyped
    <2>5. CASE NotTold(p)
        BY <1>0, <2>2, <2>5 DEF NotTold, Answered, bounds, WebTyped
    <2>6. CASE Poll
        BY <1>0, <2>2, <2>6 DEF Poll, bounds, history, WebTyped
    <2>7. CASE p \in Rules /\ Handle(p)
        BY <1>0, <2>2, <2>7 DEF Handle, BeginTrial, Confirm, Rollback, Expire,
              Misled, bounds, history, WebTyped
    <2>8. CASE p \in Rules /\ Answer(p)
        BY <1>0, <2>2, <2>8 DEF Answer, TrialAnswered, PersistAnswered,
              UnpersistAnswered, FinishConfirm, RollbackAnswered,
              ExpireAnswered, Answered, Misled, bounds, WebTyped
    <2> QED BY <2>1, <2>4, <2>5, <2>6, <2>7, <2>8 DEF HandlerStep, Receive
<1>3. CASE (\E p \in Processes : GiveUp(p)) \/ AgentRestart
    BY <1>0, <1>3 DEF GiveUp, AgentRestart, web, WebTyped
<1>4. CASE Switch
    BY <1>0, <1>4, BoundsAssumption DEF Switch, web, history, WebTyped
<1>5. CASE UNCHANGED vars
    BY <1>0, <1>5 DEF vars, web, bounds, history, WebTyped
<1>6. CASE \E p \in Processes : Hang(p) \/ TimeOut(p)
    BY <1>0, <1>6, HangShape, TimeOutShape DEF web, bounds, history, WebTyped
<1> QED BY <1>1, <1>2, <1>3, <1>4, <1>5, <1>6, StepKinds

\* Trouble is counted, never forgotten.
Counts ==
    /\ trouble' \in [Rules -> 0..2]
    /\ \A r \in Rules : trouble[r] =< trouble'[r]
    /\ crossed => crossed'

LEMMA CountedShape ==
    ASSUME TypeOK, NEW k \in Callers, Counted(k)
    PROVE  /\ trouble' \in [Rules -> 0..2]
           /\ \A r \in Rules : trouble[r] =< trouble'[r]
           /\ \A r \in Rules : r = call[k].rule
                               => trouble'[r] = IF trouble[r] < 2
                                                THEN trouble[r] + 1 ELSE 2
           /\ \A r \in Rules : r # call[k].rule => trouble'[r] = trouble[r]
BY DEF TypeOK, Counted

LEMMA CountsStep ==
    ASSUME TypeOK, CallInv, [Next]_vars
    PROVE  CountsTyped' /\ Counts
<1> USE DEF CountsTyped, Counts
<1>0. CountsTyped BY DEF TypeOK
<1>1. CASE \E k \in Callers : AgentStep(k)
    <2>1. PICK k \in Callers : AgentStep(k) BY <1>1
    <2>2. Known(call[k]) BY DEF CallInv
    <2>3. CASE \/ Detect(k) \/ Compare(k) \/ Replace(k) \/ Use(k) \/ Status(k)
               \/ Act(k)
        BY <1>0, <2>3 DEF Detect, Compare, Replace, Use, Status, Act, bounds,
                          history
    <2>5. CASE Adapt(k)
        BY <1>0, <2>5 DEF Adapt, bounds
    <2>6. CASE Check(k) \/ Refuse(k)
        <3>1. Counted(k) \/ UNCHANGED trouble
            BY <2>6 DEF Check, Refuse
        <3> QED BY <1>0, <2>6, <3>1, CountedShape DEF Check, Refuse, bounds
    <2>7. CASE Fail(k)
        BY <1>0, <2>7, CountedShape, BoundsAssumption DEF Fail
    <2> QED BY <2>1, <2>3, <2>5, <2>6, <2>7 DEF AgentStep
<1>2. CASE \E p \in Processes : HandlerStep(p)
    <2>1. UNCHANGED <<faults, crossed, trouble>>
        BY <1>2 DEF HandlerStep, Receive, StatusTold, NotTold, Poll, Handle,
                    BeginTrial, Confirm, Rollback, Expire, Answer,
                    TrialAnswered, PersistAnswered, UnpersistAnswered,
                    FinishConfirm, RollbackAnswered, ExpireAnswered, Answered,
                    bounds, history
    <2> QED BY <1>0, <2>1
<1>3. CASE \E p \in Processes : GiveUp(p)
    BY <1>0, <1>3, BoundsAssumption DEF GiveUp
<1>4. CASE AgentRestart
    BY <1>0, <1>4, BoundsAssumption DEF AgentRestart
<1>5. CASE Switch BY <1>0, <1>5 DEF Switch, history
<1>6. CASE UNCHANGED vars BY <1>0, <1>6 DEF vars, bounds, history
<1>7. CASE \E p \in Processes : Hang(p)
    <2>1. PICK p \in Processes : Hang(p) BY <1>7
    <2>2. p \in Callers BY DEF Callers
    <2> QED BY <1>0, <2>1, <2>2, CountedShape, BoundsAssumption DEF Hang
<1>8. CASE \E p \in Processes : TimeOut(p)
    BY <1>0, <1>8, TimeOutShape DEF bounds, history
<1> QED BY <1>1, <1>2, <1>3, <1>4, <1>5, <1>6, <1>7, <1>8, StepKinds

LEMMA CallStep ==
    ASSUME TypeOK, CallInv, [Next]_vars
    PROVE  call' \in [Callers -> CallType]
<1>1. CASE \E k \in Callers : AgentStep(k)
    BY <1>1, AgentMoves DEF Moved
<1>2. CASE \E p \in Processes : HandlerStep(p)
    BY <1>2, HandlersGo, WentShape DEF TypeOK
<1>3. CASE (\E p \in Processes : GiveUp(p)) \/ AgentRestart
    BY <1>3, GiveUpShape, RestartShape
<1>4. CASE Switch \/ UNCHANGED vars
    BY <1>4 DEF Switch, vars, TypeOK
<1>5. CASE \E p \in Processes : Hang(p) \/ TimeOut(p)
    BY <1>5, HangShape, TimeOutShape
<1> QED BY <1>1, <1>2, <1>3, <1>4, <1>5, StepKinds

Base == TypeOK /\ CallInv

LEMMA BaseStep == Base /\ [Next]_vars => Base'
BY CallInvStep, HostStep, CallStep, WebStep, CountsStep, TypeParts DEF Base

LEMMA BaseHolds == Spec => []Base
<1>1. Init => Base BY TypeInit, CallInvInit DEF Base
<1> QED BY <1>1, BaseStep, PTL DEF Spec

\* Every variable keeps to its type, and every process that waits does so for
\* the call its handler has made.
THEOREM TypeCorrect == Spec => []TypeOK
<1>1. Base => TypeOK BY DEF Base
<1> QED BY <1>1, BaseHolds, PTL

----------------------------------------------------------------------------
(* The two readings of the adapter.                                        *)

\* A rule that passed the check is bound for its own backend.
Routed(k) ==
    call[k].rule # None
    => /\ call[k].stage = "use" => adapter = Home[call[k].rule]
       /\ call[k].stage = "act" => call[k].found = Home[call[k].rule]

RouteInv == ~ crossed => RightBackend /\ \A k \in Callers : Routed(k)

LEMMA HandlersKeep ==
    ASSUME NEW p \in Processes, HandlerStep(p)
    PROVE  UNCHANGED <<host, agent, faults, switches, crossed, trouble>>
BY DEF HandlerStep, Receive, StatusTold, NotTold, Poll, Handle, BeginTrial,
       Confirm, Rollback, Expire, Answer, TrialAnswered, PersistAnswered,
       UnpersistAnswered, FinishConfirm, RollbackAnswered, ExpireAnswered,
       Answered, bounds, history

\* Calls made, given up or lost are at no stage that counts.
LEMMA CallsKeep ==
    ASSUME TypeOK, CallInv,
           \/ \E p \in Processes : \/ HandlerStep(p) \/ GiveUp(p)
                                  \/ Hang(p) \/ TimeOut(p)
           \/ AgentRestart \/ Switch \/ UNCHANGED vars
    PROVE  \A k \in Callers :
             InProgress(call'[k])
             => \/ \E j \in Callers : call'[k] = call[j]
                \/ call'[k].stage = "detect"
<1> SUFFICES ASSUME NEW k \in Callers, InProgress(call'[k])
             PROVE  \/ \E j \in Callers : call'[k] = call[j]
                    \/ call'[k].stage = "detect"
    OBVIOUS
<1>1. CASE \E p \in Processes : HandlerStep(p)
    <2>1. PICK p \in Processes : HandlerStep(p) BY <1>1
    <2>2. CASE UNCHANGED <<pc, call>> BY <2>2
    <2>3. CASE \E label : Went(p, label)
        <3>1. PICK label : Went(p, label) BY <2>3
        <3>2. /\ call'[p] = IF label \in Calling THEN Request(p, label) ELSE NoCall
              /\ \A j \in Callers \ {p} : call'[j] = call[j]
            BY <3>1, WentShape
        <3>3. CASE k = p /\ label \in Calling
            BY <3>1, <3>2, <3>3, RequestTyped DEF Went, Calling
        <3>4. CASE k = p /\ label \notin Calling
            BY <3>2, <3>4, NoCallTyped
        <3> QED BY <3>2, <3>3, <3>4
    <2> QED BY <2>1, <2>2, <2>3, HandlersGo
<1>2. CASE \E p \in Processes : GiveUp(p)
    <2>1. PICK p \in Processes : GiveUp(p) BY <1>2
    <2>2. PICK l \in Late :
             /\ call'[l] = call[p] /\ call'[p].stage = "error"
             /\ \A j \in Callers \ {l, p} : call'[j] = call[j]
        BY <2>1, GiveUpShape
    <2>3. p \in Callers /\ k # p BY <2>2 DEF Callers, InProgress
    <2> QED BY <2>2, <2>3
<1>3. CASE AgentRestart
    <2>1. ~ InProgress(call'[k]) BY <1>3, RestartShape
    <2> QED BY <2>1
<1>4. CASE Switch \/ UNCHANGED vars BY <1>4 DEF Switch, vars
<1>5. CASE \E p \in Processes : Hang(p) \/ TimeOut(p)
    <2>1. PICK p \in Processes : Hang(p) \/ TimeOut(p) BY <1>5
    <2>2. /\ call'[p].stage \in {"hung", "error"}
          /\ \A j \in Callers \ {p} : call'[j] = call[j]
        BY <2>1, HangShape, TimeOutShape
    <2>3. k # p BY <2>2 DEF InProgress
    <2> QED BY <2>2, <2>3
<1> QED BY <1>1, <1>2, <1>3, <1>4, <1>5

LEMMA RouteInit == Init => RouteInv
<1> SUFFICES ASSUME Init PROVE RouteInv OBVIOUS
<1>1. kept["firewalld"] \subseteq HomeRules("firewalld")
      /\ kept["ufw"] \subseteq HomeRules("ufw")
    BY DEF Init, Managed, HomeRules
<1>2. RightBackend BY <1>1 DEF Init, RightBackend
<1>3. \A k \in Callers : Routed(k) BY NoCallTyped DEF Init, Routed
<1> QED BY <1>2, <1>3 DEF RouteInv

\* A call that passed the check changes its own backend.
LEMMA ChangeRoutes ==
    ASSUME Base, RouteInv, ~ crossed, NEW k \in Callers, call[k].stage = "act",
           call[k].rule # None, Reachable(call[k]), Changed(call[k])
    PROVE  RightBackend'
<1> DEFINE c == call[k]
           set == IF c.found = "firewalld" /\ ~ c.permanent
                  THEN runtime ELSE kept[c.found]
           new == Effect(set, c.op, c.rule)
<1>0. /\ runtime \cup kept["firewalld"] \subseteq HomeRules("firewalld")
      /\ kept["ufw"] \subseteq HomeRules("ufw")
      /\ c.found = Home[c.rule]
    BY DEF RouteInv, RightBackend, Routed
<1>1. /\ c.found \in Managed /\ c.rule \in Rules
      /\ IF c.found = "firewalld" /\ ~ c.permanent
         THEN runtime' = new /\ kept' = kept
         ELSE /\ runtime' = runtime /\ kept'[c.found] = new
              /\ \A b \in Managed \ {c.found} : kept'[b] = kept[b]
    BY ChangeShape DEF Base
<1>2. c.rule \in HomeRules(c.found) BY <1>0, <1>1 DEF HomeRules
<1>3. set \subseteq HomeRules(c.found) BY <1>0, <1>1 DEF Managed
<1>4. new \subseteq HomeRules(c.found) BY <1>2, <1>3 DEF Effect
<1>5. /\ runtime' \cup kept'["firewalld"] \subseteq HomeRules("firewalld")
      /\ kept'["ufw"] \subseteq HomeRules("ufw")
    BY <1>0, <1>1, <1>4 DEF Managed
<1> QED BY <1>5 DEF RightBackend, HomeRules

LEMMA RouteStep ==
    ASSUME Base, RouteInv, [Next]_vars
    PROVE  RouteInv'
<1> USE DEF Base
<1> SUFFICES ASSUME ~ crossed'
             PROVE  RightBackend' /\ \A k \in Callers : Routed(k)'
    BY DEF RouteInv
<1>0. /\ ~ crossed
      /\ runtime \cup kept["firewalld"] \subseteq HomeRules("firewalld")
      /\ kept["ufw"] \subseteq HomeRules("ufw")
      /\ \A k \in Callers : Routed(k)
    BY CountsStep DEF Counts, RouteInv, RightBackend
<1>1. CASE \E k \in Callers : AgentStep(k)
    <2>1. PICK k \in Callers : AgentStep(k) BY <1>1
    <2>2. Moved(k) BY <2>1, AgentMoves
    <2>3. CASE \/ Detect(k) \/ Compare(k) \/ Replace(k) \/ Adapt(k)
               \/ Check(k) \/ Use(k) \/ Status(k) \/ Refuse(k)
        <3>1. UNCHANGED host
            BY <2>3 DEF Detect, Compare, Replace, Adapt, Check, Use, Status,
                        Refuse
        <3>2. RightBackend'
            BY <1>0, <3>1 DEF host, RightBackend
        <3>3. \A j \in Callers \ {k} : Routed(j)'
            <4>1. CASE Adapt(k)
                <5>1. \A j \in Callers :
                         ~ (call[j].stage = "use" /\ call[j].rule # None)
                    BY <4>1 DEF Adapt
                <5> QED BY <1>0, <2>2, <5>1 DEF Moved, Routed
            <4>2. CASE adapter' = adapter
                BY <1>0, <2>2, <4>2 DEF Moved, Routed
            <4> QED BY <2>3, <4>1, <4>2
                    DEF Detect, Compare, Replace, Check, Use, Status, Refuse,
                        agent
        <3>4. Routed(k)'
            <4>0. call \in [Callers -> CallType] BY DEF TypeOK
            <4>1. CASE Detect(k)
                <5>1. call'[k].stage = "compare"
                    BY <4>0, <4>1, FoundMoves DEF Detect, InProgress, TypeOK
                <5> QED BY <5>1 DEF Routed
            <4>2. CASE Compare(k)
                <5>1. call[k].found \in Backends /\ InProgress(call[k])
                    BY <4>2 DEF CallInv, Known, Compare, InProgress
                <5>2. call'[k].stage \in {"check", "replace"}
                    BY <4>0, <4>2, <5>1, FoundMoves, AdvanceMoves
                       DEF Compare, Refreshed
                <5> QED BY <5>2 DEF Routed
            <4>3. CASE Adapt(k)
                <5>1. call'[k].stage = "check"
                    BY <4>0, <4>3, FoundMoves DEF Adapt, InProgress, Refreshed
                <5> QED BY <5>1 DEF Routed
            <4>4. CASE Check(k)
                <5>1. CASE call[k].rule = None \/ Home[call[k].rule] = adapter
                    <6>1. /\ call'[k].stage = "use" /\ adapter' = adapter
                          /\ call'[k].rule = call[k].rule
                        BY <4>0, <4>4, <5>1, AdvanceMoves
                           DEF Check, InProgress, agent, SameJob
                    <6> QED BY <5>1, <6>1 DEF Routed
                <5>2. CASE ~ (call[k].rule = None \/ Home[call[k].rule] = adapter)
                    <6>1. ~ InProgress(call'[k])
                        BY <4>0, <4>4, <5>2, ReplyMoves DEF Check, InProgress
                    <6> QED BY <6>1 DEF Routed, InProgress
                <5> QED BY <5>1, <5>2
            <4>5. CASE Use(k)
                <5>1. /\ call'[k].stage = "act" /\ call'[k].found = adapter
                      /\ call'[k].rule = call[k].rule
                    BY <4>0, <4>5, FoundMoves DEF Use, InProgress, TypeOK, SameJob
                <5> QED BY <1>0, <4>5, <5>1 DEF Routed, Use
            <4>6. CASE Status(k)
                <5>1. call[k].rule = None BY <4>6 DEF Status
                <5>2. call'[k].rule = None
                    BY <2>2, <5>1, NoCallTyped DEF Moved, SameJob, Ended
                <5> QED BY <5>2 DEF Routed
            <4>7. CASE Refuse(k)
                <5>1. ~ InProgress(call'[k])
                    BY <4>0, <4>7, ReplyMoves DEF Refuse, InProgress
                <5> QED BY <5>1 DEF Routed, InProgress
            <4>8. CASE Replace(k)
                <5>1. call[k].found \in Backends /\ InProgress(call[k])
                    BY <4>8 DEF CallInv, Known, Replace, InProgress
                <5>2. call'[k].stage = "adapt"
                    BY <4>0, <4>8, <5>1, AdvanceMoves DEF Replace
                <5> QED BY <5>2 DEF Routed
            <4> QED BY <2>3, <4>1, <4>2, <4>3, <4>4, <4>5, <4>6, <4>7, <4>8
        <3> QED BY <3>2, <3>3, <3>4
    <2>4. CASE Act(k) \/ Fail(k)
        <3>1. adapter' = adapter BY <2>4 DEF Act, Fail, agent
        <3>2. /\ call[k].stage = "act" /\ call[k].rule # None
              /\ Reachable(call[k]) /\ (Changed(call[k]) \/ UNCHANGED host)
              /\ Reply(k, "ok") \/ Reply(k, "error")
            BY <2>4 DEF Act, Fail
        <3>4. ASSUME Changed(call[k]) PROVE RightBackend'
            BY <1>0, <3>2, <3>4, ChangeRoutes
        <3>5. ASSUME UNCHANGED host PROVE RightBackend'
            BY <1>0, <3>5 DEF host, RightBackend
        <3>6. RightBackend' BY <3>2, <3>4, <3>5
        <3>7. ~ InProgress(call'[k])
            <4>1. call[k].rule \in Rules /\ InProgress(call[k])
                BY <3>2 DEF TypeOK, CallType, InProgress
            <4> QED BY <3>2, <4>1, ReplyMoves DEF TypeOK
        <3>8. \A j \in Callers : Routed(j)'
            BY <1>0, <2>2, <3>1, <3>7 DEF Moved, Routed, InProgress
        <3> QED BY <3>6, <3>8
    <2> QED BY <2>1, <2>3, <2>4 DEF AgentStep
<1>2. CASE \/ \E p \in Processes : HandlerStep(p) \/ GiveUp(p) \/ TimeOut(p)
           \/ UNCHANGED vars
    <2>1. UNCHANGED <<host, agent>>
        BY <1>2, HandlersKeep DEF GiveUp, TimeOut, vars
    <2>2. \A k \in Callers :
             InProgress(call'[k])
             => \/ \E j \in Callers : call'[k] = call[j]
                \/ call'[k].stage = "detect"
        BY <1>2, CallsKeep
    <2>3. \A k \in Callers : Routed(k)'
        BY <1>0, <2>1, <2>2 DEF Routed, InProgress, agent
    <2> QED BY <1>0, <2>1, <2>3 DEF RightBackend, host
<1>3. CASE AgentRestart
    <2>1. \A k \in Callers : ~ InProgress(call'[k]) BY <1>3, RestartShape
    <2> QED BY <1>0, <1>3, <2>1
            DEF RightBackend, Routed, InProgress, AgentRestart, host
<1>4. CASE Switch
    BY <1>0, <1>4 DEF Switch, RightBackend, Routed, agent
<1>5. CASE \E p \in Processes : Hang(p)
    <2>1. PICK p \in Processes : Hang(p) BY <1>5
    <2>2. /\ p \in Callers /\ call[p].stage = "act" /\ UNCHANGED agent
          /\ call'[p].rule = None
          /\ \A k \in Callers \ {p} : call'[k] = call[k]
        BY <2>1, HangShape DEF Callers
    <2>3. \A k \in Callers : Routed(k)'
        BY <1>0, <2>2 DEF Routed, agent
    <2>4. CASE call[p].rule # None /\ Changed(call[p])
        BY <1>0, <2>1, <2>2, <2>3, <2>4, ChangeRoutes DEF Hang
    <2>5. CASE UNCHANGED host
        BY <1>0, <2>3, <2>5 DEF RightBackend, host
    <2> QED BY <2>1, <2>4, <2>5 DEF Hang
<1> QED BY <1>1, <1>2, <1>3, <1>4, <1>5, StepKinds

\* A rule never reaches a backend it was not made for, unless a call replaced
\* the adapter between another call's check and its use.
THEOREM RulesGoHome == Spec => []RightBackend
<1>1. Init => RouteInv BY RouteInit
<1>2. RouteInv => RightBackend BY DEF RouteInv, RightBackend
<1>3. Base /\ RouteInv /\ [Next]_vars => RouteInv' BY RouteStep
<1> QED BY <1>1, <1>2, <1>3, BaseHolds, PTL DEF Spec

----------------------------------------------------------------------------
(* Where a rule's handler is, and how its trial stands.                    *)

Settling == {"persist", "unpersist", "rollback", "finish"}

Staged(r) ==
    /\ pc[r] \in {"snapshot", "trial"} => session[r] = "none"
    /\ pc[r] \in Settling => session[r] = "pending"
    /\ pc[r] = "expire" => expiry[r] = "active"
    /\ expiry[r] # "none" => session[r] = "confirmed" /\ r \in Temporary

StagedInv == \A r \in Rules : Staged(r)

\* A handler leaves the other rules alone.
LEMMA HandlerFrame ==
    ASSUME TypeOK, NEW p \in Processes, HandlerStep(p),
           NEW r \in Rules, r # p
    PROVE  /\ pc'[r] = pc[r] /\ call'[r] = call[r]
           /\ session'[r] = session[r] /\ expiry'[r] = expiry[r]
           /\ r \in misled' <=> r \in misled
<1>1. r \in Processes /\ r \in Callers BY DEF Processes, Callers
<1>2. pc'[r] = pc[r] /\ call'[r] = call[r]
    BY <1>1, HandlersGo, WentShape
<1>3. CASE Receive(p)
    BY <1>2, <1>3 DEF Receive, StatusTold, NotTold
<1>4. CASE Poll BY <1>2, <1>4 DEF Poll, history
<1>5. CASE p \in Rules /\ Handle(p)
    BY <1>2, <1>5 DEF Handle, BeginTrial, Confirm, Rollback, Expire, Misled,
                      history, TypeOK
<1>6. CASE p \in Rules /\ Answer(p)
    BY <1>2, <1>6 DEF Answer, TrialAnswered, PersistAnswered,
         UnpersistAnswered, FinishConfirm, RollbackAnswered, ExpireAnswered,
         Answered, Misled, history, TypeOK
<1> QED BY <1>3, <1>4, <1>5, <1>6 DEF HandlerStep

\* A label a rule's handler goes to, and what its call is then.
LEMMA RuleWent ==
    ASSUME TypeOK, NEW r \in Rules, NEW label \in Labels, Goto(r, label)
    PROVE  /\ pc'[r] = label
           /\ label \in Calling => call'[r].stage = "detect"
           /\ label \notin Calling => call'[r] = NoCall
           /\ \A k \in Callers \ {r} : call'[k] = call[k]
<1>1. r \in Processes /\ r # Poller BY NamesAssumption DEF Processes
<1>2. Went(r, label) BY <1>1 DEF Went
<1> QED BY <1>1, <1>2, WentShape, RequestTyped

LEMMA StagedStep ==
    ASSUME Base, StagedInv, [Next]_vars
    PROVE  StagedInv'
<1> USE DEF Base
<1>1. CASE \E p \in Processes : HandlerStep(p)
    <2>1. PICK p \in Processes : HandlerStep(p) BY <1>1
    <2>2. ASSUME NEW r \in Rules, r # p PROVE Staged(r)'
        BY <2>1, <2>2, HandlerFrame DEF StagedInv, Staged
    <2>3. ASSUME p \in Rules PROVE Staged(p)'
        <3>0. Staged(p) /\ p # Poller
            BY <2>3, NamesAssumption DEF StagedInv
        <3>1. CASE Receive(p)
            BY <2>3, <3>0, <3>1, RuleWent
               DEF Receive, StatusTold, NotTold, Staged, Settling, Labels,
                   Calling, Answered
        <3>2. CASE Handle(p)
            <4>1. CASE BeginTrial(p) \/ Rollback(p)
                BY <2>3, <3>0, <4>1, RuleWent
                   DEF BeginTrial, Rollback, Staged, Settling, Labels, Calling
            <4>2. CASE Confirm(p)
                BY <2>3, <3>0, <4>2, RuleWent
                   DEF Confirm, Staged, Settling, Labels, Calling
            <4>3. CASE Expire(p)
                BY <2>3, <3>0, <4>3, RuleWent
                   DEF Expire, Staged, Settling, Labels, Calling, TypeOK
            <4> QED BY <3>2, <4>1, <4>2, <4>3 DEF Handle
        <3>3. CASE Answer(p)
            <4>1. CASE TrialAnswered(p)
                BY <2>3, <3>0, <4>1, RuleWent
                   DEF TrialAnswered, Answered, Staged, Settling, Labels,
                       Calling, TypeOK
            <4>2. CASE PersistAnswered(p) \/ UnpersistAnswered(p)
                BY <2>3, <3>0, <4>2, RuleWent
                   DEF PersistAnswered, UnpersistAnswered, Answered, Staged,
                       Settling, Labels, Calling
            <4>3. CASE FinishConfirm(p)
                BY <2>3, <3>0, <4>3, RuleWent
                   DEF FinishConfirm, Staged, Settling, Labels, Calling, TypeOK
            <4>4. CASE RollbackAnswered(p)
                BY <2>3, <3>0, <4>4, RuleWent
                   DEF RollbackAnswered, Answered, Staged, Settling, Labels,
                       Calling, TypeOK
            <4>5. CASE ExpireAnswered(p)
                BY <2>3, <3>0, <4>5, RuleWent
                   DEF ExpireAnswered, Answered, Staged, Settling, Labels,
                       Calling, TypeOK
            <4> QED BY <3>3, <4>1, <4>2, <4>3, <4>4, <4>5 DEF Answer
        <3> QED BY <2>1, <2>3, <3>0, <3>1, <3>2, <3>3 DEF HandlerStep
    <2> QED BY <2>2, <2>3 DEF StagedInv
<1>2. CASE \/ \E k \in Callers : AgentStep(k)
           \/ \E p \in Processes : Hang(p) \/ TimeOut(p) \/ GiveUp(p)
           \/ AgentRestart \/ Switch \/ UNCHANGED vars
    <2>1. UNCHANGED <<pc, session, expiry>>
        BY <1>2, AgentKeepsWeb
           DEF Hang, TimeOut, GiveUp, AgentRestart, Switch, web, vars
    <2> QED BY <2>1 DEF StagedInv, Staged
<1> QED BY <1>1, <1>2, StepKinds

\* Every call given up has made its rule's trouble 2; a permanent one belongs
\* to a trial that is being or was rolled back.
LateInv ==
    \A l \in Late, r \in Rules :
        call[l].rule = r
        => /\ trouble[r] = 2
           /\ call[l].permanent
              => \/ pc[r] \in {"unpersist", "rollback"}
                 \/ pc[r] = "persist" /\ call[r].stage = "error"
                 \/ session[r] \in {"rolled_back", "rollback_failed"}

LEMMA TroubleStays ==
    ASSUME TypeOK, CallInv, [Next]_vars, NEW r \in Rules, trouble[r] = 2
    PROVE  trouble'[r] = 2
<1>1. trouble[r] =< trouble'[r] /\ trouble'[r] \in 0..2
    BY CountsStep DEF Counts
<1> QED BY <1>1

LEMMA LateStep ==
    ASSUME Base, StagedInv, LateInv, [Next]_vars
    PROVE  LateInv'
<1> USE DEF Base
<1> SUFFICES ASSUME NEW l \in Late, NEW r \in Rules, call'[l].rule = r
             PROVE  /\ trouble'[r] = 2
                    /\ call'[l].permanent
                       => \/ pc'[r] \in {"unpersist", "rollback"}
                          \/ pc'[r] = "persist" /\ call'[r].stage = "error"
                          \/ session'[r] \in {"rolled_back", "rollback_failed"}
    BY DEF LateInv
<1>0. /\ l \in Callers /\ r \in Callers /\ r \in Processes /\ l # r
      /\ r # None
    BY NamesAssumption DEF Callers, Processes
<1>1. CASE \E k \in Callers : AgentStep(k)
    <2>1. PICK k \in Callers : AgentStep(k) BY <1>1
    <2>2. Moved(k) /\ UNCHANGED <<pc, session>>
        BY <2>1, AgentMoves, AgentKeepsWeb
    <2>3. call[l].rule = r /\ (call'[l].permanent = call[l].permanent)
        BY <1>0, <2>2, NoCallTyped DEF Moved, SameJob, Ended
    <2>4. call[r].stage = "error" => call'[r].stage = "error"
        BY <1>0, <2>2 DEF Moved, InProgress
    <2> QED BY <2>2, <2>3, <2>4, TroubleStays DEF LateInv
<1>2. CASE \E p \in Processes : HandlerStep(p)
    <2>1. PICK p \in Processes : HandlerStep(p) BY <1>2
    <2>2. call'[l] = call[l]
        BY <1>0, <2>1, HandlersGo, WentShape, NamesAssumption
    <2>3. trouble[r] = 2 /\ trouble'[r] = 2
        BY <2>2, TroubleStays DEF LateInv
    <2>4. CASE r # p
        BY <2>1, <2>2, <2>3, <2>4, HandlerFrame DEF LateInv
    <2>5. CASE r = p
        <3>1. SUFFICES ASSUME call[l].permanent
                       PROVE  \/ pc'[r] \in {"unpersist", "rollback"}
                              \/ session'[r] \in {"rolled_back",
                                                  "rollback_failed"}
            BY <2>2, <2>3
        <3>2. \/ pc[r] \in {"unpersist", "rollback"}
              \/ pc[r] = "persist" /\ call[r].stage = "error"
              \/ session[r] \in {"rolled_back", "rollback_failed"}
            BY <2>2, <3>1 DEF LateInv
        <3>3. Staged(r) BY DEF StagedInv
        <3>4. CASE Receive(r)
            BY <3>2, <3>3, <3>4
               DEF Receive, StatusTold, NotTold, Answered, Staged
        <3>5. CASE Handle(r)
            BY <3>2, <3>3, <3>5
               DEF Handle, BeginTrial, Confirm, Rollback, Expire, Staged
        <3>6. CASE Answer(r)
            <4>1. CASE TrialAnswered(r) \/ FinishConfirm(r) \/ ExpireAnswered(r)
                BY <3>2, <3>3, <4>1
                   DEF TrialAnswered, FinishConfirm, ExpireAnswered, Answered,
                       Staged, Settling
            <4>2. CASE PersistAnswered(r) \/ UnpersistAnswered(r)
                BY <3>2, <3>3, <4>2, RuleWent
                   DEF PersistAnswered, UnpersistAnswered, Answered, Staged,
                       Settling, Labels, Calling
            <4>3. CASE RollbackAnswered(r)
                BY <4>3 DEF RollbackAnswered, TypeOK
            <4> QED BY <3>6, <4>1, <4>2, <4>3 DEF Answer
        <3> QED BY <2>1, <2>5, <3>4, <3>5, <3>6, NamesAssumption
                DEF HandlerStep
    <2> QED BY <2>4, <2>5
<1>3. CASE \E p \in Processes : GiveUp(p)
    <2>1. PICK p \in Processes : GiveUp(p) BY <1>3
    <2>2. PICK m \in Late :
             /\ InProgress(call[p]) /\ call[p].rule \in Rules
             /\ call'[m] = call[p]
             /\ call'[p].stage = "error"
             /\ \A k \in Callers \ {m, p} : call'[k] = call[k]
             /\ UNCHANGED web
        BY <2>1, GiveUpShape
    <2>3. CASE m = l
        <3>1. call[p].rule = r BY <2>2, <2>3
        <3>2. trouble'[r] = 2 BY <2>1, <3>1 DEF GiveUp
        <3>3. pc[p] # "snapshot" /\ p \in Rules /\ p = r
            <4>1. pc[p] \in Calling /\ SameJob(Request(p, pc[p]), call[p])
                  /\ (p = Poller => pc[p] \in {"idle", "snapshot"})
                BY <2>2, NoCallTyped DEF CallInv, Matches, InProgress
            <4>2. Request(p, pc[p]).rule = r BY <3>1, <4>1 DEF SameJob
            <4> QED BY <1>0, <4>1, <4>2, RequestTyped DEF Processes, Calling
        <3>4. call'[l].permanent => pc[r] \in {"persist", "unpersist"}
            <4>1. pc[p] \in Calling /\ SameJob(Request(p, pc[p]), call[p])
                  /\ (p = Poller => pc[p] \in {"idle", "snapshot"})
                BY <2>2, NoCallTyped DEF CallInv, Matches, InProgress
            <4>2. p = Poller => pc[p] = "snapshot" BY <4>1 DEF Calling
            <4>3. pc[p] \in {"persist", "unpersist"}
                  <=> Request(p, pc[p]).permanent
                BY <4>1, <4>2, RequestTyped
            <4> QED BY <2>2, <2>3, <3>3, <4>1, <4>3 DEF SameJob
        <3> QED BY <2>2, <3>2, <3>3, <3>4 DEF web
    <2>4. CASE m # l
        <3>1. call'[l] = call[l]
            BY <1>0, <2>2, <2>4, NamesAssumption
        <3>2. call[r].stage = "error" => call'[r].stage = "error"
            BY <1>0, <2>2, NamesAssumption
        <3> QED BY <2>2, <3>1, <3>2, TroubleStays DEF LateInv, web
    <2> QED BY <2>3, <2>4
<1>4. CASE AgentRestart
    <2>1. call'[l] = NoCall BY <1>4, RestartShape
    <2> QED BY <1>0, <2>1, NoCallTyped
<1>5. CASE Switch \/ UNCHANGED vars
    BY <1>5 DEF Switch, vars, web, history, LateInv
<1>6. CASE \E p \in Processes : Hang(p) \/ TimeOut(p)
    <2>1. PICK p \in Processes : Hang(p) \/ TimeOut(p) BY <1>6
    <2>2. /\ call[p].stage \in {"act", "hung"}
          /\ \A k \in Callers \ {p} : call'[k] = call[k]
          /\ UNCHANGED <<pc, session>>
        BY <2>1, HangShape, TimeOutShape DEF web
    <2>3. call'[l] = call[l] BY <1>0, <2>2, NamesAssumption
    <2>4. call[r].stage = "error" => call'[r].stage = "error"
        BY <1>0, <2>2
    <2> QED BY <2>2, <2>3, <2>4, TroubleStays DEF LateInv
<1> QED BY <1>1, <1>2, <1>3, <1>4, <1>5, <1>6, StepKinds

----------------------------------------------------------------------------
(* What becomes of a rule's permanent configuration.                       *)

Orig(r)  == r \in kept[Home[r]] <=> r \in Deleted
Asked(r) == r \in kept[Home[r]] <=> r \notin Deleted

\* Before and after a confirmation.
Keeps(r) ==
    r \notin misled
    => /\ Home[r] = "firewalld"
          => /\ pc[r] = "persist" /\ call[r].stage = "ok" => Asked(r)
             /\ pc[r] = "finish" \/ session[r] = "confirmed" => Asked(r)
       /\ session[r] = "confirmed" /\ r \in Temporary => expiry[r] # "none"

\* Before and after a rollback.
Undoes(r) ==
    trouble[r] < 2
    => IF Home[r] = "firewalld"
       THEN /\ session[r] \in {"none", "rolled_back", "rollback_failed"}
               => Orig(r)
            /\ session[r] = "pending" /\ pc[r] \in {"idle", "rollback"}
               => Orig(r)
            /\ pc[r] = "persist" /\ InProgress(call[r]) => Orig(r)
            /\ pc[r] = "persist" /\ call[r].stage \in {"hung", "error"}
               => Orig(r) \/ trouble[r] >= 1
            /\ pc[r] = "unpersist"
               => /\ Orig(r) \/ trouble[r] >= 1
                  /\ ~ InProgress(call[r]) => Orig(r)
       ELSE /\ pc[r] = "rollback" /\ call[r].stage = "ok" => Orig(r)
            /\ session[r] = "rolled_back" => Orig(r)

OutcomeInv == ~ crossed => \A r \in Rules : Keeps(r) /\ Undoes(r)

LEMMA OutcomeInit == Init => OutcomeInv
<1> SUFFICES ASSUME Init, NEW r \in Rules PROVE Keeps(r) /\ Undoes(r)
    BY DEF OutcomeInv
<1>1. Home[r] \in Managed BY RulesAssumption
<1>2. Orig(r) BY <1>1 DEF Init, Orig, HomeRules
<1>3. pc[r] = "idle" /\ session[r] = "none" BY DEF Init, Processes
<1> QED BY <1>2, <1>3, RulesAssumption DEF Keeps, Undoes

\* A call that changes the configuration leaves a rule's permanent one alone or
\* was made for the rule.
LEMMA KeptByChange ==
    ASSUME Base, RouteInv, ~ crossed, NEW k \in Callers, call[k].stage = "act",
           call[k].rule # None, Reachable(call[k]), ~ Redundant(call[k]),
           Changed(call[k]), NEW r \in Rules
    PROVE  \/ r \in kept'[Home[r]] <=> r \in kept[Home[r]]
           \/ /\ call[k].rule = r
              /\ Home[r] = "firewalld"
                 => /\ call[k].permanent
                    /\ call[k].op = "add" <=> r \notin kept[Home[r]]
              /\ r \in kept'[Home[r]] <=> call[k].op # "delete"
<1> DEFINE c == call[k]
           set == IF c.found = "firewalld" /\ ~ c.permanent
                  THEN runtime ELSE kept[c.found]
           new == Effect(set, c.op, c.rule)
<1>2. /\ c.found \in Managed /\ c.rule \in Rules
      /\ IF c.found = "firewalld" /\ ~ c.permanent
         THEN runtime' = new /\ kept' = kept
         ELSE /\ runtime' = runtime /\ kept'[c.found] = new
              /\ \A b \in Managed \ {c.found} : kept'[b] = kept[b]
    BY ChangeShape DEF Base
<1>3. c.found = Home[c.rule] BY DEF RouteInv, Routed
<1>4. Home[r] \in Managed BY RulesAssumption
<1>5. CASE c.found = "firewalld" /\ ~ c.permanent
    BY <1>2, <1>5
<1>6. CASE ~ (c.found = "firewalld" /\ ~ c.permanent) /\ c.rule # r
    <2>1. kept'[c.found] = Effect(kept[c.found], c.op, c.rule)
        BY <1>2, <1>6
    <2> QED BY <1>2, <1>4, <1>6, <2>1 DEF Effect
<1>7. CASE ~ (c.found = "firewalld" /\ ~ c.permanent) /\ c.rule = r
    <2>1. kept'[Home[r]] = Effect(kept[Home[r]], c.op, r)
        BY <1>2, <1>3, <1>7
    <2>2. r \in kept'[Home[r]] <=> c.op # "delete" BY <2>1 DEF Effect
    <2>3. Home[r] = "firewalld" => c.permanent BY <1>3, <1>7
    <2>4. Home[r] = "firewalld" => (c.op = "add" <=> r \notin kept[Home[r]])
        <3> HAVE Home[r] = "firewalld"
        <3>1. c.found = "firewalld" BY <1>3, <1>7
        <3>2. Target(c) = kept["firewalld"] BY <2>3, <3>1 DEF Target
        <3> QED BY <1>7, <3>1, <3>2 DEF Redundant
    <2> QED BY <1>7, <2>2, <2>3, <2>4
<1> QED BY <1>5, <1>6, <1>7

\* A step of the agent leaves a rule's permanent configuration alone or carries
\* out the call made for it.
LEMMA KeptStep ==
    ASSUME Base, RouteInv, ~ crossed, NEW k \in Callers, AgentStep(k),
           NEW r \in Rules
    PROVE  \/ r \in kept'[Home[r]] <=> r \in kept[Home[r]]
           \/ /\ call[k].stage = "act" /\ call[k].rule = r
              /\ Act(k) \/ Fail(k)
              /\ Home[r] = "firewalld"
                 => /\ call[k].permanent
                    /\ call[k].op = "add" <=> r \notin kept[Home[r]]
              /\ r \in kept'[Home[r]] <=> call[k].op # "delete"
<1>1. CASE UNCHANGED host BY <1>1 DEF host
<1>2. CASE ~ UNCHANGED host
    <2>1. /\ Act(k) \/ Fail(k)
          /\ call[k].stage = "act" /\ call[k].rule # None
          /\ Reachable(call[k]) /\ ~ Redundant(call[k]) /\ Changed(call[k])
        BY <1>2 DEF AgentStep, Detect, Compare, Replace, Adapt, Check, Use,
                    Status, Act, Refuse, Fail
    <2> QED BY <2>1, KeptByChange
<1> QED BY <1>1, <1>2

\* The call a rule's handler has under way.
LEMMA OwnCall ==
    ASSUME Base, NEW r \in Rules, InProgress(call[r])
    PROVE  /\ pc[r] \in Calling
           /\ call[r].permanent <=> pc[r] \in {"persist", "unpersist"}
           /\ pc[r] \in {"trial", "persist"} => call[r].op = TrialOp(r)
           /\ pc[r] \in {"unpersist", "rollback"} => call[r].op = Inverse(r)
           /\ call[r].rule = None <=> pc[r] = "snapshot"
<1>1. r \in Processes /\ r # Poller BY NamesAssumption DEF Processes
<1>2. pc[r] \in Calling /\ SameJob(Request(r, pc[r]), call[r])
    BY <1>1, NoCallTyped DEF Base, CallInv, Matches, InProgress
<1> QED BY <1>1, <1>2, RequestTyped DEF SameJob

\* Only the process a call was made for, or nobody any more, makes it.
LEMMA CallerOf ==
    ASSUME Base, NEW k \in Callers, InProgress(call[k]), NEW r \in Rules,
           call[k].rule = r
    PROVE  k = r \/ k \in Late
<1> SUFFICES ASSUME k \in Processes PROVE k = r
    BY DEF Callers
<1>1. /\ pc[k] \in Calling /\ SameJob(Request(k, pc[k]), call[k])
      /\ k = Poller => pc[k] \in {"idle", "snapshot"}
    BY NoCallTyped DEF Base, CallInv, Matches, InProgress
<1>2. Request(k, pc[k]).rule = r BY <1>1 DEF SameJob
<1> QED BY <1>1, <1>2, RequestTyped, NamesAssumption DEF Calling

LEMMA OwnRule ==
    ASSUME Base, NEW r \in Rules, InProgress(call[r]), pc[r] # "snapshot"
    PROVE  call[r].rule = r /\ call[r].rule # None
<1>1. r \in Processes /\ r # Poller BY NamesAssumption DEF Processes
<1>2. SameJob(Request(r, pc[r]), call[r])
    BY <1>1 DEF Base, CallInv, Matches
<1> QED BY <1>1, <1>2, OwnCall, RequestTyped, NamesAssumption
        DEF SameJob, Calling

\* The step that answers the call of a rule, and how.
LEMMA AnsweredBy ==
    ASSUME Base, NEW k \in Callers \ Late, AgentStep(k), call[k].rule # None,
           ~ InProgress(call'[k])
    PROVE  \/ call'[k].stage = "ok" /\ Act(k)
           \/ /\ call'[k].stage = "error"
              /\ \/ Check(k) /\ Home[call[k].rule] # adapter
                 \/ Refuse(k) \/ Fail(k)
<1>1. InProgress(call[k]) BY AgentMoves DEF Base, Moved
<1>2. call \in [Callers -> CallType] BY DEF Base, TypeOK
<1>3. ~ Detect(k) /\ ~ Use(k)
    BY <1>1, <1>2, FoundMoves DEF Detect, Use, Base, TypeOK, InProgress
<1>4. ~ Adapt(k)
    BY <1>1, <1>2, FoundMoves DEF Adapt, Refreshed, InProgress
<1>5. ~ Compare(k)
    <2> SUFFICES ASSUME Compare(k) PROVE FALSE OBVIOUS
    <2>1. call[k].found \in Backends
        BY DEF Compare, Base, CallInv, Known
    <2>2. Advance(k, "replace") \/ Refreshed(k) BY DEF Compare
    <2> QED BY <1>1, <1>2, <2>1, <2>2, FoundMoves, AdvanceMoves
            DEF Refreshed, InProgress
<1>10. ~ Replace(k)
    <2> SUFFICES ASSUME Replace(k) PROVE FALSE OBVIOUS
    <2>1. call[k].found \in Backends
        BY DEF Replace, Base, CallInv, Known
    <2>2. Advance(k, "adapt") BY DEF Replace
    <2> QED BY <1>1, <1>2, <2>1, <2>2, AdvanceMoves DEF InProgress
<1>6. ~ Status(k) BY DEF Status
<1>7. CASE Check(k)
    <2>1. CASE Home[call[k].rule] = adapter
        <3>1. Advance(k, "use") BY <1>7, <2>1 DEF Check
        <3> QED BY <1>1, <1>2, <3>1, AdvanceMoves DEF InProgress
    <2>2. CASE Home[call[k].rule] # adapter
        <3>1. Reply(k, "error") BY <1>7, <2>2 DEF Check
        <3> QED BY <1>1, <1>2, <1>7, <2>2, <3>1, ReplyMoves
    <2> QED BY <2>1, <2>2
<1>8. CASE Act(k)
    <2>1. Reply(k, "ok") /\ call[k].rule \in Rules
        BY <1>2, <1>8 DEF Act, CallType
    <2> QED BY <1>1, <1>2, <1>8, <2>1, ReplyMoves
<1>9. CASE Refuse(k) \/ Fail(k)
    <2>1. Reply(k, "error") BY <1>9 DEF Refuse, Fail
    <2> QED BY <1>1, <1>2, <1>9, <2>1, ReplyMoves
<1> QED BY <1>3, <1>4, <1>5, <1>6, <1>7, <1>8, <1>9, <1>10 DEF AgentStep

\* A call of a rule's handler that succeeds has the effect asked for.
LEMMA OwnEffect ==
    ASSUME Base, RouteInv, ~ crossed, NEW r \in Rules, Act(r),
           pc[r] # "snapshot",
           Home[r] = "firewalld" => pc[r] \in {"persist", "unpersist"}
    PROVE  r \in kept'[Home[r]] <=> call[r].op # "delete"
<1>1. r \in Callers BY DEF Callers, Processes
<1>2. /\ Reachable(call[r]) /\ Changed(call[r]) /\ call[r].stage = "act"
      /\ InProgress(call[r])
    BY DEF Act, InProgress
<1>3. /\ call[r].rule = r /\ call[r].rule # None
      /\ Home[r] = "firewalld" => call[r].permanent
    BY <1>2, OwnRule, OwnCall
<1>4. call[r].found = Home[r]
    BY <1>1, <1>2, <1>3 DEF RouteInv, Routed
<1>5. kept' = [kept EXCEPT ![Home[r]] = Effect(kept[Home[r]], call[r].op, r)]
    BY <1>2, <1>3, <1>4 DEF Changed, Target
<1>6. kept'[Home[r]] = Effect(kept[Home[r]], call[r].op, r)
    BY <1>5, RulesAssumption DEF Base, TypeOK
<1> QED BY <1>6 DEF Effect

LEMMA KeepsByAgent ==
    ASSUME Base, RouteInv, StagedInv, LateInv, OutcomeInv, ~ crossed,
           NEW k \in Callers, AgentStep(k), NEW r \in Rules
    PROVE  Keeps(r)'
<1>0. Staged(r) /\ Keeps(r) BY DEF StagedInv, OutcomeInv
<1>1. Moved(k) /\ UNCHANGED <<pc, session, expiry, misled>>
    BY AgentMoves, AgentKeepsWeb DEF Base
<1> SUFFICES ASSUME r \notin misled, Home[r] = "firewalld",
                    \/ pc[r] = "persist" /\ call'[r].stage = "ok"
                    \/ pc[r] = "finish"
                    \/ session[r] = "confirmed"
             PROVE  Asked(r)'
    BY <1>0, <1>1 DEF Keeps
<1>2. r \in Callers BY DEF Callers, Processes
<1>3. CASE /\ call[k].stage = "act" /\ call[k].rule = r /\ (Act(k) \/ Fail(k))
           /\ call[k].permanent
           /\ r \in kept'[Home[r]] <=> call[k].op # "delete"
    <2>1. InProgress(call[k]) BY <1>3 DEF InProgress
    <2>2. CASE k = r
        <3>1. pc[r] \in {"persist", "unpersist"}
              /\ (pc[r] = "persist" => call[r].op = TrialOp(r))
            BY <1>3, <2>1, <2>2, OwnCall
        <3>2. pc[r] = "persist"
            BY <1>0, <3>1 DEF Staged, Settling
        <3> QED BY <1>3, <2>2, <3>1, <3>2 DEF Asked, TrialOp
    <2>3. CASE k \in Late
        <3>1. \/ pc[r] \in {"unpersist", "rollback"}
              \/ pc[r] = "persist" /\ call[r].stage = "error"
              \/ session[r] \in {"rolled_back", "rollback_failed"}
            BY <1>3, <2>3 DEF LateInv
        <3>2. r # k BY <2>3, NamesAssumption DEF Processes
        <3>3. call'[r] = call[r] BY <1>1, <1>2, <3>2 DEF Moved
        <3> QED BY <1>0, <3>1, <3>3 DEF Staged, Settling
    <2> QED BY <1>3, <2>1, <2>2, <2>3, CallerOf
<1>4. CASE r \in kept'[Home[r]] <=> r \in kept[Home[r]]
    <2>1. CASE pc[r] = "finish" \/ session[r] = "confirmed"
        BY <1>0, <1>4, <2>1 DEF Keeps, Asked
    <2>2. CASE pc[r] = "persist" /\ call'[r].stage = "ok"
        <3>1. CASE k # r
            BY <1>0, <1>1, <1>2, <1>4, <2>2, <3>1 DEF Keeps, Asked, Moved
        <3>2. CASE k = r
            <4>1. InProgress(call[r]) BY <1>1, <3>2 DEF Moved
            <4>2. r \notin Late BY NamesAssumption DEF Processes
            <4>3. Act(r)
                BY <1>2, <2>2, <3>2, <4>1, <4>2, AnsweredBy, OwnRule
                   DEF InProgress
            <4> QED BY <2>2, <4>1, <4>3, OwnEffect, OwnCall
                    DEF Asked, TrialOp
        <3> QED BY <3>1, <3>2
    <2> QED BY <2>1, <2>2
<1> QED BY <1>3, <1>4, KeptStep

LEMMA TroubleGrows ==
    ASSUME Base, [Next]_vars, NEW r \in Rules
    PROVE  /\ trouble[r] \in 0..2 /\ trouble'[r] \in 0..2
           /\ trouble[r] =< trouble'[r]
BY CountsStep DEF Base, TypeOK, Counts, CountsTyped

\* How the call of a rule's handler ends when its effect is not the one asked
\* for: the failure is counted, unless the configuration was so already.
LEMMA OwnEnd ==
    ASSUME Base, RouteInv, ~ crossed, NEW r \in Rules, AgentStep(r),
           pc[r] \in {"persist", "unpersist"}, Home[r] = "firewalld",
           ~ InProgress(call'[r]), ~ Act(r)
    PROVE  \/ trouble'[r] = IF trouble[r] < 2 THEN trouble[r] + 1 ELSE 2
           \/ kept' = kept /\ (call[r].op = "add" <=> r \in kept[Home[r]])
<1>0. /\ r \in Callers /\ r \in Processes /\ r # Poller /\ r # None
      /\ r \notin Late
    BY NamesAssumption DEF Callers, Processes
<1>1. InProgress(call[r]) BY <1>0, AgentMoves DEF Base, Moved
<1>2. call[r].rule = r /\ call[r].permanent
    BY <1>1, OwnRule, OwnCall
<1>3. \/ Check(r) /\ Home[r] # adapter
      \/ Refuse(r)
      \/ Fail(r)
    BY <1>0, <1>2, AnsweredBy
<1>4. CASE Check(r) /\ Home[r] # adapter
    <2>1. Counted(r) BY <1>0, <1>2, <1>4 DEF Check
    <2> QED BY <1>0, <1>2, <2>1, CountedShape DEF Base
<1>5. CASE Fail(r)
    BY <1>0, <1>2, <1>5, CountedShape DEF Fail, Base
<1>6. CASE Refuse(r)
    <2>1. CASE ~ Reachable(call[r])
        BY <1>0, <1>2, <1>6, <2>1, CountedShape DEF Refuse, Base
    <2>2. CASE Reachable(call[r])
        <3>1. Redundant(call[r]) /\ kept' = kept /\ call[r].stage = "act"
            BY <1>6, <2>2 DEF Refuse, host
        <3>2. call[r].found = Home[r]
            BY <1>0, <1>2, <3>1 DEF RouteInv, Routed
        <3> QED BY <1>2, <3>1, <3>2 DEF Redundant, Target
    <2> QED BY <2>1, <2>2
<1> QED BY <1>3, <1>4, <1>5, <1>6

LEMMA UndoesByAgent ==
    ASSUME Base, RouteInv, StagedInv, LateInv, OutcomeInv, [Next]_vars,
           ~ crossed, NEW k \in Callers, AgentStep(k), NEW r \in Rules
    PROVE  Undoes(r)'
<1>0. Staged(r) /\ Undoes(r) BY DEF StagedInv, OutcomeInv
<1>1. Moved(k) /\ UNCHANGED <<pc, session>>
    BY AgentMoves, AgentKeepsWeb DEF Base
<1>2. /\ trouble[r] \in 0..2 /\ trouble'[r] \in 0..2
      /\ trouble[r] =< trouble'[r]
    BY TroubleGrows
<1>3. r \in Callers /\ r \notin Late
    BY NamesAssumption DEF Callers, Processes
<1> SUFFICES ASSUME trouble'[r] < 2 PROVE Undoes(r)'
    BY DEF Undoes
<1>4. trouble[r] < 2 BY <1>2
\* Another call, or one that changes nothing, leaves what held.
<1>5. CASE k # r
    <2>1. call'[r] = call[r] BY <1>1, <1>3, <1>5 DEF Moved
    <2>2. Orig(r)' <=> Orig(r)
        <3>1. ~ (call[k].stage = "act" /\ call[k].rule = r)
            <4> SUFFICES ASSUME call[k].stage = "act", call[k].rule = r
                         PROVE  FALSE
                OBVIOUS
            <4>1. k \in Late BY <1>5, CallerOf DEF InProgress
            <4> QED BY <1>4, <4>1 DEF LateInv
        <3> QED BY <3>1, KeptStep DEF Orig
    <2> QED BY <1>0, <1>1, <1>2, <1>4, <2>1, <2>2 DEF Undoes
<1>6. CASE k = r
    <2>1. InProgress(call[r]) BY <1>1, <1>6 DEF Moved
    <2>2. /\ pc[r] \in Calling
          /\ call[r].permanent <=> pc[r] \in {"persist", "unpersist"}
          /\ pc[r] \in {"trial", "persist"} => call[r].op = TrialOp(r)
          /\ pc[r] \in {"unpersist", "rollback"} => call[r].op = Inverse(r)
        BY <2>1, OwnCall
    <2>3. /\ call'[r].stage # "none"
          /\ InProgress(call'[r]) \/ call'[r].stage \in {"ok", "error"}
        BY <1>1, <1>3, <1>6 DEF Moved, Ended, InProgress
    <2>4. CASE Home[r] # "firewalld"
        <3>1. Home[r] = "ufw" BY <2>4, RulesAssumption DEF Managed
        <3>2. session[r] # "rolled_back"
            BY <1>0, <2>2, RulesAssumption DEF Staged, Settling, Calling
        <3>3. ASSUME pc[r] = "rollback", call'[r].stage = "ok"
              PROVE  Orig(r)'
            <4>1. Act(r)
                BY <1>3, <1>6, <2>1, <3>3, AnsweredBy, OwnRule DEF InProgress
            <4> QED BY <2>2, <2>4, <3>3, <4>1, OwnEffect DEF Orig, Inverse
        <3> QED BY <1>1, <2>4, <3>2, <3>3 DEF Undoes
    <2>5. CASE Home[r] = "firewalld" /\ pc[r] \notin {"persist", "unpersist"}
        <3>1. Orig(r)' <=> Orig(r)
            BY <1>6, <2>2, <2>5, KeptStep DEF Orig
        <3> QED BY <1>0, <1>1, <1>4, <2>5, <3>1 DEF Undoes
    <2>6. CASE Home[r] = "firewalld" /\ pc[r] \in {"persist", "unpersist"}
        <3>0. session[r] = "pending" BY <1>0, <2>6 DEF Staged, Settling
        <3>1. CASE InProgress(call'[r])
            <4>1. Orig(r)' <=> Orig(r)
                <5>1. ~ (Act(r) \/ Fail(r))
                    <6> SUFFICES ASSUME Act(r) \/ Fail(r) PROVE FALSE
                        OBVIOUS
                    <6>1. Reply(r, "ok") \/ Reply(r, "error")
                        BY DEF Act, Fail
                    <6>2. call[r].rule \in Rules
                        BY <1>3 DEF Act, Fail, Base, TypeOK, CallType
                    <6> QED BY <1>3, <2>1, <3>1, <6>1, <6>2, ReplyMoves
                            DEF Base, TypeOK
                <5> QED BY <1>6, <5>1, KeptStep DEF Orig
            <4>2. call'[r].stage \notin {"hung", "error"} BY <3>1 DEF InProgress
            <4>3. /\ pc[r] = "persist" => Orig(r)
                  /\ pc[r] = "unpersist" => Orig(r) \/ trouble[r] >= 1
                BY <1>0, <1>4, <2>1, <2>6 DEF Undoes
            <4> QED BY <1>1, <1>2, <2>6, <3>0, <3>1, <4>1, <4>2, <4>3
                    DEF Undoes
        <3>2. CASE ~ InProgress(call'[r]) /\ Act(r)
            <4>2. call'[r].stage = "ok"
                BY <1>3, <2>6, <3>2, AnsweredBy, OwnRule, <2>1, <1>6
                   DEF Act, Check, Refuse, Fail, Reply, NoCall, Base, TypeOK
            <4>3. CASE pc[r] = "persist"
                BY <1>1, <2>6, <3>0, <3>2, <4>2, <4>3 DEF Undoes
            <4>4. CASE pc[r] = "unpersist"
                <5>1. Orig(r)'
                    BY <2>2, <3>2, <4>4, OwnEffect DEF Orig, Inverse
                <5> QED BY <1>1, <2>6, <3>0, <4>4, <5>1 DEF Undoes
            <4> QED BY <2>6, <4>3, <4>4
        <3>3. CASE ~ InProgress(call'[r]) /\ ~ Act(r)
            <4>1. \/ trouble'[r] = IF trouble[r] < 2 THEN trouble[r] + 1 ELSE 2
                  \/ kept' = kept /\ (call[r].op = "add" <=> r \in kept[Home[r]])
                BY <1>6, <2>6, <3>3, OwnEnd
            <4>2. CASE trouble'[r] = trouble[r] + 1
                <5>1. trouble'[r] >= 1 /\ trouble[r] = 0 BY <1>2, <4>2
                <5>2. CASE pc[r] = "persist"
                    BY <1>1, <2>6, <3>0, <3>3, <5>1, <5>2 DEF Undoes
                <5>3. CASE pc[r] = "unpersist"
                    <6>1. Orig(r)
                        BY <1>0, <1>4, <2>6, <5>1, <5>3 DEF Undoes
                    <6>2. \/ Orig(r)'
                          \/ /\ call[r].stage = "act" /\ Fail(r)
                             /\ call[r].op = "add" <=> r \notin kept[Home[r]]
                        BY <1>6, <2>6, <3>3, <6>1, KeptStep DEF Orig
                    <6>3. call[r].op = Inverse(r) BY <2>2, <5>3
                    <6>4. Orig(r)'
                        BY <6>1, <6>2, <6>3 DEF Orig, Inverse
                    <6> QED BY <1>1, <2>6, <3>0, <5>3, <6>4 DEF Undoes
                <5> QED BY <2>6, <5>2, <5>3
            <4>3. CASE kept' = kept /\ (call[r].op = "add" <=> r \in kept[Home[r]])
                <5>1. CASE pc[r] = "persist"
                    <6>1. Orig(r)
                        BY <1>0, <1>4, <2>1, <2>6, <5>1 DEF Undoes
                    <6>2. Orig(r)' BY <4>3, <6>1 DEF Orig
                    <6> QED BY <1>1, <2>6, <3>0, <3>3, <5>1, <6>2 DEF Undoes
                <5>2. CASE pc[r] = "unpersist"
                    <6>1. call[r].op = Inverse(r) BY <2>2, <5>2
                    <6>2. Orig(r)'
                        BY <4>3, <6>1 DEF Orig, Inverse
                    <6> QED BY <1>1, <2>6, <3>0, <5>2, <6>2 DEF Undoes
                <5> QED BY <2>6, <5>1, <5>2
            <4> QED BY <1>4, <4>1, <4>2, <4>3
        <3> QED BY <3>1, <3>2, <3>3
    <2> QED BY <2>4, <2>5, <2>6
<1> QED BY <1>5, <1>6

\* A rule's handler decides by what its calls answered.
LEMMA KeepsByHandler ==
    ASSUME Base, StagedInv, OutcomeInv, ~ crossed, NEW r \in Rules,
           HandlerStep(r)
    PROVE  Keeps(r)'
<1>0. /\ Staged(r) /\ Keeps(r) /\ TypeOK /\ r # Poller /\ r \in Processes
      /\ r \in Temporary => Home[r] = "ufw"
    BY NamesAssumption, RulesAssumption
       DEF StagedInv, OutcomeInv, Base, Processes
<1>1. Asked(r)' <=> Asked(r)
    BY <1>0, HandlersKeep DEF host, Asked
<1> SUFFICES ASSUME r \notin misled' PROVE Keeps(r)' BY DEF Keeps
<1>2. CASE Receive(r)
    BY <1>0, <1>1, <1>2, RuleWent
       DEF Receive, StatusTold, NotTold, Answered, Keeps, Staged, Labels,
           Calling
<1>3. CASE BeginTrial(r) \/ Rollback(r)
    BY <1>0, <1>1, <1>3, RuleWent
       DEF BeginTrial, Rollback, Keeps, Staged, Labels, Calling
<1>4. CASE Confirm(r)
    <2>1. remembered = Home[r] /\ r \notin misled
        BY <1>4 DEF Confirm, Misled
    <2> QED BY <1>0, <1>1, <1>4, <2>1, RuleWent
            DEF Confirm, Keeps, Labels, Calling
<1>5. CASE Expire(r)
    <2>1. r \notin misled /\ session' = session BY <1>5 DEF Expire, Misled
    <2>2. expiry[r] # "none" => expiry'[r] # "none"
        BY <1>0, <1>5 DEF Expire, TypeOK
    <2>3. pc'[r] \in {"idle", "expire"}
        BY <1>0, <1>5, RuleWent DEF Expire, Labels, Calling
    <2> QED BY <1>0, <1>1, <2>1, <2>2, <2>3 DEF Keeps
<1>6. CASE TrialAnswered(r)
    BY <1>0, <1>6, RuleWent
       DEF TrialAnswered, Answered, Keeps, Labels, TypeOK
<1>7. CASE PersistAnswered(r) \/ UnpersistAnswered(r)
    BY <1>0, <1>1, <1>7, RuleWent
       DEF PersistAnswered, UnpersistAnswered, Answered, Keeps, Staged,
           Settling, Labels, Calling
<1>8. CASE FinishConfirm(r)
    <2>1. remembered = Home[r] /\ r \notin misled
        BY <1>8 DEF FinishConfirm, Misled
    <2>2. /\ session'[r] = "confirmed" /\ pc'[r] = "idle"
          /\ r \in Temporary => expiry'[r] = "active"
        BY <1>0, <1>8, <2>1, RuleWent DEF FinishConfirm, Labels, TypeOK
    <2>3. Home[r] = "firewalld" => Asked(r)
        BY <1>0, <1>8, <2>1 DEF FinishConfirm, Keeps
    <2> QED BY <1>1, <2>2, <2>3 DEF Keeps
<1>9. CASE RollbackAnswered(r)
    BY <1>0, <1>9, RuleWent
       DEF RollbackAnswered, Answered, Keeps, Labels, TypeOK
<1>10. CASE ExpireAnswered(r)
    BY <1>0, <1>1, <1>10, RuleWent
       DEF ExpireAnswered, Answered, Keeps, Labels, TypeOK
<1> QED BY <1>0, <1>2, <1>3, <1>4, <1>5, <1>6, <1>7, <1>8, <1>9, <1>10
        DEF HandlerStep, Handle, Answer

LEMMA UndoesByHandler ==
    ASSUME Base, StagedInv, OutcomeInv, ~ crossed, NEW r \in Rules,
           HandlerStep(r)
    PROVE  Undoes(r)'
<1>0. /\ Staged(r) /\ Undoes(r) /\ TypeOK /\ r # Poller /\ r \in Processes
    BY NamesAssumption DEF StagedInv, OutcomeInv, Base, Processes
<1>1. (Orig(r)' <=> Orig(r)) /\ trouble' = trouble
    BY <1>0, HandlersKeep DEF host, Orig
<1>2. ~ InProgress(NoCall) BY NoCallTyped
<1> SUFFICES ASSUME trouble[r] < 2 PROVE Undoes(r)' BY <1>1 DEF Undoes
<1>3. CASE Receive(r)
    BY <1>0, <1>1, <1>3, RuleWent
       DEF Receive, StatusTold, NotTold, Answered, Undoes, Staged, Labels,
           Calling
<1>4. CASE BeginTrial(r) \/ Rollback(r)
    BY <1>0, <1>1, <1>4, RuleWent
       DEF BeginTrial, Rollback, Undoes, Labels, Calling
<1>5. CASE Confirm(r)
    BY <1>0, <1>1, <1>5, RuleWent DEF Confirm, Undoes, Labels, Calling
<1>6. CASE Expire(r)
    <2>1. session'[r] = "confirmed"
        BY <1>0, <1>6 DEF Expire, Staged
    <2>2. pc'[r] \in {"idle", "expire"}
        BY <1>0, <1>6, RuleWent DEF Expire, Labels, Calling
    <2> QED BY <2>1, <2>2 DEF Undoes
<1>7. CASE TrialAnswered(r)
    BY <1>0, <1>1, <1>7, RuleWent
       DEF TrialAnswered, Answered, Undoes, Staged, Labels, Calling, TypeOK
<1>8. CASE PersistAnswered(r) \/ UnpersistAnswered(r)
    <2>1. /\ session[r] = "pending" /\ session' = session
          /\ call[r].stage \in {"ok", "error"}
        BY <1>0, <1>8
           DEF PersistAnswered, UnpersistAnswered, Answered, Staged, Settling
    <2>2. ~ InProgress(call[r]) BY <2>1 DEF InProgress
    <2>3. CASE PersistAnswered(r)
        <3>1. \/ pc'[r] = "finish"
              \/ /\ pc'[r] = "unpersist" /\ call'[r].stage = "detect"
                 /\ pc[r] = "persist" /\ call[r].stage = "error"
            BY <1>0, <2>3, RuleWent
               DEF PersistAnswered, Answered, Labels, Calling
        <3>2. call'[r].stage = "detect" => InProgress(call'[r])
            BY DEF InProgress
        <3> QED BY <1>0, <1>1, <2>1, <3>1, <3>2 DEF Undoes
    <2>4. CASE UnpersistAnswered(r)
        <3>1. /\ pc[r] = "unpersist" /\ pc'[r] = "rollback"
              /\ call'[r].stage = "detect"
            BY <1>0, <2>4, RuleWent
               DEF UnpersistAnswered, Answered, Labels, Calling
        <3> QED BY <1>0, <1>1, <2>1, <2>2, <3>1 DEF Undoes
    <2> QED BY <1>8, <2>3, <2>4
<1>9. CASE FinishConfirm(r)
    BY <1>0, <1>9, RuleWent DEF FinishConfirm, Undoes, Labels, TypeOK
<1>10. CASE RollbackAnswered(r)
    <2>1. session[r] = "pending" /\ pc[r] = "rollback"
        BY <1>0, <1>10 DEF RollbackAnswered, Answered, Staged, Settling
    <2>2. pc'[r] = "idle" /\ (session'[r] = "rolled_back"
                              => call[r].stage = "ok")
          /\ session'[r] \in {"rolled_back", "rollback_failed"}
        BY <1>0, <1>10, RuleWent
           DEF RollbackAnswered, Answered, Labels, TypeOK
    <2> QED BY <1>0, <1>1, <2>1, <2>2 DEF Undoes
<1>11. CASE ExpireAnswered(r)
    BY <1>0, <1>11, RuleWent
       DEF ExpireAnswered, Answered, Undoes, Staged, Labels, TypeOK
<1> QED BY <1>0, <1>3, <1>4, <1>5, <1>6, <1>7, <1>8, <1>9, <1>10, <1>11
        DEF HandlerStep, Handle, Answer

\* A call given up and an agent that restarts count as the rule's failures.
LEMMA OutcomeByGiveUp ==
    ASSUME Base, OutcomeInv, ~ crossed, NEW p \in Processes, GiveUp(p),
           NEW r \in Rules
    PROVE  Keeps(r)' /\ Undoes(r)'
<1>1. PICK l \in Late :
         /\ InProgress(call[p]) /\ call[p].rule \in Rules
         /\ call'[p].stage = "error"
         /\ \A k \in Callers \ {l, p} : call'[k] = call[k]
         /\ UNCHANGED web
    BY GiveUpShape DEF Base
<1>2. /\ Keeps(r) /\ Undoes(r) /\ kept' = kept /\ misled' = misled
      /\ r \in Callers /\ r \in Processes /\ r # l
      /\ p \in Callers /\ p \notin Late
    BY NamesAssumption DEF OutcomeInv, GiveUp, host, Callers, Processes
<1>3. (Asked(r)' <=> Asked(r)) /\ (Orig(r)' <=> Orig(r))
    BY <1>2 DEF Asked, Orig
<1>4. CASE r = p
    <2>1. pc[p] # "snapshot" /\ call[p].rule = r
        BY <1>1, <1>4, OwnCall, OwnRule, NamesAssumption
    <2>2. trouble'[r] = 2 BY <2>1 DEF GiveUp
    <2>3. Undoes(r)' BY <2>2 DEF Undoes
    <2>4. Keeps(r)' BY <1>1, <1>2, <1>3, <1>4 DEF Keeps, web
    <2> QED BY <2>3, <2>4
<1>5. CASE r # p
    <2>1. call'[r] = call[r] BY <1>1, <1>2, <1>5
    <2>2. trouble'[r] < 2 => trouble[r] = trouble'[r]
        BY DEF GiveUp
    <2> QED BY <1>1, <1>2, <1>3, <2>1, <2>2 DEF Keeps, Undoes, web
<1> QED BY <1>4, <1>5

\* A call that hangs has failed, and is counted once.
LEMMA OutcomeByHang ==
    ASSUME Base, RouteInv, StagedInv, OutcomeInv, ~ crossed,
           NEW p \in Processes, Hang(p), NEW r \in Rules
    PROVE  Keeps(r)' /\ Undoes(r)'
<1>0. /\ Staged(r) /\ Keeps(r) /\ Undoes(r)
      /\ r \in Callers /\ r \in Processes /\ r \notin Late
      /\ p \in Callers /\ p \notin Late
    BY NamesAssumption DEF StagedInv, OutcomeInv, Callers, Processes
<1>1. /\ InProgress(call[p]) /\ call[p].stage = "act"
      /\ call[p].found = "firewalld" /\ call'[p].stage = "hung"
      /\ \A k \in Callers \ {p} : call'[k] = call[k]
      /\ UNCHANGED <<pc, session, expiry, misled>>
    BY HangShape DEF Base, web
<1>2. /\ trouble[r] \in 0..2 /\ trouble'[r] \in 0..2
      /\ trouble[r] =< trouble'[r]
      /\ call[p].rule = r => trouble'[r] = IF trouble[r] < 2
                                           THEN trouble[r] + 1 ELSE 2
    BY <1>0, CountedShape DEF Hang, Base, TypeOK
<1>3. \/ r \in kept'[Home[r]] <=> r \in kept[Home[r]]
      \/ /\ call[p].rule = r
         /\ Home[r] = "firewalld"
            => /\ call[p].permanent
               /\ call[p].op = "add" <=> r \notin kept[Home[r]]
         /\ r \in kept'[Home[r]] <=> call[p].op # "delete"
    <2>1. CASE UNCHANGED host BY <2>1 DEF host
    <2>2. CASE call[p].rule # None /\ Changed(call[p])
        BY <1>0, <1>1, <2>2, KeptByChange DEF Hang
    <2> QED BY <2>1, <2>2 DEF Hang
<1>4. CASE r # p
    <2>1. call[p].rule # r BY <1>0, <1>1, <1>4, CallerOf
    <2>2. (Asked(r)' <=> Asked(r)) /\ (Orig(r)' <=> Orig(r))
        BY <1>3, <2>1 DEF Asked, Orig
    <2>3. call'[r] = call[r] BY <1>0, <1>1, <1>4
    <2>4. trouble'[r] < 2 => trouble[r] < 2 BY <1>2
    <2> QED BY <1>0, <1>1, <1>2, <2>2, <2>3, <2>4 DEF Keeps, Undoes
<1>5. CASE r = p
    <2>1. /\ pc[r] \in Calling
          /\ call[r].permanent <=> pc[r] \in {"persist", "unpersist"}
          /\ pc[r] \in {"unpersist", "rollback"} => call[r].op = Inverse(r)
          /\ call[r].rule = None <=> pc[r] = "snapshot"
        BY <1>1, <1>5, OwnCall
    <2>2. pc[r] # "snapshot" => call[r].rule = r /\ Home[r] = "firewalld"
        BY <1>0, <1>1, <1>5, <2>1, OwnRule DEF RouteInv, Routed
    <2>3. CASE r \in kept'[Home[r]] <=> r \in kept[Home[r]]
        <3>1. (Asked(r)' <=> Asked(r)) /\ (Orig(r)' <=> Orig(r))
            BY <2>3 DEF Asked, Orig
        <3>2. Keeps(r)'
            BY <1>0, <1>1, <1>5, <2>1, <3>1 DEF Keeps
        <3>3. Undoes(r)'
            <4> SUFFICES ASSUME trouble'[r] < 2 PROVE Undoes(r)'
                BY DEF Undoes
            <4>1. trouble[r] < 2 BY <1>2
            <4>2. pc[r] # "snapshot" => trouble[r] = 0 /\ trouble'[r] = 1
                BY <1>2, <1>5, <2>2
            <4>3. CASE pc[r] = "unpersist"
                BY <1>0, <1>1, <1>5, <2>2, <3>1, <4>1, <4>2, <4>3 DEF Undoes
            <4>4. CASE pc[r] # "unpersist"
                BY <1>0, <1>1, <1>5, <2>2, <3>1, <4>1, <4>2, <4>4
                   DEF Undoes, InProgress
            <4> QED BY <4>3, <4>4
        <3> QED BY <3>2, <3>3
    <2>4. CASE /\ call[r].rule = r /\ Home[r] = "firewalld"
               /\ call[r].permanent
               /\ call[r].op = "add" <=> r \notin kept[Home[r]]
               /\ r \in kept'[Home[r]] <=> call[r].op # "delete"
        <3>1. pc[r] \in {"persist", "unpersist"} BY <2>1, <2>4
        <3>2. session[r] = "pending" BY <1>0, <3>1 DEF Staged, Settling
        <3>3. Keeps(r)'
            BY <1>0, <1>1, <1>5, <2>4, <3>1, <3>2 DEF Keeps
        <3>4. trouble'[r] < 2 => trouble[r] = 0 /\ trouble'[r] = 1
            BY <1>2, <1>5, <2>4
        <3>5. pc[r] = "unpersist" /\ trouble[r] = 0 => FALSE
            <4> SUFFICES ASSUME pc[r] = "unpersist", trouble[r] = 0 PROVE FALSE
                OBVIOUS
            <4>1. Orig(r) BY <1>0, <2>4 DEF Undoes
            <4> QED BY <2>1, <2>4, <4>1 DEF Orig, Inverse
        <3>6. Undoes(r)'
            BY <1>1, <1>5, <2>4, <3>1, <3>2, <3>4, <3>5 DEF Undoes, InProgress
        <3> QED BY <3>3, <3>6
    <2>5. r # None BY NamesAssumption
    <2> QED BY <1>3, <1>5, <2>1, <2>2, <2>3, <2>4, <2>5
<1> QED BY <1>4, <1>5

LEMMA OutcomeByTimeOut ==
    ASSUME Base, OutcomeInv, ~ crossed, NEW p \in Processes, TimeOut(p),
           NEW r \in Rules
    PROVE  Keeps(r)' /\ Undoes(r)'
<1>1. /\ Keeps(r) /\ Undoes(r) /\ r \in Callers
    BY DEF OutcomeInv, Callers, Processes
<1>2. /\ UNCHANGED <<kept, pc, session, expiry, misled, trouble>>
      /\ \/ call'[r] = call[r]
         \/ call[r].stage = "hung" /\ call'[r].stage = "error"
    BY <1>1, TimeOutShape DEF Base, host, web, history
<1>3. (Asked(r)' <=> Asked(r)) /\ (Orig(r)' <=> Orig(r))
    BY <1>2 DEF Asked, Orig
<1>4. CASE call'[r] = call[r]
    BY <1>1, <1>2, <1>3, <1>4 DEF Keeps, Undoes
<1>5. CASE call[r].stage = "hung" /\ call'[r].stage = "error"
    BY <1>1, <1>2, <1>3, <1>5 DEF Keeps, Undoes, InProgress
<1> QED BY <1>2, <1>4, <1>5

LEMMA OutcomeByRestart ==
    ASSUME Base, StagedInv, OutcomeInv, ~ crossed, AgentRestart, [Next]_vars,
           NEW r \in Rules
    PROVE  Keeps(r)' /\ Undoes(r)'
<1>1. /\ \/ call'[r] = call[r]
         \/ call[r] # NoCall /\ call'[r].stage = "error"
      /\ ~ InProgress(call'[r])
      /\ UNCHANGED web /\ misled' = misled /\ kept' = kept
    BY RestartShape DEF Base, Processes, Callers, AgentRestart, host
<1>2. /\ Staged(r) /\ Keeps(r) /\ Undoes(r)
      /\ (Asked(r)' <=> Asked(r)) /\ (Orig(r)' <=> Orig(r))
    BY <1>1 DEF StagedInv, OutcomeInv, Asked, Orig
<1>3. Keeps(r)' BY <1>1, <1>2 DEF Keeps, web
<1>4. /\ trouble[r] \in 0..2 /\ trouble'[r] \in 0..2
      /\ trouble[r] =< trouble'[r]
    BY TroubleGrows
<1>5. CASE call'[r] = call[r]
    <2> QED BY <1>1, <1>2, <1>3, <1>4, <1>5 DEF Undoes, web
<1>6. CASE call'[r] # call[r]
    <2>1. /\ call'[r].stage = "error"
          /\ pc[r] # "snapshot" /\ trouble[r] < 2
             => trouble'[r] = trouble[r] + 1
        BY <1>1, <1>6 DEF AgentRestart, Callers, Processes, NoCall
    <2> QED BY <1>1, <1>2, <1>3, <1>4, <2>1 DEF Undoes, web
<1> QED BY <1>3, <1>5, <1>6

LEMMA OutcomeStep ==
    ASSUME Base, RouteInv, StagedInv, LateInv, OutcomeInv, [Next]_vars
    PROVE  OutcomeInv'
<1> SUFFICES ASSUME ~ crossed', NEW r \in Rules
             PROVE  Keeps(r)' /\ Undoes(r)'
    BY DEF OutcomeInv
<1>1. ~ crossed BY CountsStep DEF Base, Counts
<1>2. CASE \E k \in Callers : AgentStep(k)
    BY <1>1, <1>2, KeepsByAgent, UndoesByAgent
<1>3. CASE \E p \in Processes : HandlerStep(p)
    <2>1. PICK p \in Processes : HandlerStep(p) BY <1>3
    <2>2. CASE p = r
        BY <1>1, <2>1, <2>2, KeepsByHandler, UndoesByHandler
    <2>3. CASE p # r
        BY <1>1, <2>1, <2>3, HandlerFrame, HandlersKeep
           DEF OutcomeInv, Keeps, Undoes, Asked, Orig, InProgress, Base, host
    <2> QED BY <2>2, <2>3
<1>4. CASE \E p \in Processes : GiveUp(p)
    BY <1>1, <1>4, OutcomeByGiveUp
<1>5. CASE AgentRestart
    BY <1>1, <1>5, OutcomeByRestart
<1>6. CASE Switch \/ UNCHANGED vars
    BY <1>1, <1>6 DEF Switch, vars, host, web, history, OutcomeInv, Keeps, Undoes,
                      Asked, Orig, InProgress
<1>7. CASE \E p \in Processes : Hang(p) \/ TimeOut(p)
    BY <1>1, <1>7, OutcomeByHang, OutcomeByTimeOut
<1> QED BY <1>2, <1>3, <1>4, <1>5, <1>6, <1>7, StepKinds

Outcomes == RouteInv /\ StagedInv /\ LateInv /\ OutcomeInv

LEMMA OutcomesHold == Spec => []Outcomes
<1>1. Init => StagedInv /\ LateInv
    BY NamesAssumption, NoCallTyped
       DEF Init, StagedInv, Staged, LateInv, Settling, Callers, Processes
<1>2. Init => Outcomes BY <1>1, RouteInit, OutcomeInit DEF Outcomes
<1>3. Base /\ Outcomes /\ [Next]_vars => Outcomes'
    BY RouteStep, StagedStep, LateStep, OutcomeStep DEF Outcomes
<1> QED BY <1>2, <1>3, BaseHolds, PTL DEF Spec

\* Whatever fails, is late or is restarted, a confirmed rule of firewalld is
\* permanent and a confirmed temporary rule of UFW has its expiry, if the web
\* process remembered the right backend and the agent used the right adapter.
THEOREM ConfirmedStays == Spec => []ConfirmedAsAsked
<1>1. Base /\ Outcomes => ConfirmedAsAsked
    <2> SUFFICES ASSUME Base, Outcomes, NEW r \in Rules,
                        session[r] = "confirmed", r \notin misled, ~ crossed
                 PROVE  IF Home[r] = "firewalld"
                        THEN r \in kept["firewalld"] <=> r \notin Deleted
                        ELSE r \in Temporary => expiry[r] # "none"
        BY DEF ConfirmedAsAsked
    <2> QED BY DEF Outcomes, OutcomeInv, Keeps, Asked
<1> QED BY <1>1, BaseHolds, OutcomesHold, PTL

\* A rollback that was answered undoes the trial, the permanent change of a
\* confirmation that failed included, if no more than one call of the rule
\* failed or hung and none was given up while the agent went on.
THEOREM RollbackUndoes == Spec => []OneFailureIsUndone
<1>1. Outcomes => OneFailureIsUndone
    BY DEF Outcomes, OutcomeInv, Undoes, Orig, OneFailureIsUndone
<1> QED BY <1>1, OutcomesHold, PTL
=============================================================================
