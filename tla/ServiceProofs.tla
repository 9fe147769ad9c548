--------------------------- MODULE ServiceProofs ---------------------------
(***************************************************************************)
(* Theorems about ServiceControl, for every set of installed backends and  *)
(* every number of sessions, failing calls and reboots.                    *)
(***************************************************************************)
EXTENDS ServiceControl, TLAPS

----------------------------------------------------------------------------
(* Detection.                                                              *)

\* What is found among the installed backends and can be controlled is installed.
LEMMA PreferredInstalled ==
    Installed # {} => Preferred \in Installed
<1> SUFFICES ASSUME Installed # {}
             PROVE  \E b \in Installed : \A c \in Installed : Rank[b] =< Rank[c]
    BY DEF Preferred
<1> DEFINE first == IF UfwFirst THEN "ufw" ELSE "firewalld"
           second == IF UfwFirst THEN "firewalld" ELSE "ufw"
<1>1. Installed \subseteq {first, second, "nftables", "iptables"}
    BY InstalledAssumption DEF Managed, ReadOnly
<1>2. Rank[first] = 1 /\ Rank[second] = 2
    /\ Rank["nftables"] = 3 /\ Rank["iptables"] = 4
    BY InstalledAssumption DEF Rank
<1> HIDE DEF first, second
<1>3. CASE first \in Installed
    BY <1>1, <1>2, <1>3
<1>4. CASE first \notin Installed /\ second \in Installed
    BY <1>1, <1>2, <1>4
<1>5. CASE /\ first \notin Installed /\ second \notin Installed
           /\ "nftables" \in Installed
    BY <1>1, <1>2, <1>5
<1>6. CASE Installed \subseteq {"iptables"}
    <2>1. Installed = {"iptables"} BY <1>6
    <2> QED BY <1>2, <2>1
<1> QED BY <1>1, <1>3, <1>4, <1>5, <1>6

\* A call that takes effect reaches an installed backend.
LEMMA ControlledInstalled ==
    ASSUME NEW S \in SUBSET Installed, Controllable(Detected(S))
    PROVE  Detected(S) \in Installed
<1> DEFINE found == IF S \cap Managed # {} THEN S \cap Managed
                    ELSE S \cap ReadOnly
<1>1. Controllable(Detected(S)) => Detected(S) \notin {"none", "conflict"}
    BY InstalledAssumption DEF Controllable, Managed, ReadOnly
<1>2. CASE found = {}
    <2>1. Detected(S) = Preferred BY <1>2 DEF Detected
    <2> QED BY <2>1, <1>1, PreferredInstalled DEF Preferred
<1>3. CASE found # {}
    <2>1. \E b \in found : found = {b}
        BY <1>1, <1>3 DEF Detected
    <2>2. Detected(S) = CHOOSE b \in found : TRUE
        BY <1>3, <2>1 DEF Detected
    <2> QED BY <2>1, <2>2
<1> QED BY <1>2, <1>3

\* While at most one managed backend is active, the managed backend that is
\* detected is that one.
LEMMA DetectedIsActive ==
    ASSUME NEW S, AtMostOne(S), Detected(S) \in Managed
    PROVE  S \cap Managed \subseteq {Detected(S)}
<1>1. CASE S \cap Managed = {}
    BY <1>1
<1>2. CASE S \cap Managed # {}
    <2>1. PICK c \in S \cap Managed : S \cap Managed = {c}
        BY <1>2 DEF AtMostOne
    <2>2. Detected(S) = CHOOSE b \in S \cap Managed : TRUE
        BY <1>2, <2>1 DEF Detected
    <2> QED BY <2>1, <2>2
<1> QED BY <1>1, <1>2

----------------------------------------------------------------------------
(* Calls.                                                                  *)

\* Whatever a call answers, it left things alone or did its action on a backend
\* it may control.
LEMMA CallLeaves ==
    ASSUME NEW a, NEW answer \in Answers(a)
    PROVE  /\ \/ answer.left = Unchanged
              \/ /\ answer.left = Effect(Detected(active), a)
                 /\ Controllable(Detected(active))
           /\ answer.fault = 0 \/ (answer.fault = 1 /\ faults < MaxFaults)
BY DEF Answers

\* A call that did not fail on its own did its action, or was refused.
LEMMA CallTells ==
    ASSUME NEW a, NEW answer \in Answers(a), answer.fault = 0
    PROVE  /\ answer.ok => /\ answer.left = Effect(Detected(active), a)
                           /\ Controllable(Detected(active))
           /\ Controllable(Detected(active)) /\ a # "reload" => answer.ok
BY DEF Answers

\* An action adds or takes away at most the backend it is done on, and leaves
\* UFW one switch.
LEMMA EffectBounds ==
    ASSUME NEW b, NEW a
    PROVE  /\ Effect(b, a).active \in {active, active \cup {b}, active \ {b}}
           /\ Effect(b, a).enabled \in {enabled, enabled \cup {b}, enabled \ {b}}
           /\ ("ufw" \in active <=> "ufw" \in enabled) =>
                  ("ufw" \in Effect(b, a).active <=> "ufw" \in Effect(b, a).enabled)
<1>1. CASE b = "ufw"
    <2>1. CASE a \in {"start", "enable"}
        BY <1>1, <2>1 DEF Effect
    <2>2. CASE a \in {"stop", "disable"}
        BY <1>1, <2>2 DEF Effect
    <2>3. CASE a \notin {"start", "enable", "stop", "disable"}
        BY <1>1, <2>3 DEF Effect
    <2> QED BY <2>1, <2>2, <2>3
<1>2. CASE b # "ufw"
    <2>1. Effect(b, a).active = Switched(b, a, active)
        BY <1>2 DEF Effect
    <2>2. Switched(b, a, active) \in {active, active \cup {b}, active \ {b}}
        BY DEF Switched
    <2>3. Effect(b, a).enabled \in {enabled, enabled \cup {b}, enabled \ {b}}
        BY <1>2 DEF Effect
    <2> QED BY <1>2, <2>1, <2>2, <2>3
<1> QED BY <1>1, <1>2

----------------------------------------------------------------------------
(* Types.  UFW is enabled exactly when it is active, and the history speaks *)
(* of installed backends.                                                   *)

UfwIsOneSwitch ==
    /\ "ufw" \in active <=> "ufw" \in enabled
    /\ "ufw" \in base.active <=> "ufw" \in base.enabled

BaseTyped ==
    base \in [session : SessionIds \cup {None}, op : Actions,
              active : SUBSET Installed, enabled : SUBSET Installed]

Typed == TypeOK /\ BaseTyped /\ UfwIsOneSwitch

\* A call keeps both sets among the installed backends.
LEMMA CallTyped ==
    ASSUME Typed, NEW a, NEW answer \in Answers(a), Call(answer)
    PROVE  /\ active' \in SUBSET Installed /\ enabled' \in SUBSET Installed
           /\ "ufw" \in active' <=> "ufw" \in enabled'
           /\ faults' \in 0 .. MaxFaults
<1> DEFINE b == Detected(active)
<1>1. Controllable(b) => b \in Installed
    BY ControlledInstalled DEF Typed, TypeOK
<1>2. active' = answer.left.active /\ enabled' = answer.left.enabled
    BY DEF Call
<1>3. faults' \in 0 .. MaxFaults
    BY CallLeaves, CountAssumption DEF Call, Typed, TypeOK
<1>4. CASE answer.left = Unchanged
    BY <1>2, <1>3, <1>4 DEF Unchanged, Typed, TypeOK, UfwIsOneSwitch
<1>5. CASE answer.left = Effect(b, a) /\ Controllable(b)
    <2> HIDE DEF b
    <2>1. active' \in SUBSET Installed /\ enabled' \in SUBSET Installed
        BY <1>1, <1>2, <1>5, EffectBounds DEF Typed, TypeOK
    <2>2. "ufw" \in active' <=> "ufw" \in enabled'
        BY <1>2, <1>5, EffectBounds DEF Typed, UfwIsOneSwitch
    <2> QED BY <1>3, <2>1, <2>2
<1> QED BY <1>4, <1>5, CallLeaves

\* One session's row is opened, or its status changes.
LEMMA RowsTyped ==
    ASSUME sessions \in [SessionIds -> {NoRow} \cup SessionRow],
           NEW s \in SessionIds
    PROVE  /\ \A o \in {"stop", "disable"} :
                 [sessions EXCEPT ![s] = [status |-> "pending", op |-> o]]
                     \in [SessionIds -> {NoRow} \cup SessionRow]
           /\ \A v \in {"confirmed", "rolled_back", "rollback_failed"} :
                 sessions[s].status = "pending" =>
                 [sessions EXCEPT ![s].status = v]
                     \in [SessionIds -> {NoRow} \cup SessionRow]
<1>1. ASSUME NEW v \in {"confirmed", "rolled_back", "rollback_failed"},
             sessions[s].status = "pending"
      PROVE  [sessions EXCEPT ![s].status = v]
                 \in [SessionIds -> {NoRow} \cup SessionRow]
    <2>1. sessions[s] \in SessionRow
        BY <1>1 DEF NoRow
    <2>2. [sessions[s] EXCEPT !.status = v] \in SessionRow
        BY <2>1 DEF SessionRow
    <2> QED BY <2>2
<1> QED BY <1>1 DEF SessionRow

\* Who has rolled a session back has it still pending.
HoldsPending ==
    pc \in {"rolled_back", "rollback_failed"} => sessions[job].status = "pending"

TypeInv == Typed /\ HoldsPending

LEMMA TypedInit == Init => TypeInv
BY InstalledAssumption, CountAssumption
DEF Init, TypeInv, Typed, TypeOK, BaseTyped, UfwIsOneSwitch, HoldsPending,
    Actions, NoRow

LEMMA TypedStep ==
    ASSUME TypeInv, [Next]_vars
    PROVE  TypeInv'
<1> USE DEF TypeInv
<1> DEFINE Rows == [SessionIds -> {NoRow} \cup SessionRow]
<1>0. /\ active \in SUBSET Installed /\ enabled \in SUBSET Installed
      /\ sessions \in Rows
      /\ faults \in 0 .. MaxFaults /\ crashes \in 0 .. MaxCrashes
    BY DEF Typed, TypeOK
<1>1. ASSUME NEW a \in Actions, ServiceAction(a) PROVE TypeInv'
    <2>1. PICK answer \in Answers(a) :
              /\ Call(answer)
              /\ IF answer.ok /\ a \in {"stop", "disable"}
                 THEN Go("open", a) ELSE UNCHANGED handler
        BY <1>1 DEF ServiceAction
    <2>2. /\ active' \in SUBSET Installed /\ enabled' \in SUBSET Installed
          /\ "ufw" \in active' <=> "ufw" \in enabled'
          /\ faults' \in 0 .. MaxFaults
        BY <2>1, CallTyped
    <2>3. /\ pc = "idle" /\ job = None
          /\ sessions' = sessions /\ crashes' = crashes
          /\ base' = [session |-> None, op |-> a, active |-> active,
                      enabled |-> enabled]
        BY <1>1 DEF ServiceAction, Typed, TypeOK
    <2>4. \/ pc' = "idle" /\ job' = None
          \/ pc' = "open" /\ job' \in {"stop", "disable"}
        BY <2>1, <2>3 DEF Go, handler
    <2>5. TypeOK'
        BY <1>0, <2>2, <2>3, <2>4 DEF TypeOK
    <2>6. BaseTyped'
        BY <1>0, <2>3 DEF BaseTyped
    <2>7. UfwIsOneSwitch'
        BY <2>2, <2>3 DEF UfwIsOneSwitch, Typed
    <2>8. HoldsPending'
        BY <2>4 DEF HoldsPending
    <2> QED BY <2>5, <2>6, <2>7, <2>8 DEF Typed
<1>2. CASE OpenSession
    <2>1. PICK s \in SessionIds :
              /\ sessions' = [sessions EXCEPT ![s] =
                                 [status |-> "pending", op |-> job]]
              /\ base' = [base EXCEPT !.session =
                             IF Pending = {} THEN s ELSE None]
        BY <1>2 DEF OpenSession
    <2>2. /\ pc' = "idle" /\ job' = None
          /\ UNCHANGED <<active, enabled, faults, crashes>>
        BY <1>2 DEF OpenSession, Return, Go
    <2>3. job \in {"stop", "disable"}
        BY <1>2 DEF OpenSession, Typed, TypeOK
    <2>4. sessions' \in Rows
        BY <1>0, <2>1, <2>3, RowsTyped
    <2>5. TypeOK'
        BY <1>0, <2>2, <2>4 DEF TypeOK
    <2>6. BaseTyped' /\ UfwIsOneSwitch'
        BY <2>1, <2>2 DEF BaseTyped, UfwIsOneSwitch, Typed
    <2> QED BY <2>2, <2>5, <2>6 DEF Typed, HoldsPending
<1>3. ASSUME NEW s \in SessionIds, Confirm(s) PROVE TypeInv'
    <2>1. /\ pc = "idle" /\ sessions[s].status = "pending"
          /\ sessions' = [sessions EXCEPT ![s].status = "confirmed"]
          /\ UNCHANGED <<active, enabled, handler, faults, crashes, base>>
        BY <1>3 DEF Confirm
    <2>2. sessions' \in Rows
        BY <1>0, <2>1, RowsTyped
    <2>3. TypeOK' /\ BaseTyped' /\ UfwIsOneSwitch'
        BY <2>1, <2>2 DEF TypeOK, BaseTyped, UfwIsOneSwitch, Typed, handler
    <2> QED BY <2>1, <2>3 DEF Typed, HoldsPending, handler
<1>4. ASSUME NEW s \in SessionIds, RollBack(s) PROVE TypeInv'
    <2>1. PICK answer \in Answers(Inverse(sessions[s].op)) :
              /\ Call(answer)
              /\ Go(IF answer.ok THEN "rolled_back" ELSE "rollback_failed", s)
        BY <1>4 DEF RollBack
    <2>2. /\ active' \in SUBSET Installed /\ enabled' \in SUBSET Installed
          /\ "ufw" \in active' <=> "ufw" \in enabled'
          /\ faults' \in 0 .. MaxFaults
        BY <2>1, CallTyped
    <2>3. /\ sessions[s].status = "pending"
          /\ UNCHANGED <<sessions, crashes, base>>
        BY <1>4 DEF RollBack
    <2>4. pc' \in {"rolled_back", "rollback_failed"} /\ job' = s
        BY <2>1 DEF Go
    <2>5. TypeOK' /\ BaseTyped' /\ UfwIsOneSwitch'
        BY <1>0, <2>2, <2>3, <2>4 DEF TypeOK, BaseTyped, UfwIsOneSwitch, Typed
    <2> QED BY <2>3, <2>4, <2>5 DEF Typed, HoldsPending
<1>5. CASE SetStatus
    <2>1. /\ pc \in {"rolled_back", "rollback_failed"}
          /\ sessions' = [sessions EXCEPT ![job].status = pc]
          /\ pc' = "idle" /\ job' = None
          /\ UNCHANGED <<active, enabled, faults, crashes, base>>
        BY <1>5 DEF SetStatus, Return, Go
    <2>2. job \in SessionIds /\ sessions[job].status = "pending"
        BY <2>1 DEF Typed, TypeOK, HoldsPending
    <2>3. sessions' \in Rows
        BY <1>0, <2>1, <2>2, RowsTyped
    <2>4. TypeOK' /\ BaseTyped' /\ UfwIsOneSwitch'
        BY <2>1, <2>3 DEF TypeOK, BaseTyped, UfwIsOneSwitch, Typed
    <2> QED BY <2>1, <2>4 DEF Typed, HoldsPending
<1>6. CASE EmergencyStart
    <2>1. PICK answer \in Answers("start") : Call(answer)
        BY <1>6 DEF EmergencyStart
    <2>2. /\ active' \in SUBSET Installed /\ enabled' \in SUBSET Installed
          /\ "ufw" \in active' <=> "ufw" \in enabled'
          /\ faults' \in 0 .. MaxFaults
        BY <2>1, CallTyped
    <2>3. /\ pc = "idle"
          /\ base' = [base EXCEPT !.session = None]
          /\ UNCHANGED <<sessions, handler, crashes>>
        BY <1>6 DEF EmergencyStart
    <2>4. TypeOK' /\ BaseTyped' /\ UfwIsOneSwitch'
        BY <2>2, <2>3
        DEF TypeOK, BaseTyped, UfwIsOneSwitch, Typed, handler
    <2> QED BY <2>3, <2>4 DEF Typed, HoldsPending, handler
<1>7. CASE Crash \/ Reboot
    <2>1. active' \in SUBSET Installed
        BY <1>0, <1>7, InstalledAssumption DEF Crash, Reboot
    <2>2. "ufw" \in active' <=> "ufw" \in enabled'
        BY <1>7, InstalledAssumption
        DEF Crash, Reboot, ReadOnly, UfwIsOneSwitch, Typed
    <2>3. /\ pc' = "idle" /\ job' = None
          /\ crashes' \in 0 .. MaxCrashes
          /\ UNCHANGED <<enabled, sessions, faults, base>>
        BY <1>0, <1>7, CountAssumption DEF Crash, Reboot, Return, Go
    <2>4. TypeOK' /\ BaseTyped' /\ UfwIsOneSwitch'
        BY <2>1, <2>2, <2>3 DEF TypeOK, BaseTyped, UfwIsOneSwitch, Typed
    <2> QED BY <2>3, <2>4 DEF Typed, HoldsPending
<1>8. CASE UNCHANGED vars
    BY <1>8 DEF vars, handler, Typed, TypeOK, BaseTyped, UfwIsOneSwitch,
                HoldsPending
<1> QED BY <1>1, <1>2, <1>3, <1>4, <1>5, <1>6, <1>7, <1>8 DEF Next

THEOREM TypeInvHolds == Spec => []TypeInv
BY TypedInit, TypedStep, PTL DEF Spec

\* The tables hold what storage.py's CHECK clauses allow, a handler that goes on
\* has a session in hand, and only installed backends run or are enabled: what
\* detect_firewall finds and may control is installed.
THEOREM TypeCorrect == Spec => []TypeOK
<1>1. TypeInv => TypeOK
    BY DEF TypeInv, Typed
<1> QED BY <1>1, TypeInvHolds, PTL

----------------------------------------------------------------------------
(* At most one managed firewall.                                           *)

\* A call starts nothing beside a managed backend that is active.
LEMMA CallKeepsOne ==
    ASSUME NEW a, NEW answer \in Answers(a), Call(answer), AtMostOne(active)
    PROVE  AtMostOne(active')
<1> DEFINE b == Detected(active)
<1>1. active' \in {active, active \cup {b}, active \ {b}}
    BY CallLeaves, EffectBounds DEF Call, Unchanged
<1>2. b \in Managed => active \cap Managed \subseteq {b}
    BY DetectedIsActive
<1> HIDE DEF b
<1> QED BY <1>1, <1>2 DEF AtMostOne

\* WallPilot never starts a second managed firewall beside an active one
\* (detect_firewall, dispatch, service_action): only a reboot brings one up.
THEOREM NeverTwo == Spec => NoSecondStarted
<1>1. ASSUME [Next]_vars, AtMostOne(active), crashes' = crashes,
             crashes \in Nat
      PROVE  AtMostOne(active')
    <2>1. ASSUME NEW a \in Actions, ServiceAction(a) PROVE AtMostOne(active')
        BY <1>1, <2>1, CallKeepsOne DEF ServiceAction
    <2>2. ASSUME NEW s \in SessionIds, RollBack(s) PROVE AtMostOne(active')
        BY <1>1, <2>2, CallKeepsOne DEF RollBack
    <2>3. CASE EmergencyStart
        BY <1>1, <2>3, CallKeepsOne DEF EmergencyStart
    <2>4. CASE \/ OpenSession \/ SetStatus \/ UNCHANGED vars
               \/ \E s \in SessionIds : Confirm(s)
        BY <1>1, <2>4 DEF OpenSession, SetStatus, Confirm, vars
    <2>5. CASE Crash \/ Reboot
        BY <1>1, <2>5 DEF Crash, Reboot
    <2> QED BY <1>1, <2>1, <2>2, <2>3, <2>4, <2>5 DEF Next
<1>2. TypeInv => crashes \in Nat
    BY CountAssumption DEF TypeInv, Typed, TypeOK
<1>3. TypeInv /\ [Next]_vars =>
        [AtMostOne(active) /\ crashes' = crashes => AtMostOne(active')]_vars
    BY <1>1, <1>2
<1> QED BY <1>3, TypeInvHolds, PTL DEF Spec, NoSecondStarted

----------------------------------------------------------------------------
(* What is rolled back is as it was found.  The history is followed from   *)
(* the action over its session to the end of the rollback.                 *)

Clean == faults = 0 /\ crashes = 0

Aimed ==
    Detected(base.active) \in
        IF base.op = "stop" THEN base.active ELSE base.enabled

\* The action's effect on what it found.
AsDone ==
    LET b == Detected(base.active) IN
    /\ active = IF base.op = "stop" \/ b = "ufw"
                THEN base.active \ {b} ELSE base.active
    /\ enabled = IF base.op = "disable" \/ b = "ufw"
                 THEN base.enabled \ {b} ELSE base.enabled

\* Between the action and its session.
Opening ==
    pc = "open" =>
        /\ base.op = job
        /\ Clean => AsDone /\ Controllable(Detected(base.active))

\* The session judged is that of the last action, and no other is open.
Alone ==
    /\ pc = "open" => base.session = None
    /\ base.session # None =>
        /\ base.op \in {"stop", "disable"}
        /\ sessions[base.session] # NoRow
        /\ sessions[base.session].op = base.op
        /\ \A s \in SessionIds :
               sessions[s].status = "pending" => s = base.session
        /\ Clean => Controllable(Detected(base.active))

\* Until it is settled the action's effect is in force, then what it found.
Followed ==
    base.session # None /\ Clean /\ Aimed /\ StillDetected =>
        LET status == sessions[base.session].status IN
        /\ status = "pending" /\ pc = "idle" => AsDone
        /\ status = "rolled_back" \/ pc = "rolled_back" => AsFound
        /\ status # "rollback_failed" /\ pc # "rollback_failed"

HistoryInv == TypeInv /\ Opening /\ Alone /\ Followed

\* A stop and a disabling do what AsDone says.
LEMMA EffectDone ==
    ASSUME NEW b, NEW a \in {"stop", "disable"}
    PROVE  /\ Effect(b, a).active = IF a = "stop" \/ b = "ufw"
                                    THEN active \ {b} ELSE active
           /\ Effect(b, a).enabled = IF a = "disable" \/ b = "ufw"
                                     THEN enabled \ {b} ELSE enabled
<1>1. CASE b = "ufw"
    BY <1>1 DEF Effect
<1>2. CASE b # "ufw"
    <2>1. CASE a = "stop" BY <1>2, <2>1 DEF Effect, Switched
    <2>2. CASE a = "disable" BY <1>2, <2>2 DEF Effect, Switched
    <2> QED BY <2>1, <2>2
<1> QED BY <1>1, <1>2

\* The inverse of the action, done on what the action left, is aimed at the same
\* backend and brings back what the action found.
LEMMA InverseUndoes ==
    ASSUME BaseTyped, UfwIsOneSwitch, base.op \in {"stop", "disable"},
           Aimed, StillDetected, AsDone
    PROVE  LET b == Detected(base.active) IN
           /\ Detected(active) = b
           /\ Effect(b, Inverse(base.op)).active = base.active
           /\ Effect(b, Inverse(base.op)).enabled = base.enabled
<1> DEFINE b == Detected(base.active)
<1>1. /\ base.active \in SUBSET Installed /\ base.enabled \in SUBSET Installed
      /\ "ufw" \in base.active <=> "ufw" \in base.enabled
    BY DEF BaseTyped, UfwIsOneSwitch
<1>2. /\ b \in IF base.op = "stop" THEN base.active ELSE base.enabled
      /\ active = IF base.op = "stop" \/ b = "ufw"
                  THEN base.active \ {b} ELSE base.active
      /\ enabled = IF base.op = "disable" \/ b = "ufw"
                   THEN base.enabled \ {b} ELSE base.enabled
      /\ (base.op = "disable" /\ b # "ufw") \/ Detected(base.active \ {b}) = b
    BY DEF Aimed, AsDone, StillDetected
<1> HIDE DEF b
<1>3. Detected(active) = b
    <2>1. CASE base.op = "disable" /\ b # "ufw"
        BY <1>2, <2>1 DEF b
    <2>2. CASE base.op = "stop" \/ b = "ufw"
        BY <1>2, <2>2
    <2> QED BY <2>1, <2>2
<1>4. CASE b = "ufw"
    <2>1. Inverse(base.op) \in {"start", "enable"}
        BY DEF Inverse
    <2>2. /\ Effect(b, Inverse(base.op)).active = active \cup {b}
          /\ Effect(b, Inverse(base.op)).enabled = enabled \cup {b}
        BY <1>4, <2>1 DEF Effect
    <2> QED BY <1>1, <1>2, <1>3, <1>4, <2>2 DEF b
<1>5. CASE b # "ufw" /\ base.op = "stop"
    <2>1. Inverse(base.op) = "start"
        BY <1>5 DEF Inverse
    <2>2. /\ Effect(b, "start").active = active \cup {b}
          /\ Effect(b, "start").enabled = enabled
        BY <1>5 DEF Effect, Switched
    <2> QED BY <1>2, <1>3, <1>5, <2>1, <2>2 DEF b
<1>6. CASE b # "ufw" /\ base.op = "disable"
    <2>1. Inverse(base.op) = "enable"
        BY <1>6 DEF Inverse
    <2>2. /\ Effect(b, "enable").active = active
          /\ Effect(b, "enable").enabled = enabled \cup {b}
        BY <1>6 DEF Effect, Switched
    <2> QED BY <1>2, <1>3, <1>6, <2>1, <2>2 DEF b
<1> QED BY <1>4, <1>5, <1>6

LEMMA HistoryInit == Init => HistoryInv
BY TypedInit DEF Init, HistoryInv, Opening, Alone, Followed

\* A call that answers without a fault costs none.
LEMMA CleanCall ==
    ASSUME TypeInv, NEW a, NEW answer \in Answers(a), Call(answer), Clean'
    PROVE  /\ Clean \/ crashes # crashes'
           /\ answer.fault = 0
<1>1. faults \in Nat /\ faults' = faults + answer.fault /\ faults' = 0
    BY CountAssumption DEF TypeInv, Typed, TypeOK, Call, Clean
<1>2. answer.fault \in {0, 1}
    BY CallLeaves
<1> QED BY <1>1, <1>2 DEF Clean

LEMMA HistoryStep ==
    ASSUME HistoryInv, [Next]_vars
    PROVE  HistoryInv'
<1> USE DEF HistoryInv
<1>0. TypeInv'
    BY TypedStep
<1>t. /\ sessions \in [SessionIds -> {NoRow} \cup SessionRow]
      /\ base.session \in SessionIds \cup {None}
      /\ pc = "open" => job \in {"stop", "disable"}
      /\ pc \in {"rolled_back", "rollback_failed"} =>
             job \in SessionIds /\ sessions[job].status = "pending"
      /\ None \notin SessionIds
    BY InstalledAssumption
    DEF TypeInv, Typed, TypeOK, BaseTyped, HoldsPending
<1>1. ASSUME NEW a \in Actions, ServiceAction(a) PROVE HistoryInv'
    <2>1. PICK answer \in Answers(a) :
              /\ Call(answer)
              /\ IF answer.ok /\ a \in {"stop", "disable"}
                 THEN Go("open", a) ELSE UNCHANGED handler
        BY <1>1 DEF ServiceAction
    <2>2. /\ pc = "idle"
          /\ base' = [session |-> None, op |-> a, active |-> active,
                      enabled |-> enabled]
        BY <1>1 DEF ServiceAction
    <2>3. ASSUME Clean', pc' = "open"
          PROVE  AsDone' /\ Controllable(Detected(base'.active))
        <3>1. answer.fault = 0
            BY <2>1, <2>3, CleanCall
        <3>2. answer.ok /\ a \in {"stop", "disable"} /\ job' = a
            BY <2>1, <2>2, <2>3 DEF Go, handler
        <3>3. /\ answer.left = Effect(Detected(active), a)
              /\ Controllable(Detected(active))
            BY <3>1, <3>2, CallTells
        <3>4. /\ active' = Effect(Detected(active), a).active
              /\ enabled' = Effect(Detected(active), a).enabled
            BY <2>1, <3>3 DEF Call
        <3>5. /\ base'.op = a
              /\ base'.active = active /\ base'.enabled = enabled
            BY <2>2
        <3>6. LET b == Detected(active) IN
              /\ active' = IF a = "stop" \/ b = "ufw"
                           THEN active \ {b} ELSE active
              /\ enabled' = IF a = "disable" \/ b = "ufw"
                            THEN enabled \ {b} ELSE enabled
            BY <3>2, <3>4, EffectDone
        <3>7. AsDone'
            BY <3>5, <3>6 DEF AsDone
        <3> QED BY <3>3, <3>5, <3>7
    <2>4. pc' = "open" => base'.op = job'
        BY <2>1, <2>2 DEF Go, handler
    <2>5. Opening'
        BY <2>3, <2>4 DEF Opening
    <2> QED BY <1>0, <2>2, <2>5 DEF Alone, Followed
<1>2. CASE OpenSession
    <2>1. PICK s \in SessionIds :
              /\ sessions[s] = NoRow
              /\ sessions' = [sessions EXCEPT ![s] =
                                 [status |-> "pending", op |-> job]]
              /\ base' = [base EXCEPT !.session =
                             IF Pending = {} THEN s ELSE None]
        BY <1>2 DEF OpenSession
    <2>2. /\ pc = "open" /\ pc' = "idle"
          /\ UNCHANGED <<active, enabled, faults, crashes>>
        BY <1>2 DEF OpenSession, Return, Go
    <2>3. CASE Pending # {}
        <3>1. base'.session = None
            BY <2>1, <2>3 DEF TypeInv, Typed, BaseTyped
        <3> QED BY <1>0, <2>2, <3>1 DEF Opening, Alone, Followed
    <2>4. CASE Pending = {}
        <3>1. /\ base'.session = s /\ base'.op = base.op
              /\ base'.active = base.active /\ base'.enabled = base.enabled
            BY <2>1, <2>4 DEF TypeInv, Typed, BaseTyped
        <3>2. /\ sessions'[s] = [status |-> "pending", op |-> job]
              /\ \A z \in SessionIds : z # s => sessions'[z] = sessions[z]
            BY <1>t, <2>1
        <3>3. \A z \in SessionIds : sessions'[z].status = "pending" => z = s
            BY <2>4, <3>2 DEF Pending
        <3>4. Clean' => Clean
            BY <2>2 DEF Clean
        <3>5. Clean => AsDone /\ Controllable(Detected(base.active))
            BY <2>2 DEF Opening
        <3>6. Opening' /\ Alone'
            <4>1. sessions'[s].status = "pending" /\ sessions'[s].op = job
                BY <3>2
            <4>2. sessions'[s] # NoRow
                BY <4>1 DEF NoRow
            <4>3. base.op = job
                BY <2>2 DEF Opening
            <4>4. Clean' => Controllable(Detected(base'.active))
                BY <3>1, <3>4, <3>5
            <4> QED BY <1>t, <2>2, <3>1, <3>3, <4>1, <4>2, <4>3, <4>4
                    DEF Opening, Alone
        <3>7. AsDone => AsDone'
            BY <2>2, <3>1 DEF AsDone
        <3>8. Followed'
            BY <2>2, <3>1, <3>2, <3>4, <3>5, <3>7 DEF Followed
        <3> QED BY <1>0, <3>6, <3>8
    <2> QED BY <2>3, <2>4
<1>3. ASSUME NEW s \in SessionIds, Confirm(s) PROVE HistoryInv'
    <2>1. /\ pc = "idle" /\ pc' = "idle" /\ base' = base
          /\ sessions[s].status = "pending"
          /\ sessions' = [sessions EXCEPT ![s].status = "confirmed"]
          /\ UNCHANGED <<faults, crashes>>
        BY <1>3 DEF Confirm, handler
    <2>2. Opening'
        BY <2>1 DEF Opening
    <2>3. CASE base.session = None
        BY <1>0, <2>1, <2>2, <2>3 DEF Alone, Followed
    <2>4. CASE base.session # None
        <3>1. s = base.session
            BY <2>1, <2>4 DEF Alone
        <3>2. sessions[s] \in SessionRow
            BY <1>t, <2>1 DEF NoRow
        <3>3. /\ sessions'[s].status = "confirmed"
              /\ sessions'[s].op = sessions[s].op
              /\ \A z \in SessionIds : z # s => sessions'[z] = sessions[z]
            BY <1>t, <2>1, <3>2 DEF SessionRow
        <3>4. sessions'[s] # NoRow
            BY <3>3 DEF NoRow
        <3>5. Alone'
            BY <2>1, <3>1, <3>3, <3>4 DEF Alone, Clean
        <3>6. Followed'
            BY <2>1, <3>1, <3>3 DEF Followed
        <3> QED BY <1>0, <2>2, <3>5, <3>6
    <2> QED BY <2>3, <2>4
<1>4. ASSUME NEW s \in SessionIds, RollBack(s) PROVE HistoryInv'
    <2>1. PICK answer \in Answers(Inverse(sessions[s].op)) :
              /\ Call(answer)
              /\ Go(IF answer.ok THEN "rolled_back" ELSE "rollback_failed", s)
        BY <1>4 DEF RollBack
    <2>2. /\ pc = "idle" /\ sessions[s].status = "pending"
          /\ UNCHANGED <<sessions, crashes, base>>
        BY <1>4 DEF RollBack
    <2>3. pc' = IF answer.ok THEN "rolled_back" ELSE "rollback_failed"
        BY <2>1 DEF Go
    <2>4. Clean' => Clean /\ answer.fault = 0
        BY <2>1, <2>2, CleanCall
    <2>5. Opening' /\ Alone'
        BY <2>2, <2>3, <2>4 DEF Opening, Alone
    <2>6. ASSUME base.session # None, Clean', Aimed, StillDetected
          PROVE  pc' = "rolled_back" /\ AsFound'
        <3>1. s = base.session /\ sessions[s].op = base.op
            BY <2>2, <2>6 DEF Alone
        <3>2. AsDone
            BY <2>2, <2>4, <2>6, <3>1 DEF Followed
        <3>3. /\ base.op \in {"stop", "disable"}
              /\ Controllable(Detected(base.active))
            BY <2>4, <2>6 DEF Alone
        <3>4. /\ Detected(active) = Detected(base.active)
              /\ Effect(Detected(active), Inverse(base.op)).active = base.active
              /\ Effect(Detected(active), Inverse(base.op)).enabled = base.enabled
            BY <2>6, <3>2, <3>3, InverseUndoes DEF TypeInv, Typed
        <3>5. Inverse(base.op) # "reload"
            BY DEF Inverse
        <3>6. /\ answer.ok
              /\ answer.left = Effect(Detected(active), Inverse(base.op))
            BY <2>4, <2>6, <3>1, <3>3, <3>4, <3>5, CallTells
        <3>7. active' = base.active /\ enabled' = base.enabled
            BY <2>1, <3>4, <3>6 DEF Call
        <3> QED BY <2>2, <2>3, <3>6, <3>7 DEF AsFound
    <2>7. base.session # None => sessions[base.session].status = "pending"
        BY <2>2 DEF Alone
    <2>8. Aimed' => Aimed
        BY <2>2 DEF Aimed
    <2>9. StillDetected' => StillDetected
        BY <2>2 DEF StillDetected
    <2>10. Followed'
        BY <2>2, <2>6, <2>7, <2>8, <2>9 DEF Followed
    <2> QED BY <1>0, <2>5, <2>10
<1>5. CASE SetStatus
    <2>1. /\ pc \in {"rolled_back", "rollback_failed"}
          /\ sessions' = [sessions EXCEPT ![job].status = pc]
          /\ pc' = "idle" /\ base' = base
          /\ UNCHANGED <<active, enabled, faults, crashes>>
        BY <1>5 DEF SetStatus, Return, Go
    <2>2. Opening'
        BY <2>1 DEF Opening
    <2>3. CASE base.session = None
        BY <1>0, <2>1, <2>2, <2>3 DEF Alone, Followed
    <2>4. CASE base.session # None
        <3>1. job \in SessionIds /\ job = base.session
            BY <1>t, <2>1, <2>4 DEF Alone
        <3>2. sessions[job] \in SessionRow
            BY <1>t, <2>1, <3>1 DEF NoRow
        <3>3. /\ sessions'[job].status = pc
              /\ sessions'[job].op = sessions[job].op
              /\ \A z \in SessionIds : z # job => sessions'[z] = sessions[z]
            BY <1>t, <2>1, <3>1, <3>2 DEF SessionRow
        <3>4. sessions'[job] # NoRow
            BY <2>1, <3>3 DEF NoRow
        <3>5. Alone'
            BY <2>1, <3>1, <3>3, <3>4 DEF Alone, Clean
        <3>6. /\ Clean' => Clean /\ (Aimed' => Aimed)
              /\ StillDetected' => StillDetected
              /\ AsFound => AsFound'
            BY <2>1 DEF Clean, Aimed, StillDetected, AsFound
        <3>7. Followed'
            BY <2>1, <2>4, <3>1, <3>3, <3>6 DEF Followed
        <3> QED BY <1>0, <2>2, <3>5, <3>7
    <2> QED BY <2>3, <2>4
<1>6. CASE EmergencyStart
    <2>1. /\ base'.session = None /\ pc' = "idle"
        BY <1>6 DEF EmergencyStart, handler, TypeInv, Typed, BaseTyped
    <2> QED BY <1>0, <2>1 DEF Opening, Alone, Followed
<1>7. CASE Crash \/ Reboot
    <2>1. ~ Clean' /\ pc' = "idle" /\ UNCHANGED <<sessions, base>>
        BY <1>7, CountAssumption
        DEF Crash, Reboot, Clean, Return, Go, TypeInv, Typed, TypeOK
    <2> QED BY <1>0, <2>1 DEF Opening, Alone, Followed
<1>8. CASE UNCHANGED vars
    BY <1>0, <1>8
    DEF vars, handler, Opening, Alone, Followed, Clean, Aimed, StillDetected,
        AsDone, AsFound
<1> QED BY <1>1, <1>2, <1>3, <1>4, <1>5, <1>6, <1>7, <1>8 DEF Next

\* Rolling a service session back leaves every backend as its action found it,
\* where detection finds the backend again (rollback_apply, service_action).
THEOREM RollbackRestores == Spec => []DetectedRollsBack
<1>1. HistoryInv => DetectedRollsBack
    BY InstalledAssumption
    DEF HistoryInv, Followed, DetectedRollsBack, Judged, Undone, Clean, Aimed
<1>2. Spec => []HistoryInv
    BY HistoryInit, HistoryStep, PTL DEF Spec
<1> QED BY <1>1, <1>2, PTL
=============================================================================
