-------------------------- MODULE ServiceControl --------------------------
(***************************************************************************)
(* Starting and stopping the firewall itself.  The agent looks for the     *)
(* active backend before every call and acts on what it finds; a stop and  *)
(* a disabling open a session whose rollback is the inverse action         *)
(* (wallpilot/control.py, service_action; wallpilot/firewall.py,           *)
(* detect_firewall).                                                       *)
(*                                                                         *)
(* A step is one call of the agent or one SQLite transaction; one handler  *)
(* runs at a time, sessions may overlap.                                   *)
(***************************************************************************)
EXTENDS FiniteSets, Naturals

CONSTANTS
    Installed,  \* backends whose command is there
    UfwFirst,   \* the distribution prefers UFW (debian, ubuntu)
    Units,      \* read-only backends with a loaded systemd unit
    SessionIds,
    MaxFaults,  \* bound: calls that fail on their own
    MaxCrashes, \* bound: stops of the web process, reboots included
    None        \* no session

Managed  == {"firewalld", "ufw"}
ReadOnly == {"nftables", "iptables"}
Actions  == {"start", "stop", "restart", "reload", "enable", "disable"}

ASSUME InstalledAssumption ==
    /\ Installed \subseteq Managed \cup ReadOnly /\ Units \subseteq ReadOnly
    /\ UfwFirst \in BOOLEAN /\ None \notin SessionIds
ASSUME CountAssumption == MaxFaults \in Nat /\ MaxCrashes \in Nat

VARIABLES
    active,    \* backends that filter packets
    enabled,   \* backends that start with the host
    sessions,  \* table apply_sessions, kind 'service'
    pc,        \* what the handler does next
    job,       \* the action it did, or the session it rolled back
    faults, crashes,
    base       \* history: what the last stop or disabling found

handler == <<pc, job>>
vars == <<active, enabled, sessions, handler, faults, crashes, base>>

----------------------------------------------------------------------------
(* Detection: a managed backend that is active, else a read-only one, else *)
(* the first that is installed in the order of the distribution.           *)

Rank == [firewalld |-> IF UfwFirst THEN 2 ELSE 1,
         ufw |-> IF UfwFirst THEN 1 ELSE 2, nftables |-> 3, iptables |-> 4]

Preferred ==
    IF Installed = {} THEN "none"
    ELSE CHOOSE b \in Installed : \A c \in Installed : Rank[b] =< Rank[c]

\* Mutant: what is active is not looked at.
DetectedByPreference(S) == Preferred

Detected(S) ==
    LET found == IF S \cap Managed # {} THEN S \cap Managed ELSE S \cap ReadOnly
    IN
    IF found = {} THEN Preferred
    ELSE IF \E b \in found : found = {b} THEN CHOOSE b \in found : TRUE
    ELSE "conflict"

----------------------------------------------------------------------------
(* Calls.  UFW's service is its own switch, the others' is a systemd unit. *)

\* Mutant: whatever was detected is controlled.
ControllableAny(b) == TRUE

Controllable(b) == b \in Managed \cup Units

Switched(b, a, S) ==
    CASE a \in {"start", "restart"} -> S \cup {b}
      [] a = "stop" -> S \ {b}
      [] OTHER -> S

Effect(b, a) ==
    IF b = "ufw"
    THEN CASE a \in {"start", "enable"} ->
                  [active |-> active \cup {b}, enabled |-> enabled \cup {b}]
           [] a \in {"stop", "disable"} ->
                  [active |-> active \ {b}, enabled |-> enabled \ {b}]
           [] OTHER -> [active |-> active, enabled |-> enabled]
    ELSE [active  |-> Switched(b, a, active),
          enabled |-> CASE a = "enable" -> enabled \cup {b}
                        [] a = "disable" -> enabled \ {b}
                        [] OTHER -> enabled]

Unchanged == [active |-> active, enabled |-> enabled]

\* What a call may answer and leave behind.
Answers(a) ==
    LET b == Detected(active) IN
    IF ~ Controllable(b) \/ (a = "reload" /\ b \notin active \cup {"ufw"})
    THEN {[ok |-> FALSE, left |-> Unchanged, fault |-> 0]}
    ELSE {[ok |-> TRUE, left |-> Effect(b, a), fault |-> 0]}
         \cup {[ok |-> FALSE, left |-> x, fault |-> 1] :
                  x \in IF faults < MaxFaults
                        THEN {Unchanged, Effect(b, a)} ELSE {}}

Call(answer) ==
    /\ active' = answer.left.active /\ enabled' = answer.left.enabled
    /\ faults' = faults + answer.fault

\* Mutant: what was disabled is started.
InverseStarts(a) == "start"

Inverse(a) == IF a = "stop" THEN "start" ELSE "enable"

----------------------------------------------------------------------------
NoRow == [status |-> "none"]
SessionRow ==
    [status : {"pending", "confirmed", "rolled_back", "rollback_failed"},
     op     : {"stop", "disable"}]

Pending == {s \in SessionIds : sessions[s].status = "pending"}

Init ==
    /\ active \in SUBSET Installed
    /\ enabled \in SUBSET (Installed \cap (Managed \cup Units))
    /\ "ufw" \in active <=> "ufw" \in enabled
    /\ sessions = [s \in SessionIds |-> NoRow]
    /\ pc = "idle" /\ job = None
    /\ faults = 0 /\ crashes = 0
    /\ base = [session |-> None, op |-> "stop", active |-> active,
               enabled |-> enabled]

Go(label, x) == pc' = label /\ job' = x
Return == Go("idle", None)

SessionRoom == \E s \in SessionIds : sessions[s] = NoRow

\* POST /firewall/service-action.  A stop or a disabling that was answered goes
\* on to open its session.
ServiceAction(a) ==
    /\ pc = "idle" /\ SessionRoom
    /\ \E answer \in Answers(a) :
           /\ Call(answer)
           /\ IF answer.ok /\ a \in {"stop", "disable"}
              THEN Go("open", a) ELSE UNCHANGED handler
    /\ base' = [session |-> None, op |-> a, active |-> active,
                enabled |-> enabled]
    /\ UNCHANGED <<sessions, crashes>>

\* The session is judged by what its action found, unless others are open.
OpenSession ==
    /\ pc = "open"
    /\ \E s \in SessionIds :
           /\ sessions[s] = NoRow
           /\ sessions' = [sessions EXCEPT ![s] =
                               [status |-> "pending", op |-> job]]
           /\ base' = [base EXCEPT !.session =
                          IF Pending = {} THEN s ELSE None]
    /\ Return
    /\ UNCHANGED <<active, enabled, faults, crashes>>

\* confirm_apply does nothing else for a session of kind 'service'.
Confirm(s) ==
    /\ pc = "idle"
    /\ sessions[s].status = "pending"
    /\ sessions' = [sessions EXCEPT ![s].status = "confirmed"]
    /\ UNCHANGED <<active, enabled, handler, faults, crashes, base>>

\* rollback_apply, on request, from the watchdog or the command line.
RollBack(s) ==
    /\ pc = "idle"
    /\ sessions[s].status = "pending"
    /\ \E answer \in Answers(Inverse(sessions[s].op)) :
           /\ Call(answer)
           /\ Go(IF answer.ok THEN "rolled_back" ELSE "rollback_failed", s)
    /\ UNCHANGED <<sessions, crashes, base>>

SetStatus ==
    /\ pc \in {"rolled_back", "rollback_failed"}
    /\ sessions' = [sessions EXCEPT ![job].status = pc]
    /\ Return
    /\ UNCHANGED <<active, enabled, faults, crashes, base>>

\* The command emergency-start.
EmergencyStart ==
    /\ pc = "idle"
    /\ \E answer \in Answers("start") : Call(answer)
    /\ base' = [base EXCEPT !.session = None]
    /\ UNCHANGED <<sessions, handler, crashes>>

Crash ==
    /\ crashes < MaxCrashes
    /\ crashes' = crashes + 1
    /\ Return
    /\ UNCHANGED <<active, enabled, sessions, faults, base>>

\* The host starts again, with what is enabled; other programs may bring
\* read-only rules of their own.
Reboot ==
    /\ crashes < MaxCrashes
    /\ crashes' = crashes + 1
    /\ \E S \in SUBSET (Installed \cap ReadOnly) : active' = enabled \cup S
    /\ Return
    /\ UNCHANGED <<enabled, sessions, faults, base>>

Next ==
    \/ \E a \in Actions : ServiceAction(a)
    \/ OpenSession
    \/ \E s \in SessionIds : Confirm(s) \/ RollBack(s)
    \/ SetStatus
    \/ EmergencyStart
    \/ Crash \/ Reboot

Spec == Init /\ [][Next]_vars

----------------------------------------------------------------------------
TypeOK ==
    /\ active \in SUBSET Installed /\ enabled \in SUBSET Installed
    /\ sessions \in [SessionIds -> {NoRow} \cup SessionRow]
    /\ \/ pc = "idle" /\ job = None
       \/ pc = "open" /\ job \in {"stop", "disable"}
       \/ pc \in {"rolled_back", "rollback_failed"} /\ job \in SessionIds
    /\ faults \in 0 .. MaxFaults /\ crashes \in 0 .. MaxCrashes

\* WallPilot brings no second managed firewall up beside one that is active:
\* only a reboot can (detect_firewall; README.en.md "Multiple active backends
\* force read-only conflict mode").
AtMostOne(S) == \A b, c \in S \cap Managed : b = c
NoSecondStarted ==
    [][AtMostOne(active) /\ crashes' = crashes => AtMostOne(active')]_vars

\* A stop of what ran, or a disabling of what was enabled, with no other service
\* action, session or failure about.
Judged(s) ==
    /\ pc = "idle" /\ s = base.session
    /\ faults = 0 /\ crashes = 0
    /\ Detected(base.active) \in
           IF base.op = "stop" THEN base.active ELSE base.enabled

AsFound == active = base.active /\ enabled = base.enabled

Undone(s) ==
    /\ sessions[s].status # "rollback_failed"
    /\ sessions[s].status = "rolled_back" => AsFound

\* Rolling a stop or a disabling back leaves every backend as it was
\* (rollback_apply; docs/api.md: stopping and disabling open a session too).
ServiceRollsBack == \A s \in SessionIds : Judged(s) => Undone(s)

\* The backend is still the one detected once it is off.
StillDetected ==
    LET b == Detected(base.active) IN
    \/ base.op = "disable" /\ b # "ufw"
    \/ Detected(base.active \ {b}) = b

\* The same where detection finds the backend again.
DetectedRollsBack ==
    \A s \in SessionIds : Judged(s) /\ StillDetected => Undone(s)
=============================================================================
