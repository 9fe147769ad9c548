------------------------------ MODULE ZoneRules ------------------------------
(***************************************************************************)
(* Rules as what firewalld's zones hold: how WallPilot lists what it finds *)
(* (FirewalldAdapter.list_rules), and which element of which zone a change *)
(* of a rule names (FirewalldAdapter.apply_rule), over a trial, its        *)
(* confirmation or rollback, and the recycle bin.  A rule deleted is one   *)
(* that was listed, so the two have to fit together.                       *)
(*                                                                         *)
(* One rule is on trial at a time and a handler is one step; failing calls *)
(* and handlers that interleave are in ApplyProtocol.                      *)
(***************************************************************************)
EXTENDS FiniteSets, Naturals

CONSTANTS
    Zones,
    Words,      \* ports, protocols, addresses, names; "" is none
    Starts,     \* configurations to start from
    Written,    \* rules an administrator may draft
    MaxTrials,  \* bound: drafts that are tried
    MaxDefaults \* bound: changes of the default zone

----------------------------------------------------------------------------
(* What a zone holds.                                                      *)

Pairs == {"port", "source_port"}                            \* with a protocol
Names == {"service", "source", "protocol", "icmp_block"}
Endings == {"accept", "drop", "reject"}

Any == Words \cup {""}

\* The text of a rich rule, by what it says of source, destination, port,
\* protocol and service, and by its last word.
Texts == Any \X Any \X Any \X Any \X Any \X Endings

Elements ==
    [kind : Pairs, value : Words \X Words]
        \cup [kind : Names, value : {<<w>> : w \in Words}]
        \cup [kind : {"forward_port"}, value : Words \X Words \X Words]
        \cup [kind : {"masquerade"}, value : {<<>>}]
        \cup [kind : {"rich_rule"}, value : Texts]

Element(kind, value) == [kind |-> kind, value |-> value]

Configurations == [Zones -> SUBSET Elements]

----------------------------------------------------------------------------
(* Rules.  A rule's id is computed from all it says, so it is the rule.    *)

\* Its metadata has at most one key; the keys source_binding and
\* protocol_binding have the names of the elements here.
NoMeta == [kind |-> "none", value |-> <<>>]

Plain(z) ==
    [zone |-> z, action |-> "allow", protocol |-> "tcp", port |-> "",
     service |-> "", source |-> "", destination |-> "", comment |-> "",
     meta |-> NoMeta]

Action(text) ==
    CASE text[6] = "drop" -> "deny"
      [] text[6] = "reject" -> "reject"
      [] OTHER -> "allow"

\* Mutant: a forwarded port without where it goes.
PlainForward(e) ==
    CASE e.kind \in {"port", "service", "forward_port"} -> NoMeta
      [] e.kind = "source_port" -> Element("source_port", <<e.value[1]>>)
      [] OTHER -> e

\* What its metadata say of an element: all, unless the rule has a field.
Meta(e) ==
    CASE e.kind \in {"port", "service"} -> NoMeta
      [] e.kind = "source_port" -> Element("source_port", <<e.value[1]>>)
      [] e.kind = "forward_port" -> Element("forward_port", <<e.value[3]>>)
      [] OTHER -> e

Listed(z, e) ==
    LET r == [Plain(z) EXCEPT !.meta = Meta(e)]
        v == e.value
    IN
    CASE e.kind \in {"port", "forward_port"} ->
             [r EXCEPT !.port = v[1], !.protocol = v[2]]
      [] e.kind = "source_port" -> [r EXCEPT !.protocol = v[2]]
      [] e.kind = "service" -> [r EXCEPT !.service = v[1]]
      [] e.kind = "rich_rule" -> [r EXCEPT !.action = Action(v)]
      [] e.kind = "icmp_block" -> [r EXCEPT !.action = "deny"]
      [] OTHER -> r

RichText(r) ==
    <<r.source, r.destination, r.port, IF r.port = "" THEN "" ELSE r.protocol,
      IF r.port = "" THEN r.service ELSE "",
      CASE r.action = "allow" -> "accept"
        [] r.action = "deny" -> "drop"
        [] OTHER -> "reject">>

\* Mutant: the service is forgotten.
PortOf(r) == Element("port", <<r.port, r.protocol>>)

PortOrService(r) ==
    IF r.port # "" THEN Element("port", <<r.port, r.protocol>>)
    ELSE Element("service", <<r.service>>)

Simple(r) ==
    LET m == r.meta IN
    CASE m.kind = "none" -> PortOrService(r)
      [] m.kind = "source_port" ->
             Element("source_port", <<m.value[1], r.protocol>>)
      [] m.kind = "forward_port" ->
             Element("forward_port", <<r.port, r.protocol, m.value[1]>>)
      [] OTHER -> m

\* The element a change of a rule is about.
Named(r) ==
    IF r.meta.kind = "rich_rule" THEN r.meta
    ELSE IF r.source # "" \/ r.destination # "" \/ r.action # "allow"
         THEN Element("rich_rule", RichText(r))
         ELSE Simple(r)

----------------------------------------------------------------------------
(* The instance: rules drafted on the web page carry no metadata and have  *)
(* a port or a service.                                                    *)

Rules ==
    [zone : Zones \cup {""}, action : {"allow", "deny", "reject"},
     protocol : Any, port : Any, service : Any, source : Any,
     destination : Any, comment : Any,
     meta : Elements \cup {NoMeta}
                \cup [kind : {"source_port", "forward_port"},
                      value : {<<w>> : w \in Words}]]

Drafted ==
    {r \in Rules :
        r.meta = NoMeta /\ r.protocol # "" /\ (r.port # "" \/ r.service # "")}

ASSUME WordsAssumption == "" \notin Words /\ "tcp" \in Words
ASSUME ZonesAssumption == "" \notin Zones
ASSUME StartsAssumption == Starts \subseteq Configurations
ASSUME WrittenAssumption == Written \subseteq Drafted
ASSUME BoundsAssumption == MaxTrials \in Nat /\ MaxDefaults \in Nat

VARIABLES
    runtime,    \* the zones as they are in force, and as they are listed
    permanent,
    default,    \* the zone of rules that name none
    stage,      \* of the change: "idle", "draft", "trial"
    rule, op,   \* the change that is drafted or on trial
    bin,        \* deleted rules in the recycle bin, rows of one rule as one
    strayed,    \* history: the default zone changed under a trial
    trials, defaults

vars == <<runtime, permanent, default, stage, rule, op, bin, strayed, trials,
          defaults>>

NoRule == Plain("")

Init ==
    /\ runtime \in Starts
    /\ permanent = runtime
    /\ default \in Zones
    /\ stage = "idle"
    /\ rule = NoRule
    /\ op = "add"
    /\ bin = {}
    /\ strayed = FALSE
    /\ trials = 0
    /\ defaults = 0

ListedRules == UNION {{Listed(z, e) : e \in runtime[z]} : z \in Zones}

----------------------------------------------------------------------------
(* Changes of a zone.                                                      *)

\* Mutant: the rule's zone is forgotten.
DefaultZone(r) == default

\* Looked up anew in every call.
ZoneOf(r) == IF r.zone = "" THEN default ELSE r.zone

\* Mutant: a change is undone by itself.
SameOp(o) == o

Inverse(o) == IF o = "delete" THEN "add" ELSE "delete"

\* firewalld refuses a rich rule that says nothing but its last word.
Wellformed(e) ==
    e.kind = "rich_rule" => \E i \in 1..5 : e.value[i] # ""

\* firewalld refuses to add what is there and to remove what is not.
Accepts(config, o, r) ==
    LET e == Named(r) IN
    Wellformed(e) /\ (e \in config[ZoneOf(r)]) = (o = "delete")

Changed(config, o, r) ==
    [config EXCEPT ![ZoneOf(r)] =
        IF o = "delete" THEN @ \ {Named(r)} ELSE @ \cup {Named(r)}]

\* A call as made from a handler that goes on without it.
Attempted(config, o, r) ==
    IF Accepts(config, o, r) THEN Changed(config, o, r) ELSE config

----------------------------------------------------------------------------
(* The administrator.                                                      *)

Draft(o, r) ==
    /\ stage = "idle"
    /\ trials < MaxTrials
    /\ stage' = "draft"
    /\ rule' = r
    /\ op' = o
    /\ trials' = trials + 1
    /\ UNCHANGED <<runtime, permanent, default, bin, strayed, defaults>>

Write == \E r \in Written \ ListedRules : Draft("add", r)

PickListed == \E r \in ListedRules : Draft("delete", r)

PickDeleted == \E r \in bin \ ListedRules : Draft("restore", r)

\* What is to be restored is there again: its row is marked, nothing else.
FindRestored ==
    \E r \in bin \cap ListedRules :
        /\ stage = "idle"
        /\ bin' = bin \ {r}
        /\ UNCHANGED <<runtime, permanent, default, stage, rule, op, strayed,
                       trials, defaults>>

\* The draft is confirmed: it is tried, or refused and given up.
Try ==
    /\ stage = "draft"
    /\ IF Accepts(runtime, op, rule)
       THEN /\ stage' = "trial"
            /\ runtime' = Changed(runtime, op, rule)
       ELSE stage' = "idle" /\ UNCHANGED runtime
    /\ UNCHANGED <<permanent, default, rule, op, bin, strayed, trials, defaults>>

\* The trial is confirmed.  A permanent change that is refused is undone by
\* its inverse, and the trial with it.
Confirm ==
    /\ stage = "trial"
    /\ stage' = "idle"
    /\ IF Accepts(permanent, op, rule)
       THEN /\ permanent' = Changed(permanent, op, rule)
            /\ bin' = CASE op = "delete" -> bin \cup {rule}
                        [] op = "restore" -> bin \ {rule}
                        [] OTHER -> bin
            /\ UNCHANGED runtime
       ELSE /\ permanent' = Attempted(permanent, Inverse(op), rule)
            /\ runtime' = Attempted(runtime, Inverse(op), rule)
            /\ UNCHANGED bin
    /\ UNCHANGED <<default, rule, op, strayed, trials, defaults>>

\* The trial is cancelled or its time is over.
RollBack ==
    /\ stage = "trial"
    /\ stage' = "idle"
    /\ runtime' = Attempted(runtime, Inverse(op), rule)
    /\ UNCHANGED <<permanent, default, rule, op, bin, strayed, trials, defaults>>

\* Somebody gives firewalld another default zone.
SetDefault ==
    \E z \in Zones \ {default} :
        /\ defaults < MaxDefaults
        /\ default' = z
        /\ defaults' = defaults + 1
        /\ strayed' = (strayed \/ (stage = "trial" /\ rule.zone = ""))
        /\ UNCHANGED <<runtime, permanent, stage, rule, op, bin, trials>>

Next ==
    \/ Write
    \/ PickListed
    \/ PickDeleted
    \/ FindRestored
    \/ Try
    \/ Confirm
    \/ RollBack
    \/ SetDefault

Spec == Init /\ [][Next]_vars

----------------------------------------------------------------------------
(* Properties.                                                             *)

\* Types.  Above all, zones only ever hold elements in their proper form,
\* whichever rule named them: a source port with its protocol, a forwarded
\* port with where it goes.
TypeOK ==
    /\ runtime \in Configurations
    /\ permanent \in Configurations
    /\ default \in Zones
    /\ stage \in {"idle", "draft", "trial"}
    /\ rule \in Rules
    /\ op \in {"add", "delete", "restore"}
    /\ bin \subseteq Rules
    /\ strayed \in BOOLEAN
    /\ trials \in 0..MaxTrials
    /\ defaults \in 0..MaxDefaults

\* Two things in force are never listed as one rule: the id picked on the
\* page, and the id a batch deletion looks rules up by, names one element of
\* one zone.
NoSharedIds ==
    \A z1, z2 \in Zones : \A e1 \in runtime[z1], e2 \in runtime[z2] :
        Listed(z1, e1) = Listed(z2, e2) => z1 = z2 /\ e1 = e2

\* A trial of a rule that reads as an element is listed touches that element
\* of that zone and nothing else, be it deleted or brought back from the
\* bin; whatever else may have become of the default zone in between.
TrialActsOnListed ==
    [][\A z \in Zones, e \in Elements :
        (runtime' # runtime /\ stage = "draft" /\ rule = Listed(z, e)) =>
            runtime' = [runtime EXCEPT ![z] =
                            IF op = "delete" THEN @ \ {e} ELSE @ \cup {e}]]_vars

\* Between trials the zones in force are the permanent ones, whether changes
\* were confirmed, rolled back or refused, until the default zone changes
\* while a rule that names no zone is on trial.
InStep == stage # "trial" /\ ~strayed => runtime = permanent

=============================================================================
