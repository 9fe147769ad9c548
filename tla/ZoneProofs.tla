------------------------------ MODULE ZoneProofs ------------------------------
(***************************************************************************)
(* Proofs about ZoneRules.  Two facts carry them.  A rule that reads as an *)
(* element is listed names that element, or, for an ICMP block, a rich     *)
(* rule firewalld refuses (ListedNames); so ids are not shared and a trial *)
(* acts on what was picked.  And a change firewalld accepted is taken back *)
(* by its inverse, as long as it goes to the same zone (InverseUndoes).    *)
(***************************************************************************)
EXTENDS ZoneRules, TLAPS

----------------------------------------------------------------------------
(* Elements, listed and named.                                             *)

LEMMA ElementKinds ==
    ASSUME NEW e \in Elements
    PROVE  \/ e.kind \in Pairs /\ e.value \in Words \X Words
           \/ e.kind \in Names /\ \E w \in Words : e.value = <<w>>
           \/ e.kind = "forward_port" /\ e.value \in Words \X Words \X Words
           \/ e.kind = "masquerade" /\ e.value = <<>>
           \/ e.kind = "rich_rule" /\ e.value \in Texts
BY DEF Elements

LEMMA ElementIsRecord ==
    ASSUME NEW e \in Elements
    PROVE  e = Element(e.kind, e.value)
BY DEF Elements, Element

LEMMA ElementsMade ==
    /\ \A k \in Pairs, v \in Words \X Words : Element(k, v) \in Elements
    /\ \A k \in Names, w \in Words : Element(k, <<w>>) \in Elements
    /\ \A v \in Words \X Words \X Words : Element("forward_port", v) \in Elements
    /\ Element("masquerade", <<>>) \in Elements
    /\ \A v \in Texts : Element("rich_rule", v) \in Elements
BY DEF Elements, Element

\* What the metadata of a listed rule can be.
Metas ==
    Elements \cup {NoMeta}
        \cup [kind : {"source_port", "forward_port"}, value : {<<w>> : w \in Words}]

LEMMA MetaType ==
    ASSUME NEW e \in Elements
    PROVE  Meta(e) \in Metas
<1>1. CASE e.kind \in {"port", "service"}
  BY <1>1 DEF Meta, Metas
<1>2. CASE e.kind = "source_port"
  <2>1. e.value[1] \in Words
    BY <1>2, ElementKinds DEF Pairs, Names
  <2> QED  BY <1>2, <2>1 DEF Meta, Metas, Element
<1>3. CASE e.kind = "forward_port"
  <2>1. e.value[3] \in Words
    BY <1>3, ElementKinds DEF Pairs, Names
  <2> QED  BY <1>3, <2>1 DEF Meta, Metas, Element
<1>4. CASE e.kind \notin {"port", "service", "source_port", "forward_port"}
  BY <1>4 DEF Meta, Metas
<1> QED  BY <1>1, <1>2, <1>3, <1>4

LEMMA ListedType ==
    ASSUME NEW z \in Zones, NEW e \in Elements
    PROVE  Listed(z, e) \in Rules
<1> DEFINE r == [Plain(z) EXCEPT !.meta = Meta(e)]
<1>1. /\ r \in Rules
      /\ \A p, q \in Words : [r EXCEPT !.port = p, !.protocol = q] \in Rules
      /\ \A q \in Words : [r EXCEPT !.protocol = q] \in Rules
      /\ \A w \in Words : [r EXCEPT !.service = w] \in Rules
      /\ \A a \in {"allow", "deny", "reject"} : [r EXCEPT !.action = a] \in Rules
  BY MetaType, WordsAssumption DEF Rules, Plain, Metas, Any
<1>2. e.kind \in {"port", "forward_port", "source_port"} =>
          e.value[1] \in Words /\ e.value[2] \in Words
  BY ElementKinds DEF Pairs, Names
<1>3. e.kind = "service" => e.value[1] \in Words
  BY ElementKinds DEF Pairs, Names
<1>4. Action(e.value) \in {"allow", "deny", "reject"}
  BY DEF Action
<1>5. Listed(z, e) =
          CASE e.kind \in {"port", "forward_port"} ->
                   [r EXCEPT !.port = e.value[1], !.protocol = e.value[2]]
            [] e.kind = "source_port" -> [r EXCEPT !.protocol = e.value[2]]
            [] e.kind = "service" -> [r EXCEPT !.service = e.value[1]]
            [] e.kind = "rich_rule" -> [r EXCEPT !.action = Action(e.value)]
            [] e.kind = "icmp_block" -> [r EXCEPT !.action = "deny"]
            [] OTHER -> r
  BY DEF Listed
<1> HIDE DEF r
<1>6. CASE e.kind \in {"port", "forward_port"}
  BY <1>1, <1>2, <1>5, <1>6
<1>7. CASE e.kind = "source_port"
  BY <1>1, <1>2, <1>5, <1>7
<1>8. CASE e.kind = "service"
  BY <1>1, <1>3, <1>5, <1>8
<1>9. CASE e.kind \in {"rich_rule", "icmp_block"}
  BY <1>1, <1>4, <1>5, <1>9
<1>10. CASE e.kind \notin {"port", "forward_port", "source_port", "service",
                           "rich_rule", "icmp_block"}
  BY <1>1, <1>5, <1>10
<1> QED  BY <1>6, <1>7, <1>8, <1>9, <1>10

\* A listed rule, field by field.
LEMMA ListedFields ==
    ASSUME NEW z \in Zones, NEW e \in Elements
    PROVE  LET r == Listed(z, e) IN
           /\ r.zone = z /\ r.source = "" /\ r.destination = ""
           /\ r.meta = Meta(e)
           /\ r.action # "allow" => e.kind \in {"rich_rule", "icmp_block"}
           /\ e.kind = "icmp_block" =>
                  r.action = "deny" /\ r.port = "" /\ r.service = ""
           /\ e.kind \in {"port", "forward_port"} => r.port = e.value[1]
           /\ e.kind \in {"port", "forward_port", "source_port"} =>
                  r.protocol = e.value[2]
           /\ e.kind = "service" => r.port = "" /\ r.service = e.value[1]
BY DEF Listed, Plain

\* Firewalld is told of the element a rule was listed for, but for an ICMP
\* block: that is told as a rich rule without any condition, which it
\* refuses.
LEMMA ListedNames ==
    ASSUME NEW z \in Zones, NEW e \in Elements
    PROVE  /\ e.kind # "icmp_block" => Named(Listed(z, e)) = e
           /\ e.kind = "icmp_block" =>
                  /\ Named(Listed(z, e)) \in Elements
                  /\ ~Wellformed(Named(Listed(z, e)))
<1> DEFINE r == Listed(z, e)
<1>1. /\ r.zone = z /\ r.source = "" /\ r.destination = ""
      /\ r.meta = Meta(e)
      /\ r.action # "allow" => e.kind \in {"rich_rule", "icmp_block"}
      /\ e.kind = "icmp_block" =>
             r.action = "deny" /\ r.port = "" /\ r.service = ""
      /\ e.kind \in {"port", "forward_port"} => r.port = e.value[1]
      /\ e.kind \in {"port", "forward_port", "source_port"} =>
             r.protocol = e.value[2]
      /\ e.kind = "service" => r.port = "" /\ r.service = e.value[1]
  BY ListedFields
<1>2. e = Element(e.kind, e.value)
  BY ElementIsRecord
<1> HIDE DEF r
<1>3. e.kind \in {"source", "protocol", "masquerade"} \cup
          {"port", "source_port", "service", "icmp_block", "forward_port",
           "rich_rule"}
  BY ElementKinds DEF Pairs, Names
<1>4. CASE e.kind = "rich_rule"
  <2>1. r.meta = e
    BY <1>1, <1>4 DEF Meta
  <2> QED  BY <1>4, <2>1 DEF Named, r
<1>5. CASE e.kind = "icmp_block"
  <2>1. r.meta.kind = "icmp_block"
    BY <1>1, <1>5 DEF Meta
  <2>2. RichText(r) = <<"", "", "", "", "", "drop">>
    BY <1>1, <1>5 DEF RichText
  <2>3. Named(r) = Element("rich_rule", <<"", "", "", "", "", "drop">>)
    BY <1>1, <1>5, <2>1, <2>2 DEF Named
  <2>4. <<"", "", "", "", "", "drop">> \in Texts
    BY DEF Texts, Any, Endings
  <2>5. Named(r) \in Elements
    BY <2>3, <2>4, ElementsMade
  <2> DEFINE t == <<"", "", "", "", "", "drop">>
  <2>6. t[1] = "" /\ t[2] = "" /\ t[3] = "" /\ t[4] = "" /\ t[5] = ""
    OBVIOUS
  <2>10. Named(r) = Element("rich_rule", t)
    BY <2>3
  <2> HIDE DEF t
  <2>7. Named(r).kind = "rich_rule" /\ Named(r).value = t
    BY <2>10 DEF Element
  <2>8. \A i \in 1..5 : i = 1 \/ i = 2 \/ i = 3 \/ i = 4 \/ i = 5
    OBVIOUS
  <2>9. ~Wellformed(Named(r))
    BY <2>6, <2>7, <2>8 DEF Wellformed
  <2> QED  BY <1>5, <2>5, <2>9 DEF r
<1>6. CASE e.kind \in {"source", "protocol", "masquerade"}
  <2>1. r.meta = e
    BY <1>1, <1>6 DEF Meta
  <2> QED  BY <1>1, <1>6, <2>1 DEF Named, Simple, r
<1>7. CASE e.kind \in {"port", "service"}
  <2>1. r.meta = NoMeta
    BY <1>1, <1>7 DEF Meta
  <2>2. Named(r) = PortOrService(r)
    <3>1. r.meta.kind = "none"
      BY <2>1 DEF NoMeta
    <3>2. r.action = "allow"
      BY <1>1, <1>7
    <3> QED  BY <1>1, <3>1, <3>2 DEF Named, Simple
  <2>3. CASE e.kind = "port"
    <3>1. e.value \in Words \X Words
      BY <2>3, ElementKinds DEF Pairs, Names
    <3>2. e.value[1] \in Words /\ e.value = <<e.value[1], e.value[2]>>
      BY <3>1
    <3>3. e.value[1] # ""
      BY <3>2, WordsAssumption
    <3> QED  BY <1>1, <1>2, <2>2, <2>3, <3>2, <3>3 DEF PortOrService, r
  <2>4. CASE e.kind = "service"
    <3>1. e.value = <<e.value[1]>>
      BY <2>4, ElementKinds DEF Pairs, Names
    <3> QED  BY <1>1, <1>2, <2>2, <2>4, <3>1 DEF PortOrService, r
  <2> QED  BY <1>7, <2>3, <2>4
<1>8. CASE e.kind = "source_port"
  <2>1. r.meta = Element("source_port", <<e.value[1]>>)
    BY <1>1, <1>8 DEF Meta
  <2>2. e.value = <<e.value[1], e.value[2]>>
    BY <1>8, ElementKinds DEF Pairs, Names
  <2>3. Named(r) = Element("source_port", <<e.value[1], r.protocol>>)
    <3>1. r.meta.kind = "source_port" /\ r.meta.value[1] = e.value[1]
      BY <2>1 DEF Element
    <3>2. r.action = "allow"
      BY <1>1, <1>8
    <3> QED  BY <1>1, <3>1, <3>2 DEF Named, Simple
  <2> QED  BY <1>1, <1>2, <1>8, <2>2, <2>3 DEF r
<1>9. CASE e.kind = "forward_port"
  <2>1. r.meta = Element("forward_port", <<e.value[3]>>)
    BY <1>1, <1>9 DEF Meta
  <2>2. e.value = <<e.value[1], e.value[2], e.value[3]>>
    BY <1>9, ElementKinds DEF Pairs, Names
  <2>3. Named(r) = Element("forward_port", <<r.port, r.protocol, e.value[3]>>)
    <3>1. r.meta.kind = "forward_port" /\ r.meta.value[1] = e.value[3]
      BY <2>1 DEF Element
    <3>2. r.action = "allow"
      BY <1>1, <1>9
    <3> QED  BY <1>1, <3>1, <3>2 DEF Named, Simple
  <2> QED  BY <1>1, <1>2, <1>9, <2>2, <2>3 DEF r
<1> QED  BY <1>3, <1>4, <1>5, <1>6, <1>7, <1>8, <1>9

\* Metadata tell elements without a field of their own apart.
LEMMA ListedApart ==
    ASSUME NEW z1 \in Zones, NEW e1 \in Elements,
           NEW z2 \in Zones, NEW e2 \in Elements,
           Listed(z1, e1) = Listed(z2, e2)
    PROVE  z1 = z2 /\ e1 = e2
<1>1. z1 = z2 /\ Meta(e1) = Meta(e2)
  <2>1. Listed(z1, e1).zone = z1 /\ Listed(z1, e1).meta = Meta(e1)
    BY ListedFields
  <2>2. Listed(z2, e2).zone = z2 /\ Listed(z2, e2).meta = Meta(e2)
    BY ListedFields
  <2> QED  BY <2>1, <2>2
<1>2. e1.kind = "icmp_block" <=> e2.kind = "icmp_block"
  BY <1>1, ElementKinds DEF Meta, NoMeta, Element, Pairs, Names
<1>3. CASE e1.kind = "icmp_block"
  BY <1>1, <1>2, <1>3 DEF Meta
<1>4. CASE e1.kind # "icmp_block"
  BY <1>1, <1>2, <1>4, ListedNames
<1> QED  BY <1>1, <1>3, <1>4

----------------------------------------------------------------------------
(* Rules that come from the page or from a list.                           *)

AllListed == {Listed(z, e) : z \in Zones, e \in Elements}

Sound == Drafted \cup AllListed

LEMMA SoundType ==
    /\ Sound \subseteq Rules
    /\ NoRule \in Rules
<1>1. NoRule \in Rules
  BY WordsAssumption DEF NoRule, Plain, Rules, Any
<1>2. Drafted \subseteq Rules
  BY DEF Drafted
<1>3. ASSUME NEW r \in AllListed  PROVE r \in Rules
  <2>1. PICK z \in Zones, e \in Elements : r = Listed(z, e)
    BY DEF AllListed
  <2> QED  BY <2>1, ListedType
<1> QED  BY <1>1, <1>2, <1>3 DEF Sound

LEMMA DraftedNames ==
    ASSUME NEW r \in Drafted
    PROVE  Named(r) \in Elements
<1>1. /\ r.meta.kind = "none"
      /\ r.protocol \in Words
      /\ r.port \in Any /\ r.service \in Any
      /\ r.source \in Any /\ r.destination \in Any
      /\ r.port # "" \/ r.service # ""
  <2>1. r \in Rules /\ r.meta = NoMeta /\ r.protocol # ""
        /\ (r.port # "" \/ r.service # "")
    BY DEF Drafted
  <2>2. /\ r.protocol \in Any /\ r.port \in Any /\ r.service \in Any
        /\ r.source \in Any /\ r.destination \in Any
    BY <2>1 DEF Rules
  <2>3. r.meta.kind = "none"
    <3>1. NoMeta.kind = "none"
      BY DEF NoMeta
    <3> QED  BY <2>1, <3>1
  <2> QED  BY <2>1, <2>2, <2>3 DEF Any
<1>2. CASE r.source # "" \/ r.destination # "" \/ r.action # "allow"
  <2>1. Named(r) = Element("rich_rule", RichText(r))
    BY <1>1, <1>2 DEF Named
  <2>2. /\ (IF r.port = "" THEN "" ELSE r.protocol) \in Any
        /\ (IF r.port = "" THEN r.service ELSE "") \in Any
    BY <1>1 DEF Any
  <2>3. (CASE r.action = "allow" -> "accept"
           [] r.action = "deny" -> "drop"
           [] OTHER -> "reject") \in Endings
    BY DEF Endings
  <2>4. RichText(r) \in Texts
    BY <1>1, <2>2, <2>3 DEF RichText, Texts
  <2> QED  BY <2>1, <2>4, ElementsMade
<1>3. CASE ~(r.source # "" \/ r.destination # "" \/ r.action # "allow")
  <2>1. Named(r) = PortOrService(r)
    BY <1>1, <1>3 DEF Named, Simple
  <2>2. CASE r.port # ""
    BY <1>1, <2>1, <2>2, ElementsMade DEF PortOrService, Any, Pairs
  <2>3. CASE r.port = ""
    BY <1>1, <2>1, <2>3, ElementsMade DEF PortOrService, Any, Names
  <2> QED  BY <2>2, <2>3
<1> QED  BY <1>2, <1>3

LEMMA SoundNames ==
    ASSUME NEW r \in Sound
    PROVE  Named(r) \in Elements
<1>1. CASE r \in Drafted
  BY <1>1, DraftedNames
<1>2. CASE r \in AllListed
  <2>1. PICK z \in Zones, e \in Elements : r = Listed(z, e)
    BY <1>2 DEF AllListed
  <2> QED  BY <2>1, ListedNames
<1> QED  BY <1>1, <1>2 DEF Sound

----------------------------------------------------------------------------
(* Changes.                                                                *)

LEMMA ZoneOfType ==
    ASSUME NEW r \in Rules, default \in Zones
    PROVE  ZoneOf(r) \in Zones
BY DEF ZoneOf, Rules

LEMMA AttemptType ==
    ASSUME NEW config \in Configurations, NEW r \in Sound, NEW o,
           default \in Zones
    PROVE  /\ Changed(config, o, r) \in Configurations
           /\ Attempted(config, o, r) \in Configurations
<1>1. ZoneOf(r) \in Zones /\ Named(r) \in Elements
  BY SoundType, SoundNames, ZoneOfType
<1>2. Changed(config, o, r) \in Configurations
  BY <1>1 DEF Changed, Configurations
<1> QED  BY <1>2 DEF Attempted

\* What was accepted is taken back by the inverse, in the same zone.
LEMMA InverseUndoes ==
    ASSUME NEW config \in Configurations, NEW r \in Sound,
           NEW o \in {"add", "delete", "restore"},
           default \in Zones, Accepts(config, o, r)
    PROVE  Attempted(Changed(config, o, r), Inverse(o), r) = config
<1> DEFINE e == Named(r)
           z == ZoneOf(r)
           c == Changed(config, o, r)
           S == config[z]
<1>1. z \in Zones /\ e \in Elements
  BY SoundType, SoundNames, ZoneOfType
<1>2. Wellformed(e) /\ (e \in S) = (o = "delete")
  BY DEF Accepts
<1>3. c = [config EXCEPT ![z] = IF o = "delete" THEN S \ {e} ELSE S \cup {e}]
  BY DEF Changed
<1>4. config = [x \in Zones |-> config[x]]
  BY DEF Configurations
<1>5. Accepts(c, Inverse(o), r) <=>
          Wellformed(e) /\ (e \in c[z]) = (Inverse(o) = "delete")
  BY DEF Accepts
<1>6. Changed(c, Inverse(o), r) =
          [c EXCEPT ![z] =
              IF Inverse(o) = "delete" THEN c[z] \ {e} ELSE c[z] \cup {e}]
  BY DEF Changed
<1> HIDE DEF e, z, c
<1>7. CASE o = "delete"
  <2>1. Inverse(o) = "add" /\ e \in S
    BY <1>2, <1>7 DEF Inverse
  <2>2. c = [config EXCEPT ![z] = S \ {e}]
    BY <1>3, <1>7
  <2>3. c[z] = S \ {e}
    BY <1>1, <1>4, <2>2
  <2>4. Accepts(c, Inverse(o), r)
    BY <1>2, <1>5, <2>1, <2>3
  <2>5. c[z] \cup {e} = S
    BY <2>1, <2>3
  <2>6. Changed(c, Inverse(o), r) = [c EXCEPT ![z] = S]
    BY <1>6, <2>1, <2>5
  <2>7. [c EXCEPT ![z] = S] = config
    BY <1>1, <1>4, <2>2
  <2> QED  BY <2>4, <2>6, <2>7 DEF Attempted, c
<1>8. CASE o # "delete"
  <2>1. Inverse(o) = "delete" /\ e \notin S
    BY <1>2, <1>8 DEF Inverse
  <2>2. c = [config EXCEPT ![z] = S \cup {e}]
    BY <1>3, <1>8
  <2>3. c[z] = S \cup {e}
    BY <1>1, <1>4, <2>2
  <2>4. Accepts(c, Inverse(o), r)
    BY <1>2, <1>5, <2>1, <2>3
  <2>5. c[z] \ {e} = S
    BY <2>1, <2>3
  <2>6. Changed(c, Inverse(o), r) = [c EXCEPT ![z] = S]
    BY <1>6, <2>1, <2>5
  <2>7. [c EXCEPT ![z] = S] = config
    BY <1>1, <1>4, <2>2
  <2> QED  BY <2>4, <2>6, <2>7 DEF Attempted, c
<1> QED  BY <1>7, <1>8

----------------------------------------------------------------------------
(* The invariant.                                                          *)

SoundInv ==
    /\ stage # "idle" => rule \in Sound
    /\ bin \subseteq Sound

\* While a rule is on trial its change is one the permanent configuration
\* accepts and does not have.
TrialInv ==
    stage = "trial" /\ ~strayed =>
        /\ Accepts(permanent, op, rule)
        /\ runtime = Changed(permanent, op, rule)

IInv == TypeOK /\ SoundInv /\ TrialInv /\ InStep

LEMMA ListedRulesType ==
    ASSUME runtime \in Configurations
    PROVE  ListedRules \subseteq AllListed
<1>1. \A z \in Zones : runtime[z] \subseteq Elements
  BY DEF Configurations
<1>2. ASSUME NEW r \in ListedRules  PROVE r \in AllListed
  <2>1. PICK z \in Zones : r \in {Listed(z, e) : e \in runtime[z]}
    BY DEF ListedRules
  <2>2. PICK e \in runtime[z] : r = Listed(z, e)
    BY <2>1
  <2> QED  BY <1>1, <2>2 DEF AllListed
<1> QED  BY <1>2

LEMMA InitInv == Init => IInv
<1> SUFFICES ASSUME Init PROVE IInv
  OBVIOUS
<1>1. runtime \in Configurations /\ permanent = runtime
  BY StartsAssumption DEF Init
<1>2. TypeOK
  <2>1. 0 \in 0..MaxTrials /\ 0 \in 0..MaxDefaults
    BY BoundsAssumption
  <2> QED  BY <1>1, <2>1, SoundType DEF Init, TypeOK
<1>3. SoundInv /\ TrialInv /\ InStep
  BY <1>1 DEF Init, SoundInv, TrialInv, InStep
<1> QED  BY <1>2, <1>3 DEF IInv

\* A draft keeps everything, and what is drafted is sound.
LEMMA DraftKeeps ==
    ASSUME IInv, NEW o \in {"add", "delete", "restore"}, NEW r \in Sound,
           Draft(o, r)
    PROVE  IInv'
<1>1. stage = "idle" /\ stage' = "draft" /\ rule' = r /\ op' = o
  BY DEF Draft
<1>2. trials' \in 0..MaxTrials
  BY BoundsAssumption DEF Draft, IInv, TypeOK
<1>3. TypeOK'
  BY <1>1, <1>2, SoundType DEF IInv, TypeOK, Draft
<1>4. SoundInv'
  BY <1>1 DEF IInv, SoundInv, Draft
<1>5. InStep' /\ TrialInv'
  BY <1>1 DEF IInv, InStep, TrialInv, Draft
<1> QED  BY <1>3, <1>4, <1>5 DEF IInv

LEMMA TryKeeps == ASSUME IInv, Try PROVE IInv'
<1>1. stage = "draft" /\ rule \in Sound /\ runtime \in Configurations
      /\ default \in Zones
  BY DEF Try, IInv, SoundInv, TypeOK
<1>2. CASE Accepts(runtime, op, rule)
  <2>1. stage' = "trial" /\ runtime' = Changed(runtime, op, rule)
    BY <1>2 DEF Try
  <2>2. UNCHANGED <<permanent, default, rule, op, bin, strayed, trials, defaults>>
    BY DEF Try
  <2>3. runtime' \in Configurations
    BY <1>1, <2>1, AttemptType
  <2>4. TypeOK' /\ SoundInv'
    BY <1>1, <2>1, <2>2, <2>3 DEF IInv, TypeOK, SoundInv
  <2>5. InStep'
    BY <2>1 DEF InStep
  <2>6. ASSUME ~strayed'
        PROVE  Accepts(permanent, op, rule)' /\ runtime' = Changed(permanent, op, rule)'
    <3>1. runtime = permanent
      BY <1>1, <2>2, <2>6 DEF IInv, InStep
    <3>2. Accepts(permanent, op, rule)'
      BY <1>2, <2>2, <3>1 DEF Accepts, ZoneOf
    <3>3. runtime' = Changed(permanent, op, rule)'
      BY <2>1, <2>2, <3>1 DEF Changed, ZoneOf
    <3> QED  BY <3>2, <3>3
  <2> QED  BY <2>4, <2>5, <2>6 DEF IInv, TrialInv
<1>3. CASE ~Accepts(runtime, op, rule)
  <2>1. stage' = "idle" /\ UNCHANGED <<runtime, permanent, default, rule, op,
                                       bin, strayed, trials, defaults>>
    BY <1>3 DEF Try
  <2> QED  BY <1>1, <2>1 DEF IInv, TypeOK, SoundInv, TrialInv, InStep
<1> QED  BY <1>2, <1>3

LEMMA ConfirmKeeps == ASSUME IInv, Confirm PROVE IInv'
<1>1. /\ stage = "trial" /\ rule \in Sound /\ default \in Zones
      /\ runtime \in Configurations /\ permanent \in Configurations
      /\ op \in {"add", "delete", "restore"} /\ bin \subseteq Sound
  BY DEF Confirm, IInv, SoundInv, TypeOK
<1>2. stage' = "idle" /\ UNCHANGED <<default, rule, op, strayed, trials, defaults>>
  BY DEF Confirm
<1>3. CASE Accepts(permanent, op, rule)
  <2>1. UNCHANGED runtime /\ permanent' = Changed(permanent, op, rule)
    BY <1>3 DEF Confirm
  <2>2. permanent' \in Configurations
    BY <1>1, <2>1, AttemptType
  <2>3. InStep' /\ TrialInv'
    BY <1>1, <1>2, <2>1 DEF IInv, InStep, TrialInv
  <2>4. bin' = bin \cup {rule} \/ bin' = bin \ {rule} \/ bin' = bin
    BY <1>1, <1>3 DEF Confirm
  <2>5. bin' \subseteq Sound /\ bin' \subseteq Rules
    BY <1>1, <2>4, SoundType
  <2>6. TypeOK' /\ SoundInv'
    BY <1>1, <1>2, <2>1, <2>2, <2>5 DEF IInv, TypeOK, SoundInv
  <2> QED  BY <2>3, <2>6 DEF IInv
<1>4. CASE ~Accepts(permanent, op, rule)
  <2>1. /\ permanent' = Attempted(permanent, Inverse(op), rule)
        /\ runtime' = Attempted(runtime, Inverse(op), rule)
        /\ UNCHANGED bin
    BY <1>4 DEF Confirm
  <2>2. permanent' \in Configurations /\ runtime' \in Configurations
    BY <1>1, <2>1, AttemptType
  <2>3. TypeOK' /\ SoundInv'
    BY <1>1, <1>2, <2>1, <2>2 DEF IInv, TypeOK, SoundInv
  <2>4. strayed
    BY <1>1, <1>4 DEF IInv, TrialInv
  <2>5. InStep' /\ TrialInv'
    BY <1>2, <2>4 DEF InStep, TrialInv
  <2> QED  BY <2>3, <2>5 DEF IInv
<1> QED  BY <1>3, <1>4

LEMMA RollBackKeeps == ASSUME IInv, RollBack PROVE IInv'
<1>1. /\ stage = "trial" /\ rule \in Sound /\ default \in Zones
      /\ runtime \in Configurations /\ permanent \in Configurations
      /\ op \in {"add", "delete", "restore"}
  BY DEF RollBack, IInv, SoundInv, TypeOK
<1>2. /\ stage' = "idle" /\ runtime' = Attempted(runtime, Inverse(op), rule)
      /\ UNCHANGED <<permanent, default, rule, op, bin, strayed, trials, defaults>>
  BY DEF RollBack
<1>3. runtime' \in Configurations
  BY <1>1, <1>2, AttemptType
<1>4. TypeOK' /\ SoundInv' /\ TrialInv'
  BY <1>2, <1>3 DEF IInv, TypeOK, SoundInv, TrialInv
<1>5. ASSUME ~strayed  PROVE runtime' = permanent'
  <2>1. Accepts(permanent, op, rule) /\ runtime = Changed(permanent, op, rule)
    BY <1>1, <1>5 DEF IInv, TrialInv
  <2> QED  BY <1>1, <1>2, <2>1, InverseUndoes
<1> QED  BY <1>2, <1>4, <1>5 DEF IInv, InStep

LEMMA SetDefaultKeeps == ASSUME IInv, SetDefault PROVE IInv'
<1>1. PICK z \in Zones \ {default} :
          /\ defaults < MaxDefaults
          /\ default' = z
          /\ defaults' = defaults + 1
          /\ strayed' = (strayed \/ (stage = "trial" /\ rule.zone = ""))
          /\ UNCHANGED <<runtime, permanent, stage, rule, op, bin, trials>>
  BY DEF SetDefault
<1>2. defaults' \in 0..MaxDefaults
  <2>1. defaults \in 0..MaxDefaults
    BY DEF IInv, TypeOK
  <2>2. defaults < MaxDefaults /\ defaults' = defaults + 1
    BY <1>1
  <2> QED  BY <2>1, <2>2, BoundsAssumption
<1>3. strayed' \in BOOLEAN /\ (~strayed' => ~strayed /\ (stage = "trial" => rule.zone # ""))
  BY <1>1
<1>4. TypeOK' /\ SoundInv' /\ InStep'
  <2>1. TypeOK'
    BY <1>1, <1>2, <1>3 DEF IInv, TypeOK
  <2>2. SoundInv'
    BY <1>1 DEF IInv, SoundInv
  <2>3. InStep'
    BY <1>1, <1>3 DEF IInv, InStep
  <2> QED  BY <2>1, <2>2, <2>3
<1>5. ASSUME stage' = "trial", ~strayed'
      PROVE  Accepts(permanent, op, rule)' /\ runtime' = Changed(permanent, op, rule)'
  <2>1. ~strayed /\ stage = "trial" /\ rule.zone # ""
    BY <1>1, <1>3, <1>5
  <2>2. ZoneOf(rule)' = ZoneOf(rule)
    BY <1>1, <2>1 DEF ZoneOf
  <2>3. Accepts(permanent, op, rule) /\ runtime = Changed(permanent, op, rule)
    BY <2>1 DEF IInv, TrialInv
  <2> QED  BY <1>1, <2>2, <2>3 DEF Accepts, Changed
<1> QED  BY <1>4, <1>5 DEF IInv, TrialInv

LEMMA NextInv == IInv /\ [Next]_vars => IInv'
<1> SUFFICES ASSUME IInv, [Next]_vars PROVE IInv'
  OBVIOUS
<1>1. bin \subseteq Sound /\ runtime \in Configurations
  BY DEF IInv, SoundInv, TypeOK
<1>2. CASE Write
  <2>1. PICK r \in Written \ ListedRules : Draft("add", r)
    BY <1>2 DEF Write
  <2>2. r \in Sound
    BY WrittenAssumption DEF Sound
  <2> QED  BY <2>1, <2>2, DraftKeeps
<1>3. CASE PickListed
  <2>1. PICK r \in ListedRules : Draft("delete", r)
    BY <1>3 DEF PickListed
  <2>2. r \in Sound
    BY <1>1, ListedRulesType DEF Sound
  <2> QED  BY <2>1, <2>2, DraftKeeps
<1>4. CASE PickDeleted
  <2>1. PICK r \in bin \ ListedRules : Draft("restore", r)
    BY <1>4 DEF PickDeleted
  <2> QED  BY <1>1, <2>1, DraftKeeps
<1>5. CASE FindRestored
  <2>1. /\ bin' \subseteq bin
        /\ UNCHANGED <<runtime, permanent, default, stage, rule, op, strayed,
                       trials, defaults>>
    BY <1>5 DEF FindRestored
  <2>2. TypeOK' /\ SoundInv' /\ InStep'
    BY <2>1 DEF IInv, TypeOK, SoundInv, InStep
  <2>3. TrialInv'
    BY <2>1 DEF IInv, TrialInv, Accepts, Changed, ZoneOf
  <2> QED  BY <2>2, <2>3 DEF IInv
<1>6. CASE Try
  BY <1>6, TryKeeps
<1>7. CASE Confirm
  BY <1>7, ConfirmKeeps
<1>8. CASE RollBack
  BY <1>8, RollBackKeeps
<1>9. CASE SetDefault
  BY <1>9, SetDefaultKeeps
<1>10. CASE UNCHANGED vars
  <2>1. TypeOK' /\ SoundInv' /\ InStep'
    BY <1>10 DEF IInv, TypeOK, SoundInv, InStep, vars
  <2>2. TrialInv'
    BY <1>10 DEF IInv, TrialInv, Accepts, Changed, ZoneOf, vars
  <2> QED  BY <2>1, <2>2 DEF IInv
<1> QED  BY <1>2, <1>3, <1>4, <1>5, <1>6, <1>7, <1>8, <1>9, <1>10 DEF Next

LEMMA Invariance == Spec => []IInv
BY InitInv, NextInv, PTL DEF Spec

----------------------------------------------------------------------------
(* Theorems.                                                               *)

\* Zones only hold elements in their proper form, whichever rule named them.
THEOREM TypeCorrect == Spec => []TypeOK
<1>1. IInv => TypeOK
  BY DEF IInv
<1> QED  BY <1>1, Invariance, PTL

\* Whatever the zones come to hold, no two elements share a listed rule's id.
THEOREM IdsAreNotShared == Spec => []NoSharedIds
<1>1. IInv => NoSharedIds
  <2> SUFFICES ASSUME IInv,
                      NEW z1 \in Zones, NEW z2 \in Zones,
                      NEW e1 \in runtime[z1], NEW e2 \in runtime[z2],
                      Listed(z1, e1) = Listed(z2, e2)
               PROVE  z1 = z2 /\ e1 = e2
    BY DEF NoSharedIds
  <2>1. e1 \in Elements /\ e2 \in Elements
    BY DEF IInv, TypeOK, Configurations
  <2> QED  BY <2>1, ListedApart
<1> QED  BY <1>1, Invariance, PTL

\* The configuration in force and the permanent one agree between trials,
\* until the default zone moves under the trial of a rule without a zone.
THEOREM ZonesStayInStep == Spec => []InStep
<1>1. IInv => InStep
  BY DEF IInv
<1> QED  BY <1>1, Invariance, PTL

\* A trial of a rule as it was listed changes the element it was listed for,
\* in that element's zone, and nothing else.
THEOREM TrialsActOnListed == Spec => TrialActsOnListed
<1>1. ASSUME IInv, [Next]_vars,
             NEW z \in Zones, NEW e \in Elements,
             runtime' # runtime, stage = "draft", rule = Listed(z, e)
      PROVE  runtime' = [runtime EXCEPT ![z] =
                             IF op = "delete" THEN @ \ {e} ELSE @ \cup {e}]
  <2>1. Try
    BY <1>1 DEF Next, vars, Write, PickListed, PickDeleted, Draft, FindRestored,
                Confirm, RollBack, SetDefault
  <2>2. Accepts(runtime, op, rule) /\ runtime' = Changed(runtime, op, rule)
    BY <1>1, <2>1 DEF Try
  <2>3. Wellformed(Named(rule))
    BY <2>2 DEF Accepts
  <2>4. Named(rule) = e
    BY <1>1, <2>3, ListedNames
  <2>5. ZoneOf(rule) = z
    <3>1. rule.zone = z
      BY <1>1, ListedFields
    <3> QED  BY <3>1, ZonesAssumption DEF ZoneOf
  <2> QED  BY <2>2, <2>4, <2>5 DEF Changed
<1>2. IInv /\ [Next]_vars =>
          [\A z \in Zones, e \in Elements :
              (runtime' # runtime /\ stage = "draft" /\ rule = Listed(z, e)) =>
                  runtime' = [runtime EXCEPT ![z] =
                                  IF op = "delete" THEN @ \ {e} ELSE @ \cup {e}]]_vars
  BY <1>1
<1> QED  BY <1>2, Invariance, PTL DEF Spec, TrialActsOnListed
=============================================================================
