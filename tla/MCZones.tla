------------------------------ MODULE MCZones ------------------------------
(***************************************************************************)
(* An instance of ZoneRules with an element of every kind.  No word stands *)
(* for two things here, but "a" for a port, an address and a name.         *)
(***************************************************************************)
EXTENDS ZoneRules

MCWords == {"tcp", "a"}

Found ==
    {Element("port", <<"a", "tcp">>), Element("source_port", <<"a", "tcp">>),
     Element("service", <<"a">>), Element("source", <<"a">>),
     Element("protocol", <<"tcp">>), Element("icmp_block", <<"a">>),
     Element("forward_port", <<"a", "tcp", "a">>),
     Element("masquerade", <<>>),
     Element("rich_rule", <<"a", "", "a", "tcp", "", "drop">>)}

\* At most two elements, of one zone or of two.
MCStarts ==
    {s \in [Zones -> {x \in SUBSET Found : Cardinality(x) <= 2}] :
        Cardinality(UNION {{<<z, e>> : e \in s[z]} : z \in Zones}) <= 2}

Port == [NoRule EXCEPT !.port = "a"]

\* With and without a zone, plain and as a rich rule, with a comment.
MCWritten ==
    {Port, [Port EXCEPT !.zone = "z1"], [Port EXCEPT !.comment = "a"],
     [Port EXCEPT !.source = "a", !.action = "deny"],
     [NoRule EXCEPT !.zone = "z2", !.service = "a"]}
=============================================================================
