----------------------------- MODULE MCMetadata -----------------------------
(* Two objects with one type each and two members, in every arrangement of *)
(* owners, names and keys, accepted or not; paths of up to two members.    *)
EXTENDS MemberPaths, TLC

CONSTANTS t1, t2, o1, o2, m1, m2, num

Type(t, o, n) == [id |-> t, owner |-> o, name |-> n]
Attribute(o, n, k, t) ==
    [owner |-> o, name |-> n, key |-> k, type |-> t, unresolved |-> FALSE]

TwoTypes == <<Type(t1, o1, "Text"), Type(t2, o2, "Code")>>
SecondMembers ==
    {Attribute(o, n, k, <<num>>) : o \in {o1, o2}, n \in {"Text", "Code"}, k \in {m1, m2}}
    \cup {[Attribute(o2, "Code", m2, NoType) EXCEPT !.unresolved = u] : u \in BOOLEAN}
    \cup {Attribute(o1, "Code", m2, <<t1, t2>>)}
MCContexts ==
    {[types |-> TwoTypes, members |-> <<Attribute(o1, "Text", m1, <<t>>), s>>] :
        t \in {t1, t2}, s \in SecondMembers}

Segments == {[name |-> "Text", id |-> m1], [name |-> NoName, id |-> m2],
             [name |-> "Parent", id |-> NoId], [name |-> "Code", id |-> NoId],
             [name |-> "Text", id |-> NoId]}
MCPaths ==
    {[members |-> <<>>, type |-> NoType]} \cup
    [members : {<<s>> : s \in Segments} \cup {<<s, r>> : s, r \in Segments},
     type : {NoType, <<num>>}]
MCFixedType == <<num>>
MCFiles ==
    [keys : UNION {[1..n -> {m1, m2, "Parent", "Code"}] : n \in 0..2},
     type : {NoType, <<num>>, <<t1>>}]

MCRoots == {<<t1>>, <<num>>, <<t1, t2>>}

\* Users and other programs start from nothing; what is asked was dumped.
MCNext ==
    /\ Next
    /\ command' = "none" => path' = NoPath \/ file' = NoFile
    /\ command' = "ask" => loaded # NotLoaded
MCSpec == Init /\ [][MCNext]_vars
=============================================================================
