----------------------------- MODULE ChildGeometry -----------------------------
(* Where the controls of one owner, the form or a panel, are and what their *)
(* edges are bound to.  A binding is kept by the control whose edge it is,  *)
(* and Form.bin has it again, the other way round, with the control or the  *)
(* owner it is bound to: decode_child_table counts both and refuses a form  *)
(* where they differ, encode_owner makes the second from the first.         *)
EXTENDS Integers, Sequences, FiniteSets, SequencesExt

CONSTANTS
    MaxCoordinate,  \* of an int32
    OtherControl    \* the id of a control with another owner

Form == 0           \* as the owner and as a target; a panel has its id

\* geometry_coordinates; an edge has the number of its name.
Coordinates == <<"Top", "Bottom", "Left", "Right", "VerticalCenter", "HorizontalCenter">>

EdgeOf(coordinate) == (CHOOSE i \in 1..6 : Coordinates[i] = coordinate) - 1

\* Where the dependants of an edge are: a centre shares the list of an edge.
BucketOf == (0 :> 1) @@ (1 :> 2) @@ (4 :> 2) @@ (2 :> 3) @@ (3 :> 4) @@ (5 :> 4)

IsEdge(coordinate) == EdgeOf(coordinate) < 4

-----------------------------------------------------------------------------
(* Bindings, from both ends.                                                *)

\* Of a binding: what it is bound to, and between what if it is in proportion.
Ends(anchor) == <<anchor.to>> \o anchor.between

\* The ends of all bindings of a control, each where its target keeps it.
Dependencies(c) ==
    FlattenSeq([i \in DOMAIN c.anchors |->
        LET a == c.anchors[i]
        IN  [j \in DOMAIN Ends(a) |->
                [source |-> <<c.id, EdgeOf(a.at)>>, target |-> Ends(a)[j].target,
                 bucket |-> BucketOf[EdgeOf(Ends(a)[j].at)]]]])

AllDependencies(controls) == FlattenSeq([i \in DOMAIN controls |-> Dependencies(controls[i])])

Sorted(sources) == SortSeq(sources, LAMBDA a, b : a[1] < b[1] \/ (a[1] = b[1] /\ a[2] < b[2]))

\* What the target has to keep; one source may be there several times.
Incoming(dependencies, target) ==
    [l \in 1..6 |->
        LET here == SelectSeq(dependencies, LAMBDA d : d.target = target /\ d.bucket = l)
        IN  Sorted([i \in DOMAIN here |-> here[i].source])]

\* require_incoming_graph
SameIncoming(observed, expected) == \A l \in 1..6 : Sorted(observed[l]) = expected[l]

WithinOwner(owner, controls) ==
    LET ids == {controls[i].id : i \in DOMAIN controls}
        all == AllDependencies(controls)
    IN  /\ \A i \in DOMAIN all : all[i].target \in ids \cup {owner}
        /\ \A i \in DOMAIN controls : \A j \in DOMAIN controls[i].anchors :
              IsEdge(controls[i].anchors[j].at)

-----------------------------------------------------------------------------
(* Reading Form.bin: the records of an owner, in any order.                 *)

NoTarget == [target |-> -1, edge |-> 6, offset |-> 0]

LinkReadable(link) == link = NoTarget \/ (link.target >= Form /\ link.edge \in 0..5)

RecordReadable(r) ==
    /\ r.right \in r.left..(r.left + MaxCoordinate) /\ r.right <= MaxCoordinate
    /\ r.bottom \in r.top..(r.top + MaxCoordinate) /\ r.bottom <= MaxCoordinate
    /\ \A s \in 1..6 : /\ LinkReadable(r.links[s][1]) /\ LinkReadable(r.links[s][2])
                       /\ r.links[s][1] = NoTarget => r.links[s][2] = NoTarget
    /\ \A l \in 1..6 : \A i \in DOMAIN r.incoming[l] :
          r.incoming[l][i][1] > 0 /\ r.incoming[l][i][2] \in 0..3

OnPage(f, p) == {i \in DOMAIN f.records : f.records[i].page = p}

\* The ordinals of the page are its places, its tab orders a permutation.
PageReadable(f, p) ==
    LET here == OnPage(f, p)
        n == Cardinality(here)
    IN  /\ {f.records[i].ordinal : i \in here} = 0..(n - 1)
        /\ {f.records[i].tab : i \in here} = 1..n

Linked(owner, link) ==
    [target |-> IF link.target = Form THEN owner ELSE link.target,
     at |-> Coordinates[link.edge + 1], offset |-> link.offset]

PositionDecoded(owner, r) ==
    LET bound == SelectSeq(<<1, 2, 3, 4, 5, 6>>, LAMBDA s : r.links[s][1] # NoTarget)
        anchor(s) == [at |-> Coordinates[s], to |-> Linked(owner, r.links[s][1]),
                      between |-> IF r.links[s][2] = NoTarget THEN <<>>
                                  ELSE <<Linked(owner, r.links[s][2])>>]
    IN  [id |-> r.id, commandBar |-> r.commandBar, left |-> r.left, top |-> r.top,
         width |-> r.right - r.left, height |-> r.bottom - r.top, visible |-> r.visible,
         tab |-> IF r.tab = r.ordinal + 1 THEN 0 ELSE r.tab, manual |-> r.manual,
         anchors |-> [i \in DOMAIN bound |-> anchor(bound[i])], dimensions |-> <<>>]

ChildrenDecoded(f) ==
    [owner |-> f.owner,
     pages |-> [p \in 1..f.pages |->
        LET here == OnPage(f, p - 1)
            at(o) == CHOOSE i \in here : f.records[i].ordinal = o
        IN  [o \in 1..Cardinality(here) |-> PositionDecoded(f.owner, f.records[at(o - 1)])]]]

AllControls(children) == FlattenSeq(children.pages)

\* The platform notes, with a command bar bound to the bottom of the form,
\* once that its own bottom depends on its top.
BoundToBottom(c) ==
    \E i \in DOMAIN c.anchors :
        LET a == c.anchors[i] IN a.at = "Bottom" /\ a.between = <<>>
                                 /\ a.to.target = Form /\ a.to.at = "Bottom"

DependsOnItself(f, r) ==
    /\ r.commandBar /\ f.owner = Form
    /\ BoundToBottom(PositionDecoded(f.owner, r))
    /\ Cardinality({i \in DOMAIN r.incoming[1] : r.incoming[1][i] = <<r.id, 1>>}) = 1

Observed(f, r) ==
    IF DependsOnItself(f, r) THEN [r.incoming EXCEPT ![1] = Remove(@, <<r.id, 1>>)]
                             ELSE r.incoming

ChildrenReadable(f) ==
    /\ \A i \in DOMAIN f.records : RecordReadable(f.records[i]) /\ f.records[i].page < f.pages
    /\ \A p \in 0..(f.pages - 1) : PageReadable(f, p)
    /\ \A i, j \in DOMAIN f.records : i # j => f.records[i].id # f.records[j].id
    /\ LET controls == AllControls(ChildrenDecoded(f))
           all == AllDependencies(controls)
       IN  /\ WithinOwner(f.owner, controls)
           /\ SameIncoming(f.incoming, Incoming(all, f.owner))
           /\ \A i \in DOMAIN f.records :
                 SameIncoming(Observed(f, f.records[i]), Incoming(all, f.records[i].id))

ChildrenWarn(f) == \E i \in DOMAIN f.records : DependsOnItself(f, f.records[i])

-----------------------------------------------------------------------------
(* Writing Form.bin.                                                        *)

TabOrders(page) == [i \in DOMAIN page |-> IF page[i].tab = 0 THEN i ELSE page[i].tab]

OneAnchorEach(c) == \A i, j \in DOMAIN c.anchors : i # j => c.anchors[i].at # c.anchors[j].at

PositionWritable(c) ==
    /\ c.dimensions = <<>> /\ OneAnchorEach(c)
    /\ c.width >= 0 /\ c.left <= MaxCoordinate - c.width
    /\ c.height >= 0 /\ c.top <= MaxCoordinate - c.height

ChildrenWritable(children) ==
    /\ \A p \in DOMAIN children.pages :
          LET page == children.pages[p] IN
          /\ {TabOrders(page)[i] : i \in DOMAIN page} = DOMAIN page
          /\ \A i \in DOMAIN page : PositionWritable(page[i])
    /\ WithinOwner(children.owner, AllControls(children))

Bond(owner, end) ==
    [target |-> IF end.target = owner THEN Form ELSE end.target,
     edge |-> EdgeOf(end.at), offset |-> end.offset]

LinksEncoded(owner, c) ==
    [s \in 1..6 |->
        LET here == SelectSeq(c.anchors, LAMBDA a : a.at = Coordinates[s])
        IN  IF here = <<>> THEN <<NoTarget, NoTarget>>
            ELSE <<Bond(owner, here[1].to),
                   IF here[1].between = <<>> THEN NoTarget ELSE Bond(owner, here[1].between[1])>>]

PositionEncoded(owner, page, i, p, dependencies) ==
    LET c == page[i]
    IN  [id |-> c.id, commandBar |-> c.commandBar, left |-> c.left, top |-> c.top,
         right |-> c.left + c.width, bottom |-> c.top + c.height, visible |-> c.visible,
         links |-> LinksEncoded(owner, c), incoming |-> Incoming(dependencies, c.id),
         page |-> p - 1, ordinal |-> i - 1, tab |-> TabOrders(page)[i], manual |-> c.manual]

ChildrenEncoded(children) ==
    LET all == AllDependencies(AllControls(children))
        on(p) == [i \in DOMAIN children.pages[p] |->
                    PositionEncoded(children.owner, children.pages[p], i, p, all)]
    IN  [owner |-> children.owner, pages |-> Len(children.pages),
         incoming |-> Incoming(all, children.owner),
         records |-> SortSeq(FlattenSeq([p \in DOMAIN children.pages |-> on(p)]),
                             LAMBDA a, b : a.id < b.id)]

-----------------------------------------------------------------------------
(* Form.xml has the bindings with the control only, in any order, and a     *)
(* target that is in the document; it leaves the rest to the encoder.       *)

PositionSound(c, known) ==
    /\ {c.width, c.height} \subseteq 0..MaxCoordinate
    /\ OneAnchorEach(c)
    /\ \A i \in DOMAIN c.anchors : \A j \in DOMAIN Ends(c.anchors[i]) :
          Ends(c.anchors[i])[j].target \in known
    /\ IsInjective(c.dimensions)

ChildrenParse(children) ==
    LET all == AllControls(children)
        known == {Form, OtherControl, children.owner} \cup {all[i].id : i \in DOMAIN all}
    IN  \A i \in DOMAIN all : PositionSound(all[i], known)

\* What is the same: the tab orders that are in force, the bindings as a set.
SameChildren(children) ==
    [owner |-> children.owner,
     pages |-> [p \in DOMAIN children.pages |->
        LET page == children.pages[p]
        IN  [i \in DOMAIN page |->
                [page[i] EXCEPT !.tab = TabOrders(page)[i],
                                !.anchors = {page[i].anchors[j] : j \in DOMAIN page[i].anchors}]]]]

=============================================================================
