------------------------- MODULE MCControlRoundTrip -------------------------
(* Every kind of control that ControlRoundTrip has tables of, and the data *)
(* and values of ControlData.  The two share no state: while one is worked *)
(* on the other is idle.                                                   *)
EXTENDS ControlRoundTrip, MCControlData

-----------------------------------------------------------------------------
(* Controls: two or three of the form or of a panel; every binding of one of   *)
(* them, pairs of bindings, rectangles at the ends of an int32, every          *)
(* numbering of their places; as the encoder writes them, in another order,    *)
(* with a record changed, and with bindings that one end does not know of.     *)

Panel == 9
ChildOwners == {Form, Panel}

End(target, at) == [target |-> target, at |-> at, offset |-> 0]
Anchor(at, to) == [at |-> at, to |-> to, between |-> <<>>]
Between(at, to, other) == [at |-> at, to |-> to, between |-> <<[other EXCEPT !.offset = 3]>>]

Child(id, anchors) ==
    [id |-> id, commandBar |-> FALSE, left |-> 0, top |-> 0, width |-> 1, height |-> 1,
     visible |-> TRUE, tab |-> 0, manual |-> FALSE, anchors |-> anchors, dimensions |-> <<>>]

Children(owner, pages) == [owner |-> owner, pages |-> pages]

Names6 == {Coordinates[i] : i \in 1..6}
Targets == {Form, Panel, OtherControl, 1, 2}
AllEnds == {End(t, c) : t \in Targets, c \in Names6}
FewEnds(owner) == {End(t, c) : t \in {owner, 1, 2}, c \in {"Top", "Bottom", "VerticalCenter"}}

-----------------------------------------------------------------------------
(* Forms as the model has them.                                             *)

OneBinding ==
    {Children(o, <<<<Child(1, <<a>>), Child(2, <<>>)>>>>) :
        o \in ChildOwners,
        a \in {Anchor(at, e) : at \in Names6, e \in AllEnds}
              \cup {Between(at, e, f) : at \in {"Top", "Right", "VerticalCenter"},
                                        e \in FewEnds(Panel), f \in AllEnds}}

SomeAnchors(owner) ==
    {<<>>} \cup {<<Anchor(at, e)>> : at \in {"Top", "Bottom"}, e \in FewEnds(owner)}

TwoBindings ==
    UNION {{Children(o, <<<<Child(2, a), Child(1, b)>>>>) :
               a \in SomeAnchors(o), b \in SomeAnchors(o)} : o \in ChildOwners}
    \cup {Children(o, <<<<Child(1, <<Anchor(a, End(2, c)), Anchor(b, End(o, c))>>)>>,
                        <<Child(2, <<Anchor(b, End(1, c))>>)>>>>) :
             o \in ChildOwners, a, b \in Names6, c \in {"Top", "HorizontalCenter"}}

\* A control that is bound to both ends of one list of another.
ManySources ==
    {Children(Form, <<<<Child(3, <<Between("Top", End(1, "Bottom"), End(1, c)),
                                   Anchor("Left", End(1, "Bottom"))>>),
                        Child(1, <<>>),
                        Child(2, <<Anchor("Bottom", End(1, d))>>)>>>>) :
        c, d \in Names6}

CommandBars ==
    {Children(o, <<<<[Child(1, a) EXCEPT !.commandBar = bar], Child(2, <<>>)>>>>) :
        o \in ChildOwners, bar \in BOOLEAN,
        a \in {<<>>, <<Anchor("Bottom", End(Form, "Bottom"))>>,
               <<Anchor("Bottom", End(Form, "Top"))>>,
               <<Between("Bottom", End(Form, "Bottom"), End(1, "Top"))>>,
               <<Anchor("Bottom", End(1, "Top"))>>, <<Anchor("Bottom", End(Panel, "Bottom"))>>,
               <<Anchor("Top", End(1, "Top")), Anchor("Bottom", End(Form, "Bottom"))>>}}

Lengths == {-1, 0, 1, MaxCoordinate}

Rectangles ==
    {Children(Form, <<<<[Child(1, <<>>) EXCEPT !.left = l, !.width = w, !.top = t, !.height = h,
                                               !.visible = v, !.manual = ~v]>>>>) :
        l, t \in (-1 - MaxCoordinate)..MaxCoordinate, w, h \in Lengths, v \in BOOLEAN}

Pagings(ids) ==
    CASE ids = {} -> {}
      [] OTHER -> {<<SetToSeq(ids)>>, <<Reverse(SetToSeq(ids))>>, <<<<>>, SetToSeq(ids)>>}
                  \cup {<<SetToSeq(ids \ {i}), <<i>>>> : i \in ids}

Numbered ==
    {Children(o, [p \in DOMAIN pages |-> [i \in DOMAIN pages[p] |->
                    [Child(pages[p][i], <<>>) EXCEPT !.tab = tab[pages[p][i]]]]]) :
        o \in ChildOwners, pages \in Pagings({1, 2, 3}), tab \in [1..3 -> -1..4]}

Measured ==
    {Children(Form, <<<<[Child(1, <<>>) EXCEPT !.dimensions = d]>>>>) :
        d \in {<<>>, <<"Width">>, <<"Width", "Height">>, <<"Width", "Width">>}}

Documents ==
    OneBinding \cup TwoBindings \cup ManySources \cup CommandBars \cup Rectangles \cup Numbered
        \cup Measured

-----------------------------------------------------------------------------
(* Records as Form.bin may have them.                                       *)

ChangedLinks(r) ==
    {[r EXCEPT !.links[s][n] = l] :
        s \in {2, 5}, n \in 1..2,
        l \in {NoTarget, [NoTarget EXCEPT !.offset = 1], [NoTarget EXCEPT !.edge = 0]}
              \cup {[target |-> t, edge |-> e, offset |-> 0] : t \in {-2, 0, 1, Panel}, e \in {1, 6}}}

ChangedRecords(r) ==
    ChangedLinks(r)
    \cup {[r EXCEPT !.incoming[b] = s] :
            b \in {1, 2, 6}, s \in {<<>>, <<<<1, 1>>>>, <<<<2, 1>>>>, <<<<1, 1>>, <<1, 1>>>>,
                                    <<<<1, 4>>>>, <<<<0, 0>>>>}}
    \cup {[r EXCEPT !.incoming[b] = Append(@, <<1, 1>>)] : b \in {1, 2, 6}}
    \cup {[r EXCEPT !.page = n] : n \in 0..2} \cup {[r EXCEPT !.ordinal = n] : n \in 0..3}
    \cup {[r EXCEPT !.tab = n] : n \in 0..4} \cup {[r EXCEPT !.id = n] : n \in 1..4}
    \cup {[r EXCEPT !.right = n] : n \in -1..MaxCoordinate}

Reordered(f) ==
    [f EXCEPT !.records = [i \in DOMAIN @ |->
                            [@[i] EXCEPT !.incoming = [b \in 1..6 |-> Reverse(@[b])]]],
              !.incoming = [b \in 1..6 |-> Reverse(@[b])]]

ChangedForms(f) ==
    {Reordered(f), [f EXCEPT !.records = Reverse(@)]}
    \cup {[f EXCEPT !.incoming[b] = <<>>] : b \in 1..4}
    \cup {[f EXCEPT !.incoming[b] = Append(@, <<1, 1>>)] : b \in 1..4}
    \cup UNION {{[f EXCEPT !.records[i] = r] : r \in ChangedRecords(f.records[i])}
                    : i \in DOMAIN f.records}

NumberedRecords ==
    \E tab \in [1..3 -> 1..3], ordinal \in [1..3 -> 0..2], page \in [1..3 -> 0..1] :
        Found("ChildItems", "Form.bin",
              LET f == ChildrenEncoded(Children(Form, <<<<Child(1, <<>>), Child(2, <<>>)>>,
                                                        <<Child(3, <<>>)>>>>))
              IN  [f EXCEPT !.records = [i \in DOMAIN @ |->
                    [@[i] EXCEPT !.tab = tab[i], !.ordinal = ordinal[i], !.page = page[i]]]])

Corners ==
    \E a, b \in (-1 - MaxCoordinate)..MaxCoordinate : \E c, d \in {-1, 0, MaxCoordinate} :
        Found("ChildItems", "Form.bin",
              LET f == ChildrenEncoded(Children(Form, <<<<Child(1, <<>>)>>>>))
              IN  [f EXCEPT !.records[1].left = a, !.records[1].right = b,
                            !.records[1].top = c, !.records[1].bottom = d])

ChildrenInit ==
    \/ \E d \in Documents : Found("ChildItems", "Form.xml", d)
    \/ \E d \in OneBinding \cup TwoBindings \cup ManySources \cup CommandBars :
          Found("ChildItems", "Form.bin", ChildrenEncoded(d))
    \/ \E d \in ManySources :
          \E f \in ChangedForms(ChildrenEncoded(d)) : Found("ChildItems", "Form.bin", f)
    \/ \E d \in CommandBars : \E f \in ChangedForms(ChildrenEncoded(d)) :
          \E g \in {f, [f EXCEPT !.records[1].incoming[1] = Append(@, <<1, 1>>)]} :
              Found("ChildItems", "Form.bin", g)
    \/ NumberedRecords \/ Corners

-----------------------------------------------------------------------------
(* Menus of many shapes with up to six items of any type, the fields of one    *)
(* item and of two with every value; as the encoder writes them, in another    *)
(* order, with a field of one record changed, and with groups that hang        *)
(* together in any way.                                                        *)

Action(name) ==
    [name |-> name, kind |-> "Action", text |-> "none", representation |-> "Auto",
     enabled |-> TRUE, checked |-> FALSE, changesData |-> FALSE, default |-> FALSE,
     order |-> "DontOrder", does |-> Handler, parts |-> {}, variant |-> "Version8_0",
     items |-> <<>>]

Separator(name) == [Action(name) EXCEPT !.kind = "Separator", !.does = <<>>]

Submenu(name, items) == [Separator(name) EXCEPT !.kind = "Submenu", !.items = items]

ABar == [bar |-> TRUE, id |-> 1, used |-> TRUE, primary |-> TRUE, others |-> {2}, items |-> <<>>]
ASecondBar == [ABar EXCEPT !.primary = FALSE, !.others = {}]
AButton == [ABar EXCEPT !.bar = FALSE, !.primary = FALSE]

MenusOf(items) == {[m EXCEPT !.items = items] : m \in {ABar, ASecondBar, AButton}}

Leaves(name) == {Action(name), [Action(name) EXCEPT !.default = TRUE], Separator(name)}

Level2(name) == Leaves(name) \cup {Submenu(name, <<>>)}

Level1(name) ==
    Level2(name) \cup {Submenu(name, <<i>>) : i \in Level2("a")}
    \cup {[Submenu(name, <<i, j>>) EXCEPT !.order = "Ascending"] : i \in Level2("a"), j \in Leaves("b")}
    \cup {Submenu(name, <<Submenu("a", <<i>>)>>) : i \in Level2("a")}
    \cup {Submenu(name, <<Submenu("a", <<Submenu("a", <<Action("a")>>)>>)>>)}

Shapes ==
    {<<i>> : i \in Level1("a")} \cup {<<i, j>> : i \in Level1("a"), j \in Level1("b")}
    \cup {<<i, j>> : i, j \in Level2("a")} \cup {<<i, Action("")>> : i \in Level2("a")}

Standard(context, from, id) == <<"standard", context, from, id>>

OddItems ==
    {[Action("a") EXCEPT !.does = d] :
        d \in {Handler} \cup {Standard(c, s, i) : c \in 0..3,
                                     s \in {"Form", "AllSources", "Control"}, i \in 0..3}}
    \cup {[i EXCEPT !.text = t, !.representation = r, !.enabled = e, !.checked = c] :
            i \in {Action("a"), Separator("a"), Submenu("a", <<>>)}, t \in {"none", "", "plain"},
            r \in {"Auto", "Text", "Picture", "PictureText"}, e, c \in BOOLEAN}
    \cup {[i EXCEPT !.changesData = c, !.order = o, !.parts = p, !.variant = Variants[v]] :
            i \in {Action("a"), Separator("a"), Submenu("a", <<>>)}, c \in BOOLEAN,
            o \in {"DontOrder", "Ascending", "Descending"},
            p \in {{}, {"Picture"}, {"ToolTip", "Shortcut"}}, v \in {0, 2}}
    \cup {[Action("a") EXCEPT !.items = <<Action("b")>>], [Submenu("a", <<>>) EXCEPT !.does = Handler]}

OddMenus ==
    UNION {UNION {MenusOf(<<i>>), MenusOf(<<Submenu("m", <<i>>), Action("b")>>)} : i \in OddItems}
    \cup {[AButton EXCEPT !.used = FALSE, !.items = i] : i \in {<<>>, <<Action("a")>>}}

-----------------------------------------------------------------------------

NestedMenu == <<Submenu("m", <<Action("a"), Submenu("n", <<>>)>>), Separator("s"),
            [Action("b") EXCEPT !.default = TRUE, !.does = Standard(2, "Control", 1)]>>

ChangedEntries(e) ==
    {[e EXCEPT !.action = n] : n \in 1..6} \cup {[e EXCEPT !.id = n] : n \in 0..6}
    \cup {[e EXCEPT !.id = n, !.action = m] : n, m \in 1..5}
    \cup {[e EXCEPT !.type = n] : n \in 0..3} \cup {[e EXCEPT !.representation = n] : n \in 0..4}
    \cup {[e EXCEPT !.name = n] : n \in {"", "a", "b", "n"}}
    \cup {[e EXCEPT !.text = t] : t \in {"automatic", "", "plain", "bilingual"}}
    \cup {[e EXCEPT !.other = "odd"]}

ChangedGroups(g) ==
    UNION {{[g EXCEPT !.entries[i] = e] : e \in ChangedEntries(g.entries[i])}
              : i \in DOMAIN g.entries}
    \cup {[g EXCEPT !.entries = Reverse(@)], [g EXCEPT !.entries = <<>>, !.orders = <<>>]}
    \cup {[g EXCEPT !.owner = o] : o \in {"root", "menu", "other"}}
    \cup {[g EXCEPT !.id = n] : n \in 0..6} \cup {[g EXCEPT !.footer = n] : n \in {-1, 0, 1}}
    \cup {[g EXCEPT !.orders = Append(@, <<n, 0>>)] : n \in 0..5}
    \cup UNION {{[g EXCEPT !.orders[i][2] = n] : n \in 0..3} : i \in DOMAIN g.orders}

ChangedActions(a) ==
    {[a EXCEPT !.key = n] : n \in 1..6} \cup {[a EXCEPT !.tail = n] : n \in 0..1}
    \cup {[a EXCEPT !.variant = n] : n \in 0..2}
    \cup {[a EXCEPT !.does = d] :
            d \in {Handler, <<"nothing">>} \cup {<<"menu", n>> : n \in 1..5}
                  \cup {<<"standard", c, s>> : c \in 0..4, s \in 0..FormSource}}

ChangedMenus(f) ==
    UNION {{[f EXCEPT !.groups[i] = g] : g \in ChangedGroups(f.groups[i])} : i \in DOMAIN f.groups}
    \cup UNION {{[f EXCEPT !.actions[i] = a] : a \in ChangedActions(f.actions[i])}
                   : i \in DOMAIN f.actions}
    \cup {[f EXCEPT !.groups = Reverse(@)], [f EXCEPT !.actions = Reverse(@)]}
    \cup {[f EXCEPT !.groups = Front(@)], [f EXCEPT !.actions = Tail(@)]}
    \cup {[f EXCEPT !.default = d, !.selected = s, !.primary = p] : d \in 0..6, s, p \in BOOLEAN}
    \cup {[f EXCEPT !.maxId = n] : n \in 0..7}
    \cup {[f EXCEPT !.others[i].collection = n] : i \in DOMAIN f.others, n \in 1..4}

\* The collection of a command bar has a number of its own.
Moved(f, collection) ==
    [f EXCEPT !.collection = collection,
              !.groups = [@ EXCEPT ![1].id = IF f.bar THEN collection ELSE @]]

\* Three submenus whose groups are anywhere.
Hanging ==
    LET f == MenuEncoded([ABar EXCEPT !.items = <<Submenu("a", <<>>), Submenu("b", <<>>),
                                                   Submenu("c", <<>>)>>])
        inside(at, g) == SelectSeq(<<1, 2, 3>>, LAMBDA i : at[i] = g)
    IN  {[f EXCEPT !.groups = [k \in DOMAIN @ |->
            [@[k] EXCEPT !.entries = [j \in DOMAIN inside(at, k) |->
                                        f.groups[1].entries[inside(at, k)[j]]],
                         !.orders = [j \in DOMAIN inside(at, k) |->
                                        f.groups[1].orders[inside(at, k)[j]]]]]]
            : at \in [1..3 -> 1..4]}

FormBin(f) == Found("Menu", "Form.bin", f)

StoredMenus ==
    \/ \E m \in OddMenus : FormBin(MenuEncoded(m))
    \/ \E i \in Shapes : \E m \in MenusOf(i) : FormBin(MenuEncoded(m))
    \/ \E f \in Hanging : FormBin(f)
    \/ \E m \in MenusOf(NestedMenu) : \E f \in {MenuEncoded(m)} : \E c \in {0, 1, 2, 7} :
          FormBin(Moved(f, c)) \/ \E g \in ChangedMenus(f) : FormBin(Moved(g, c))

MenusInit ==
    \/ Found("Menu", "Form.xml", [ABar EXCEPT !.items = <<[Action("a") EXCEPT !.does = <<>>]>>])
    \/ \E m \in OddMenus : Found("Menu", "Form.xml", m)
    \/ \E i \in Shapes : \E m \in MenusOf(i) : Found("Menu", "Form.xml", m)
    \/ StoredMenus

-----------------------------------------------------------------------------
(* All of them in one run.                                                 *)

MCKinds ==
    {"ProgressBar", "TrackBar", "ListBox", "CheckBox", "ChoiceField", "TextDocumentField",
     "CalendarField", "HTMLDocumentField", "PivotChart", "SchemaField", "Button", "CommandBar",
     "UsualGroup", "PictureDecoration", "Splitter", "LabelDecoration", "RadioButton",
     "InputField", "Table", "SpreadsheetDocumentField", "Dendrogram", "GanttChart",
     "TableColumn"}

\* A table has the most properties, and few rules between them.
MCMaxEdits == [k \in MCKinds |-> IF k = "Table" THEN 2 ELSE 3]

ControlIdle ==
    /\ kind = "Button" /\ record = <<>> /\ control = <<>>
    /\ warned = FALSE /\ stage = "idle"

MCInit == (Init /\ DataIdle) \/ (ControlIdle /\ (DataInit \/ ValuesInit \/ ChildrenInit \/ MenusInit))

MCNext ==
    \/ step = "idle" /\ Next /\ UNCHANGED dataVars
    \/ stage = "idle" /\ DataNext /\ UNCHANGED vars

MCSpec == MCInit /\ [][MCNext]_<<vars, dataVars>>

=============================================================================
