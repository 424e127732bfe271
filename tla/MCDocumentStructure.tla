------------------------- MODULE MCDocumentStructure ------------------------
(* Documents put together from five kits, each with what one question       *)
(* needs: the tree of items, the default button, assets, references and     *)
(* compared properties, events.                                             *)
EXTENDS FormDocument

C(id) == <<"control", id>>
P(id) == <<"page", id>>

Lists(refs) == {<<>>} \cup {<<r>> : r \in refs} \cup {<<r, s>> : r, s \in refs}

FormOf(id, refs) == [BlankForm EXCEPT !.id = id, !.items = refs]

NoKit == [attribute |-> <<>>, control |-> <<>>, page |-> <<>>, command |-> <<>>,
          event |-> <<>>, picture |-> <<>>, forms |-> {}, references |-> 9, edits |-> {}]

\* Two controls and two pages, with up to four references among them and the form:
\* enough for a panel of the form with a page that has another page.
Nested(id, kinds, lists) ==
    {[Plain(id, k) EXCEPT !.items = l] : k \in kinds, l \in lists}

TreeLists == Lists({C(1), C(2), P(1), P(2)})

Containers == {"Panel", "UsualGroup", "Button"}

TreeKit ==
    [NoKit EXCEPT
        !.control = <<Nested(1, Containers, TreeLists),
                      Nested(2, Containers, TreeLists)
                      \cup UNION {Nested(id, {"UsualGroup"}, Lists({C(1)})) : id \in 0..1}>>,
        !.page = <<{[id |-> 1, items |-> l] :
                       l \in {<<>>, <<C(1)>>, <<C(2)>>, <<P(1)>>, <<P(2)>>}},
                   {[id |-> id, items |-> l] : id \in 0..2, l \in {<<>>, <<C(2)>>, <<P(1)>>}}>>,
        !.forms = {FormOf(1, l) : l \in {<<>>, <<C(1)>>, <<C(2), C(1)>>, <<C(1), P(1)>>, <<P(2)>>}}
                  \cup {FormOf(0, <<C(1), C(2)>>)},
        !.references = 4]

\* A command bar with a menu of two levels.
Item(name, type, pressed, picture) ==
    [name |-> name, type |-> type, pressed |-> pressed, picture |-> picture, buttons |-> <<>>]

Bar(pressed, deep, picture) ==
    [Plain(1, "CommandBar") EXCEPT
        !.buttons = <<[Item("More", "Submenu", FALSE, NoRef) EXCEPT
                          !.buttons = <<Item("Go", "Action", deep, picture)>>],
                      Item("Go", "Action", pressed, NoRef)>>]

\* Two buttons and a command bar, one or none of them the default.
DefaultKit ==
    [NoKit EXCEPT
        !.control = <<{[Bar(d, n, NoRef) EXCEPT !.secondary = s] :
                          d, n \in BOOLEAN, s \in BOOLEAN \cup {NoRef}},
                      {[Plain(2, "Button") EXCEPT !.chosen = c] : c \in {TRUE, NoRef}},
                      {Plain(3, "Button"), Plain(2, "Button")}>>,
        !.forms = {FormOf(1, <<C(1), C(2), C(3)>>)}, !.edits = {"defaults"}]

\* Two assets that the caption, a button, a menu or a command may refer to.
PictureKit ==
    [NoKit EXCEPT
        !.control = <<{Bar(FALSE, FALSE, p) : p \in {NoRef, AssetPicture(2)}},
                      {[Plain(2, "Button") EXCEPT !.picture = p] :
                          p \in {NoRef, AssetPicture(2), AssetPicture(3)}}>>,
        !.command = <<{[id |-> 4, picture |-> p] : p \in {NoRef, AssetPicture(2)}}>>,
        !.picture = <<{[id |-> 2]}, {[id |-> 3]}>>,
        !.forms = {[FormOf(1, <<C(1), C(2)>>) EXCEPT !.caption = p] :
                      p \in {NoRef, AssetPicture(2), AssetPicture(3), AssetPicture(9)}},
        !.edits = {"pictures"}]

\* A field, and a command bar for it or for a table.
FieldKit ==
    [NoKit EXCEPT
        !.attribute = <<{[id |-> 0]}>>,
        !.control = <<{Bar(FALSE, FALSE, NoRef)},
                      {[Plain(2, "InputField") EXCEPT !.extended = e, !.link = l, !.data = l] :
                          e \in BOOLEAN, l \in {NoRef, 0, 1}},
                      {[Plain(3, "Table") EXCEPT !.anchor = a] : a \in {NoRef, 2, 9}}>>,
        !.forms = {[FormOf(1, <<C(1), C(2), C(3)>>) EXCEPT !.main = 0]},
        !.edits = {"references", "compared"}]

\* Events of the form and of a button.
EventsOf(id) ==
    {[id |-> id, name |-> n, owner |-> o, handler |-> h] :
        n \in {"OnOpen", "Click"}, o \in {<<"form", 1>>, C(1), C(2)}, h \in BOOLEAN}

EventKit ==
    [NoKit EXCEPT
        !.control = <<{[Plain(1, "Button") EXCEPT !.events = l] : l \in {<<>>, <<1>>, <<2>>, <<1, 2>>}}>>,
        !.event = <<EventsOf(1), EventsOf(1) \cup EventsOf(2)>>,
        !.forms = {[FormOf(1, <<C(1)>>) EXCEPT !.events = l] :
                      l \in {<<>>, <<1>>, <<2>>, <<1, 1>>, <<1, 2>>}}]

MCKits == {TreeKit, DefaultKit, PictureKit, FieldKit, EventKit}

=============================================================================
