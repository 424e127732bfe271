--------------------------- MODULE ValueListIdentity ---------------------------
(***************************************************************************)
(* Live value lists and the row a list box has selected: ValueListRef,     *)
(* ValueListItemRef and the CurrentRow property of                         *)
(* src/model/ordinary_form.cpp.                                            *)
(*                                                                         *)
(* A list is shared by every document it is bound in; a row reference      *)
(* outlives its row; a selection is a weak pointer to the identity of a    *)
(* row, not to its position or number.                                     *)
(***************************************************************************)
EXTENDS Naturals, Sequences, SequencesExt, FiniteSets

CONSTANTS
    Lists,          \* the ValueListRef objects the caller made
    Ids,            \* numeric ids of rows
    Payloads,       \* what a row holds besides its id
    Attributes,     \* attributes whose type is ValueList
    Boxes,          \* list boxes
    AttributeOf,    \* box |-> the attribute its direct DataPath names
    Documents,      \* documents: the first one made, others are copies
    FirstDocument,
    None,
    MaxIdentities   \* bound: identities ever made

ASSUME ListAssumption ==
    /\ AttributeOf \in [Boxes -> Attributes]
    /\ FirstDocument \in Documents
    /\ IsFiniteSet(Ids)
    /\ None \notin Lists \cup Documents \cup (1..MaxIdentities)
    /\ MaxIdentities \in Nat \ {0}

Identities == 1..MaxIdentities
Row == [id : Ids, payload : Payloads]

\* validate_value_list_contents: no id twice.
Distinct(rows) == \A i, j \in DOMAIN rows : rows[i].id = rows[j].id => i = j
Contents == {rows \in SeqOf(Row, Cardinality(Ids)) : Distinct(rows)}

VARIABLES
    items,      \* list |-> its rows
    registry,   \* list |-> [id |-> identity], for the rows asked for
    identity,   \* the identities made so far: sequence of [list, id, payload]
    held,       \* identities the caller holds a ValueListItemRef to
    bound,      \* document |-> [attribute |-> list or None]
    row         \* document |-> [box |-> identity], the weak pointers

listsVars == <<items, registry, identity, held, bound, row>>

Made == DOMAIN identity
Partial(S, T) == UNION {[D -> T] : D \in SUBSET S}

NoRow == [b \in {} |-> 0]
NothingBound == [a \in Attributes |-> None]

ListsInit ==
    /\ items \in [Lists -> Contents]
    /\ registry = [l \in Lists |-> NoRow]
    /\ identity = <<>>
    /\ held = {}
    /\ bound = [d \in Documents |-> NothingBound]
    /\ row = [d \in Documents |-> NoRow]

-----------------------------------------------------------------------------
(* Rows and their identities.                                              *)

HasRow(l, id) == \E i \in DOMAIN items[l] : items[l][i].id = id
RowOf(l, id) == items[l][CHOOSE i \in DOMAIN items[l] : items[l][i].id = id]

\* The identity is still the one its list knows under its id.
AttachedTo(l, i) ==
    LET id == identity[i].id
    IN  id \in DOMAIN registry[l] /\ registry[l][id] = i

IsAttached(i) == AttachedTo(identity[i].list, i)

\* ValueListItemRef::create: the identity row id of l has or now gets.
IdentityOf(l, id) ==
    IF id \in DOMAIN registry[l] THEN registry[l][id] ELSE Len(identity) + 1

CreateIdentity(l, id) ==
    IF id \in DOMAIN registry[l]
      THEN UNCHANGED <<registry, identity>>
      ELSE /\ Len(identity) < MaxIdentities
           /\ registry' = [registry EXCEPT ![l] =
                [k \in DOMAIN @ \cup {id} |-> IF k = id THEN Len(identity) + 1 ELSE @[k]]]
           /\ identity' = Append(identity,
                [list |-> l, id |-> id, payload |-> RowOf(l, id).payload])

Create(l, id) ==
    /\ HasRow(l, id)
    /\ CreateIdentity(l, id)
    /\ held' = held \cup {IdentityOf(l, id)}
    /\ UNCHANGED <<items, bound, row>>

\* The caller lets a reference go.
Release(i) ==
    /\ held' = held \ {i}
    /\ UNCHANGED <<items, registry, identity, bound, row>>

\* Mutant: identities outlive their rows.
ReplaceKeepsIdentities(l, rows) ==
    /\ items' = [items EXCEPT ![l] = rows]
    /\ identity' = [i \in Made |->
         IF AttachedTo(l, i) /\ \E k \in DOMAIN rows : rows[k].id = identity[i].id
           THEN [identity[i] EXCEPT !.payload =
                  rows[CHOOSE k \in DOMAIN rows : rows[k].id = identity[i].id].payload]
           ELSE identity[i]]
    /\ UNCHANGED <<registry, held, bound, row>>

\* Mutant: every identity with the id of a new row takes its payload.
ReplaceRefreshesDetached(l, rows) ==
    LET ids == {rows[k].id : k \in DOMAIN rows}
    IN  /\ items' = [items EXCEPT ![l] = rows]
        /\ registry' = [registry EXCEPT ![l] = [id \in DOMAIN @ \cap ids |-> @[id]]]
        /\ identity' = [i \in Made |->
             IF identity[i].list = l /\ identity[i].id \in ids
               THEN [identity[i] EXCEPT !.payload =
                      rows[CHOOSE k \in DOMAIN rows : rows[k].id = identity[i].id].payload]
               ELSE identity[i]]
        /\ UNCHANGED <<held, bound, row>>

\* ValueListRef::replace: an identity survives with the id of its row and takes
\* the new payload; the others are dropped from the registry, payload and all.
Replace(l, rows) ==
    LET Fresh(id) == rows[CHOOSE k \in DOMAIN rows : rows[k].id = id].payload
        kept == DOMAIN registry[l] \cap {rows[k].id : k \in DOMAIN rows}
    IN  /\ items' = [items EXCEPT ![l] = rows]
        /\ registry' = [registry EXCEPT ![l] = [id \in kept |-> @[id]]]
        /\ identity' = [i \in Made |->
             IF \E id \in kept : registry[l][id] = i
               THEN [identity[i] EXCEPT !.payload = Fresh(identity[i].id)] ELSE identity[i]]
        /\ UNCHANGED <<held, bound, row>>

-----------------------------------------------------------------------------
(* Documents.                                                              *)

\* Mutant: every box of the document is taken to show the attribute.
AnyBoxes(a) == Boxes

BoxesOf(a) == {b \in Boxes : AttributeOf[b] = a}
Without(r, S) == [b \in DOMAIN r \ S |-> r[b]]
With(r, S, i) == [b \in DOMAIN r \cup S |-> IF b \in S THEN i ELSE r[b]]

\* bind_attribute_value_list: every box of the attribute selects the first row.
Bind(d, a, l) ==
    /\ bound' = [bound EXCEPT ![d][a] = l]
    /\ IF items[l] = <<>>
         THEN /\ row' = [row EXCEPT ![d] = Without(@, BoxesOf(a))]
              /\ UNCHANGED <<registry, identity>>
         ELSE LET first == Head(items[l]).id
              IN  /\ CreateIdentity(l, first)
                  /\ row' = [row EXCEPT ![d] = With(@, BoxesOf(a), IdentityOf(l, first))]
    /\ UNCHANGED <<items, held>>

\* set_prop_val of CurrentRow: an attached reference to any list selects the row
\* of the box's own list with the same id, if there is one; a detached one is
\* accepted and selects nothing.
SetRow(d, b, i) ==
    LET l == bound[d][AttributeOf[b]]
        id == identity[i].id
    IN  /\ i \in held /\ IsAttached(i)
        /\ l # None
        /\ HasRow(l, id)
        /\ CreateIdentity(l, id)
        /\ row' = [row EXCEPT ![d] = With(@, {b}, IdentityOf(l, id))]
        /\ UNCHANGED <<items, held, bound>>

ResetRow(d, b) ==
    /\ row' = [row EXCEPT ![d] = Without(@, {b})]
    /\ UNCHANGED <<items, registry, identity, held, bound>>

\* get_prop_val of CurrentRow: None reads as Undefined.
CurrentRow(d, b) ==
    LET l == bound[d][AttributeOf[b]]
    IN  IF b \in DOMAIN row[d] /\ l # None /\ AttachedTo(l, row[d][b])
          THEN row[d][b] ELSE None

\* Reading a selection whose row is gone forgets it.
ReadRow(d, b) ==
    /\ b \in DOMAIN row[d]
    /\ CurrentRow(d, b) = None
    /\ row' = [row EXCEPT ![d] = Without(@, {b})]
    /\ UNCHANGED <<items, registry, identity, held, bound>>

\* set_form drops the bindings and selections, not the caller's lists.
SetListsForm(d) ==
    /\ bound' = [bound EXCEPT ![d] = NothingBound]
    /\ row' = [row EXCEPT ![d] = NoRow]
    /\ UNCHANGED <<items, registry, identity, held>>

\* d becomes a copy of the first document: the lists are shared.
Copy(d) ==
    /\ d # FirstDocument
    /\ bound' = [bound EXCEPT ![d] = bound[FirstDocument]]
    /\ row' = [row EXCEPT ![d] = row[FirstDocument]]
    /\ UNCHANGED <<items, registry, identity, held>>

ListsNext ==
    \/ \E l \in Lists, id \in Ids : Create(l, id)
    \/ \E i \in held : Release(i)
    \/ \E l \in Lists, rows \in Contents : Replace(l, rows)
    \/ \E d \in Documents, a \in Attributes, l \in Lists : Bind(d, a, l)
    \/ \E d \in Documents, b \in Boxes, i \in held : SetRow(d, b, i)
    \/ \E d \in Documents, b \in Boxes : ResetRow(d, b) \/ ReadRow(d, b)
    \/ \E d \in Documents : SetListsForm(d) \/ Copy(d)

ListsSpec == ListsInit /\ [][ListsNext]_listsVars

-----------------------------------------------------------------------------
(* What a caller relies on.                                                *)

\* A selection that reads as a row is a row the box's own list still has, with
\* the contents it has there now, whatever was replaced, removed and rebound
\* since it was selected.
SelectionIsALiveRow ==
    \A d \in Documents, b \in Boxes :
        LET l == bound[d][AttributeOf[b]]
            i == CurrentRow(d, b)
        IN  i # None => /\ HasRow(l, identity[i].id)
                        /\ RowOf(l, identity[i].id).payload = identity[i].payload

\* A reference to a removed row never comes to life again, also when a row with
\* its number is added to the list, and keeps the contents the row had last.  A
\* row that stays in its list stays the same row: a reference to it is not
\* detached by sorting the list, by a binding or by what happens to other rows.
ReferencesFollowRows ==
    [][\A i \in Made :
         IF IsAttached(i)
           THEN HasRow(identity[i].list, identity[i].id)' => IsAttached(i)'
           ELSE ~IsAttached(i)' /\ identity'[i] = identity[i]]_listsVars

\* A selection changes only by an assignment to that box, by binding its
\* attribute or by replacing its document; the contents of a list can only end
\* it.  A box of another document, or of another attribute, never loses or
\* gains a selection.  Binding a list selects its first row in every box of the
\* attribute, whatever they had selected; an empty list, nothing.
SelectionIsLocal ==
    [][\A d \in Documents, b \in Boxes :
         LET now == CurrentRow(d, b)'
             binding == \E l \in Lists : Bind(d, AttributeOf[b], l)
             rows == items'[bound'[d][AttributeOf[b]]]
         IN /\ now # CurrentRow(d, b) =>
                 \/ now = None /\ bound' = bound /\ row' = row
                 \/ \E i \in held : SetRow(d, b, i)
                 \/ ResetRow(d, b) \/ binding \/ SetListsForm(d) \/ Copy(d)
            /\ binding => IF rows = <<>> THEN now = None
                          ELSE now # None /\ identity'[now].id = Head(rows).id]_listsVars
=============================================================================
