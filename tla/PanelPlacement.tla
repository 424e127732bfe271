--------------------------- MODULE PanelPlacement ---------------------------
(***************************************************************************)
(* Display order, tab order and default control of the controls on the     *)
(* pages of one panel: set_prop_val and reset_prop_val for ZOrder,         *)
(* TabOrder, DefaultControl and SeparateByPage (ordinary_form.cpp), the     *)
(* ZOrder of a Form.xml (form_xml.cpp) and the panel's records in Form.bin  *)
(* (form_stream.cpp).                                                       *)
(*                                                                         *)
(* The display order of a control is its place in ChildItems, its tab      *)
(* order a number that is kept only where it differs from that place.      *)
(* A panel that is not separated by page has one area for all its pages,   *)
(* whose controls are one group.                                           *)
(***************************************************************************)
EXTENDS Integers, FiniteSets, SequencesExt

CONSTANTS Controls, Pages, NoControl

ASSUME PlacementAssumption ==
    /\ IsFiniteSet(Controls) /\ NoControl \notin Controls
    /\ Pages \in Nat \ {0}

N == Cardinality(Controls)
Implicit == 0           \* tab_order without an explicit value

VARIABLES
    shared,     \* SeparateByPage = false
    children,   \* page |-> its ChildItems
    tab,        \* control |-> its explicit tab order, or Implicit
    default,    \* the controls whose DefaultControl is true
    status      \* what the last operation returned

vars == <<shared, children, tab, default, status>>

-----------------------------------------------------------------------------
(* Groups.                                                                 *)

PageOf(c) == CHOOSE p \in 1..Pages : c \in Range(children[p])

\* placement_control_group
Group(c) == IF shared THEN FlattenSeq(children) ELSE children[PageOf(c)]

Place(s, c) == CHOOSE i \in DOMAIN s : s[i] = c
Shown(s, i) == IF tab[s[i]] = Implicit THEN i ELSE tab[s[i]]
Orders(s) == [i \in DOMAIN s |-> Shown(s, i)]
TabOrder(c) == Shown(Group(c), Place(Group(c), c))

\* tab_order_group has a result: the tab orders are a permutation.
Ordered(s) == Range(Orders(s)) = DOMAIN s

\* The explicit tab orders of s when its controls have the orders o.
Kept(s, o) == [c \in Range(s) |-> IF s[o[c]] = c THEN Implicit ELSE o[c]]

OrdersOf(s) == [c \in Range(s) |-> Shown(s, Place(s, c))]

-----------------------------------------------------------------------------
(* set_prop_val and reset_prop_val.                                        *)

Returns(s) == status' = s
Unchanged == UNCHANGED <<shared, children, tab, default>>

\* The order o of a control when the one of order old is given order new.
Shifted(o, old, new) ==
    IF o = old THEN new
    ELSE IF o > old /\ o <= new THEN o - 1
    ELSE IF o >= new /\ o < old THEN o + 1
    ELSE o

SetTabOrder(c, new) ==
    LET g == Group(c)
        old == TabOrder(c)
        order(x) == Shifted(OrdersOf(g)[x], old, new)
    IN  IF ~Ordered(g) THEN Returns("unsupported") /\ Unchanged
        ELSE IF new \notin DOMAIN g THEN Returns("applied") /\ Unchanged
        ELSE
          /\ Returns("applied")
          /\ tab' = [x \in Controls |->
                IF x \notin Range(g) \/ order(x) = OrdersOf(g)[x] THEN tab[x]
                ELSE IF order(x) = Place(g, x) THEN Implicit
                ELSE order(x)]
          /\ UNCHANGED <<shared, children, default>>

ResetTabOrder(c) == SetTabOrder(c, Place(Group(c), c))

Clamped(n, high) == IF n < 1 THEN 1 ELSE IF n > high THEN high ELSE n

\* Where the ChildItems are: the page that has the whole group, or, for a
\* shared area, the first page, which then takes the controls of the others.
Siblings(c) ==
    IF Len(children[PageOf(c)]) = Len(Group(c)) THEN PageOf(c) ELSE 1

Moved(s, from, to) == InsertAt(RemoveAt(s, from), to, s[from])

\* Mutant: the tab orders are not written again for the new places.
SetZOrderOnly(c, n) ==
    LET g == Group(c)
        moved == Moved(g, Place(g, c), Clamped(n, Len(g)))
    IN  /\ Ordered(g)
        /\ children' = [p \in 1..Pages |->
               IF p = Siblings(c) THEN moved ELSE IF shared THEN <<>> ELSE children[p]]
        /\ Returns("applied")
        /\ UNCHANGED <<shared, tab, default>>

SetZOrder(c, n) ==
    LET g == Group(c)
        target == Clamped(n, Len(g))
        moved == Moved(g, Place(g, c), target)
    IN  IF ~Ordered(g) THEN Returns("unsupported") /\ Unchanged
        ELSE IF target = Place(g, c) THEN Returns("applied") /\ Unchanged
        ELSE
          /\ Returns("applied")
          /\ children' = [p \in 1..Pages |->
                IF p = Siblings(c) THEN moved
                ELSE IF shared THEN <<>> ELSE children[p]]
          /\ tab' = [x \in Controls |->
                IF x \in Range(g) THEN Kept(moved, OrdersOf(g))[x] ELSE tab[x]]
          /\ UNCHANGED <<shared, default>>

\* Mutant: every other selection of the form is cleared.
SetDefaultAlone(c, selected) ==
    /\ default' = IF selected THEN {c} ELSE default \ {c}
    /\ Returns("applied")
    /\ UNCHANGED <<shared, children, tab>>

\* Mutant: the selection before is not cleared.
SetDefaultMore(c, selected) ==
    /\ default' = IF selected THEN default \cup {c} ELSE default \ {c}
    /\ Returns("applied")
    /\ UNCHANGED <<shared, children, tab>>

SetDefaultControl(c, selected) ==
    /\ default' = IF selected THEN (default \ Range(Group(c))) \cup {c}
                  ELSE default \ {c}
    /\ Returns("applied")
    /\ UNCHANGED <<shared, children, tab>>

ResetDefaultControl(c) ==
    /\ default' = default \ {c}
    /\ Returns("reset")
    /\ UNCHANGED <<shared, children, tab>>

SetSeparateByPage(separate) ==
    /\ shared' = ~separate
    /\ Returns("applied")
    /\ UNCHANGED <<children, tab, default>>

-----------------------------------------------------------------------------
(* The ZOrder elements of one page of a Form.xml: z is Implicit where a    *)
(* control has none.  parse_child_items sorts the page, and drops them.     *)

ValidZ(s, z) ==
    \A i, j \in DOMAIN s : z[s[i]] # Implicit =>
        z[s[i]] \in DOMAIN s /\ (i # j => z[s[i]] # z[s[j]])

\* The controls with a ZOrder are in its place, the others fill the free places
\* in the order they had.
SortedByZ(s, z, sorted) ==
    /\ \A c \in Range(s) : z[c] # Implicit => sorted[z[c]] = c
    /\ \A i, j \in DOMAIN s :
         (i < j /\ z[s[i]] = Implicit /\ z[s[j]] = Implicit) =>
             Place(sorted, s[i]) < Place(sorted, s[j])

ReadZOrder(p, z) ==
    LET s == children[p]
    IN  /\ \E c \in Range(s) : z[c] # Implicit
        /\ ValidZ(s, z)
        /\ Ordered(s)
        /\ \E sorted \in SetToSeqs(Range(s)) :
             /\ SortedByZ(s, z, sorted)
             /\ children' = [children EXCEPT ![p] = sorted]
             /\ tab' = [c \in Controls |->
                   IF c \in Range(s) THEN Kept(sorted, OrdersOf(s))[c] ELSE tab[c]]
        /\ Returns("parsed")
        /\ UNCHANGED <<shared, default>>

-----------------------------------------------------------------------------
(* encode_owner and encode_owner_pages; decode_child_table.                *)

Groups == IF shared THEN {FlattenSeq(children)} ELSE Range(children)

OneDefaultPerGroup == \A g \in Groups : Cardinality(Range(g) \cap default) <= 1

Encodable == OneDefaultPerGroup /\ \A g \in Groups : Ordered(g)

\* Mutant: the places of a shared area are counted on each page.
StoredPlaceOnPage(c) == Place(children[PageOf(c)], c)

\* The record of a control: its page, its ordinal there, its tab order.
StoredPage(c) == IF shared THEN 1 ELSE PageOf(c)
StoredPlace(c) == Place(Group(c), c)

\* The default control of each stored area.
Focus == [a \in 1..(IF shared THEN 1 ELSE Pages) |->
    LET selected == {c \in default : StoredPage(c) = a}
    IN  IF selected = {} THEN NoControl ELSE CHOOSE c \in selected : TRUE]

Decodable ==
    \A p \in 1..Pages :
        LET on == {c \in Controls : StoredPage(c) = p}
        IN  /\ {StoredPlace(c) : c \in on} = 1..Cardinality(on)
            /\ {TabOrder(c) : c \in on} = 1..Cardinality(on)

\* save_form_bin and load_form_bin.
SaveAndLoad ==
    /\ Encodable
    /\ Decodable
    /\ children' = [p \in 1..Pages |->
          LET on == {c \in Controls : StoredPage(c) = p}
          IN  [i \in 1..Cardinality(on) |-> CHOOSE c \in on : StoredPlace(c) = i]]
    /\ tab' = [c \in Controls |->
          IF TabOrder(c) = StoredPlace(c) THEN Implicit ELSE TabOrder(c)]
    /\ default' = Range(Focus) \ {NoControl}
    /\ Returns("loaded")
    /\ UNCHANGED shared

SaveFails == ~Encodable /\ Returns("rejected") /\ Unchanged

-----------------------------------------------------------------------------
\* A document as it is read: some distribution of the controls over the pages.
Init ==
    /\ shared \in BOOLEAN
    /\ children \in [1..Pages -> SetToAllKPermutations(Controls)]
    /\ \A c \in Controls : Cardinality({p \in 1..Pages : c \in Range(children[p])}) = 1
    /\ tab = [c \in Controls |-> Implicit]
    /\ default = {}
    /\ status = "none"

Arrange(c) ==
    \/ \E n \in 0..(N + 1) : SetTabOrder(c, n)
    \/ ResetTabOrder(c)
    \/ \E n \in 0..(N + 1) : SetZOrder(c, n)

Select(c) ==
    \/ \E selected \in BOOLEAN : SetDefaultControl(c, selected)
    \/ ResetDefaultControl(c)

Read == \E p \in 1..Pages : \E z \in [Range(children[p]) -> 0..N] : ReadZOrder(p, z)

Next ==
    \/ \E c \in Controls : Arrange(c) \/ Select(c)
    \/ \E separate \in BOOLEAN : SetSeparateByPage(separate)
    \/ Read
    \/ SaveAndLoad
    \/ SaveFails

Spec == Init /\ [][Next]_vars

-----------------------------------------------------------------------------
(* Properties.                                                             *)

\* Every control is on exactly one page.
Placed == LET all == FlattenSeq(children) IN Len(all) = N /\ Range(all) = Controls

\* An operation on one control touches no control outside its group: not its
\* places, not its default control.
OthersKept ==
    \A c \in Controls :
        \/ \A x \in Controls \ Range(Group(c)) :
              /\ Group(x)' = Group(x)
              /\ TabOrder(x)' = TabOrder(x)
              /\ (x \in default') <=> (x \in default)
        \/ ~(Arrange(c) \/ Select(c))

\* A change of the display order keeps the tab order of every control, although
\* it is stored relative to the place.  A new tab order moves one control among
\* its group: the others keep their order among each other, and what was a
\* permutation is one.  No control of another group is touched.
OrdersAreIndependent ==
    [][/\ Placed'
       /\ OthersKept
       /\ \A c \in Controls, n \in 0..(N + 1) :
          (\A x \in Controls : TabOrder(x)' = TabOrder(x)) \/ ~SetZOrder(c, n)
       /\ \A c \in Controls, n \in 1..N :
          (Ordered(Group(c)) /\ n \in DOMAIN Group(c) /\ SetTabOrder(c, n)) =>
              /\ TabOrder(c)' = n
              /\ Ordered(Group(c))'
              /\ \A x, y \in Range(Group(c)) \ {c} :
                   (TabOrder(x) < TabOrder(y)) => (TabOrder(x) < TabOrder(y))']_vars

\* No operation but a change of SeparateByPage selects a second default control.
DefaultStaysUnique ==
    [][OneDefaultPerGroup /\ shared' = shared => OneDefaultPerGroup']_vars

\* What the encoder accepts, the decoder does; and the places, tab orders and
\* default controls of every group come back from Form.bin.  Only the page of a
\* control in a shared area is not kept.
SavingKeepsPlacement ==
    [][/\ Encodable' => Decodable'
       /\ SaveAndLoad =>
          /\ \A c \in Controls : Group(c)' = Group(c) /\ TabOrder(c)' = TabOrder(c)
          /\ default' = default]_vars

\* docs/ordinary-form-target-contract.md:1851: a change of the ZOrder "keeps the
\* independent TabOrder of every element" of a shared area.
ReadingKeepsTabOrder ==
    [][Read => \A c \in Controls : TabOrder(c)' = TabOrder(c)]_vars

\* The controls of a small instance may exchange their names.
ControlNames == Permutations(Controls)

=============================================================================
