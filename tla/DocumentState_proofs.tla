------------------------- MODULE DocumentState_proofs -------------------------
(***************************************************************************)
(* Proofs about the state of a form that MCDocumentState checks: the       *)
(* window, the lists of values and the calendar, for all values of their   *)
(* constants.                                                              *)
(***************************************************************************)
EXTENDS WindowState, ValueListIdentity, CalendarSelection, DataInduction

Consistent ==
    /\ Permission(state)
    /\ connectable => Permission(Join)
    /\ state \in Side => connectable

\* What makes the rule an inductive one: the types, the rule itself.
WInv == TypeOK /\ (~reported => Consistent)

\* The permissions stored by an assignment are not the empty function.
LEMMA StoredIsNotEmpty ==
    ASSUME NEW f \in [Permissions -> BOOLEAN]
    PROVE  f # Empty
<1>1. Normal \in DOMAIN f
  BY DEF Permissions, States
<1>2. DOMAIN Empty = {}
  BY DEF Empty
<1> QED
  BY <1>1, <1>2

\* The five names of permissions are five.
LEMMA JoinIsNoState == Join \notin States
<1> DEFINE Named == {<<1, Normal>>, <<2, Docked>>, <<3, Autohide>>, <<4, Float>>, <<5, Join>>}
<1>1. \A x, y \in Named : x[2] = y[2] => x[1] = y[1]
  BY WindowAssumption
<1>2. <<5, Join>> \in Named /\ \A s \in States : \E k \in 1..4 : <<k, s>> \in Named
  BY DEF States
<1>3. ASSUME Join \in States PROVE FALSE
  <2>1. PICK k \in 1..4 : <<k, Join>> \in Named
    BY <1>2, <1>3
  <2> HIDE DEF Named
  <2>2. <<k, Join>>[1] = <<5, Join>>[1]
    BY <1>1, <1>2, <2>1
  <2> QED
    BY <2>1, <2>2
<1> QED
  BY <1>3

LEMMA ComputedIsBoolean ==
    ASSUME TypeOK, NEW p \in Permissions
    PROVE  Permission(p) \in BOOLEAN
<1>1. CASE permissions = Empty
  BY <1>1, Zenon DEF Permission, Computed
<1>2. CASE permissions # Empty
  BY <1>2, StoredIsNotEmpty DEF TypeOK, Permission
<1> QED
  BY <1>1, <1>2

LEMMA FrozenType ==
    ASSUME TypeOK
    PROVE  /\ Frozen \in [Permissions -> BOOLEAN]
           /\ \A p \in Permissions : Frozen[p] = Permission(p)
BY ComputedIsBoolean DEF Frozen

\* A form that nothing was assigned to obeys the rules of the permissions.
LEMMA ComputedAllows ==
    ASSUME permissions = Empty
    PROVE  Permission(state) /\ (connectable => Permission(Join))
BY DEF Permission, Computed, Connectable

\* The parts every assignment has in common.
Assign(what) ==
    /\ permissions' \in [Permissions -> BOOLEAN]
    /\ opened' = opened
    /\ state' \in States /\ connectable' \in BOOLEAN
    /\ Report(what)

LEMMA AssignType ==
    ASSUME TypeOK, NEW what \in {"state", "connectable", "permission", "join"},
           Assign(what)
    PROVE  TypeOK'
<1>1. status' \in Statuses
  BY DEF Assign, Report, Rule, Statuses
<1>2. reported' \in BOOLEAN
  BY Zenon DEF Assign, Report
<1>3. opened' \in BOOLEAN /\ permissions' \in {Empty} \cup [Permissions -> BOOLEAN]
  BY DEF TypeOK, Assign
<1> QED
  BY <1>1, <1>2, <1>3 DEF TypeOK, Assign

\* After an assignment a permission reads as it is stored.
LEMMA ReadsStored ==
    ASSUME NEW f \in [Permissions -> BOOLEAN], permissions' = f,
           NEW p \in Permissions
    PROVE  Permission(p)' = f[p]
BY StoredIsNotEmpty DEF Permission

LEMMA SetStateKeeps ==
    ASSUME WInv, NEW s \in States, SetState(s)
    PROVE  WInv'
<1>1. /\ Frozen \in [Permissions -> BOOLEAN]
      /\ \A p \in Permissions : Frozen[p] = Permission(p)
  BY FrozenType DEF WInv
<1>2. TypeOK'
  BY <1>1, AssignType DEF WInv, TypeOK, SetState, Assign
<1>3. s \in Permissions /\ Join \in Permissions
  BY DEF Permissions
<1>4. Permission(s)' = Frozen[s] /\ Permission(Join)' = Permission(Join)
  BY <1>1, <1>3, ReadsStored DEF SetState
<1>5. ASSUME ~reported' PROVE Consistent'
  <2>1. ~reported /\ Rule("state", s, connectable, Frozen) \in {"applied", "applied_runtime_only"}
    BY <1>5 DEF SetState, Report
  <2>2. Frozen[s] /\ (s \in Side => connectable)
    BY <2>1 DEF Rule
  <2>3. connectable => Permission(Join)
    BY <2>1 DEF WInv, Consistent
  <2> QED
    BY <1>4, <2>2, <2>3 DEF SetState, Consistent
<1> QED
  BY <1>2, <1>5 DEF WInv

LEMMA SetConnectableKeeps ==
    ASSUME WInv, NEW c \in BOOLEAN, SetConnectable(c)
    PROVE  WInv'
<1>1. /\ Frozen \in [Permissions -> BOOLEAN]
      /\ \A p \in Permissions : Frozen[p] = Permission(p)
  BY FrozenType DEF WInv
<1>2. TypeOK'
  BY <1>1, AssignType DEF WInv, TypeOK, SetConnectable, Assign
<1>3. state \in Permissions /\ Join \in Permissions
  BY DEF WInv, TypeOK, Permissions
<1>4. Permission(state)' = Permission(state) /\ Permission(Join)' = Frozen[Join]
  BY <1>1, <1>3, ReadsStored DEF SetConnectable
<1>5. ASSUME ~reported' PROVE Consistent'
  <2>1. ~reported /\ Rule("connectable", state, c, Frozen) \in {"applied", "applied_runtime_only"}
    BY <1>5 DEF SetConnectable, Report
  <2>2. (c => Frozen[Join]) /\ (state \in Side => c)
    BY <2>1 DEF Rule
  <2>3. Permission(state)
    BY <2>1 DEF WInv, Consistent
  <2> QED
    BY <1>4, <2>2, <2>3 DEF SetConnectable, Consistent
<1> QED
  BY <1>2, <1>5 DEF WInv

LEMMA SetPermissionKeeps ==
    ASSUME WInv, NEW p \in Permissions, NEW v \in BOOLEAN, SetPermission(p, v)
    PROVE  WInv'
<1> DEFINE stored == [Frozen EXCEPT ![p] = v]
<1>1. /\ Frozen \in [Permissions -> BOOLEAN]
      /\ \A q \in Permissions : Frozen[q] = Permission(q)
  BY FrozenType DEF WInv
<1>2. stored \in [Permissions -> BOOLEAN] /\ permissions' = stored
  BY <1>1 DEF SetPermission
<1>3. TypeOK'
  BY <1>2, AssignType DEF WInv, TypeOK, SetPermission, Assign
<1>4. state \in Permissions /\ Join \in Permissions /\ state # Join
  BY JoinIsNoState DEF WInv, TypeOK, Permissions
<1>5. Permission(state)' = stored[state] /\ Permission(Join)' = stored[Join]
  BY <1>2, <1>4, ReadsStored DEF SetPermission
<1>6. ASSUME ~reported' PROVE Consistent'
  <2>1. ~reported
    BY <1>6 DEF SetPermission, Report
  <2>2. Permission(state) /\ (connectable => Permission(Join)) /\ (state \in Side => connectable)
    BY <2>1 DEF WInv, Consistent
  <2>3. CASE p = Join
    <3>1. Rule("join", state, connectable, stored) \in {"applied", "applied_runtime_only"}
      BY <1>6, <2>3 DEF SetPermission, Report
    <3>2. connectable => stored[Join]
      BY <3>1 DEF Rule
    <3>3. stored[state] = Permission(state)
      BY <1>1, <1>4, <2>3
    <3> QED
      BY <1>5, <2>2, <3>2, <3>3 DEF SetPermission, Consistent
  <2>4. CASE p # Join
    <3>1. Rule("permission", state, connectable, stored) \in {"applied", "applied_runtime_only"}
      BY <1>6, <2>4 DEF SetPermission, Report
    <3>2. stored[state]
      BY <3>1 DEF Rule
    <3>3. stored[Join] = Permission(Join)
      BY <1>1, <1>4, <2>4
    <3> QED
      BY <1>5, <2>2, <3>2, <3>3 DEF SetPermission, Consistent
  <2> QED
    BY <2>3, <2>4
<1> QED
  BY <1>3, <1>6 DEF WInv

LEMMA SetFormKeeps ==
    ASSUME WInv, SetForm
    PROVE  WInv'
<1>1. TypeOK'
  BY Zenon DEF WInv, TypeOK, SetForm
<1>2. Permission(state)' /\ (connectable' => Permission(Join)')
  BY DEF SetForm, Permission, Computed, Connectable
<1>3. ASSUME ~reported' PROVE state' \in Side => connectable'
  BY <1>3 DEF SetForm
<1> QED
  BY <1>1, <1>2, <1>3 DEF WInv, Consistent

LEMMA MarkOpeningStartedKeeps ==
    ASSUME WInv, MarkOpeningStarted
    PROVE  WInv'
<1>1. TypeOK'
  BY Zenon DEF WInv, TypeOK, MarkOpeningStarted
<1>2. Permission(state)' = Permission(state)
  BY DEF MarkOpeningStarted, Permission, Computed, Connectable
<1>3. Permission(Join) => Permission(Join)'
  BY DEF MarkOpeningStarted, Permission, Computed, Connectable
<1>4. ASSUME ~reported' PROVE Consistent'
  BY <1>2, <1>3, <1>4 DEF WInv, Consistent, MarkOpeningStarted
<1> QED
  BY <1>1, <1>4 DEF WInv

LEMMA WInvHolds == Spec => []WInv
<1>1. Init => WInv
  <2> SUFFICES ASSUME Init PROVE WInv
    OBVIOUS
  <2>1. TypeOK
    BY Zenon DEF Init, TypeOK, Statuses
  <2>2. Permission(state) /\ (connectable => Permission(Join))
    BY ComputedAllows DEF Init
  <2>3. ~reported => (state \in Side => connectable)
    BY DEF Init
  <2> QED
    BY <2>1, <2>2, <2>3 DEF WInv, Consistent
<1>2. WInv /\ [Next]_vars => WInv'
  <2> SUFFICES ASSUME WInv, [Next]_vars PROVE WInv'
    OBVIOUS
  <2>1. CASE \E s \in States : SetState(s)
    BY <2>1, SetStateKeeps
  <2>2. CASE \E c \in BOOLEAN : SetConnectable(c)
    BY <2>2, SetConnectableKeeps
  <2>3. CASE \E p \in Permissions, v \in BOOLEAN : SetPermission(p, v)
    BY <2>3, SetPermissionKeeps
  <2>4. CASE Forbidden
    <3>1. TypeOK'
      BY <2>4, Zenon DEF WInv, TypeOK, Forbidden, Statuses
    <3>2. ~reported' => Consistent'
      BY <2>4 DEF WInv, Consistent, Forbidden, Permission, Computed, Connectable
    <3> QED
      BY <3>1, <3>2 DEF WInv
  <2>5. CASE MarkOpeningStarted
    BY <2>5, MarkOpeningStartedKeeps
  <2>6. CASE SetForm
    BY <2>6, SetFormKeeps
  <2>7. CASE UNCHANGED vars
    BY <2>7 DEF WInv, TypeOK, Consistent, Permission, Computed, Connectable, vars
  <2> QED
    BY <2>1, <2>2, <2>3, <2>4, <2>5, <2>6, <2>7 DEF Next
<1> QED
  BY <1>1, <1>2, PTL DEF Spec

\* Type correctness: after any calls of set_prop_val the permissions are either
\* none or all five, and the state is one of the four.
THEOREM TypeCorrect == Spec => []TypeOK
BY WInvHolds, PTL DEF WInv

\* The rules that set_prop_val looks at one by one hold together in a window
\* none of whose assignments was reported.
THEOREM UnreportedConsistent == Spec => []UnreportedIsConsistent
<1>1. WInv => UnreportedIsConsistent
  BY DEF WInv, Consistent, UnreportedIsConsistent
<1> QED
  BY <1>1, WInvHolds, PTL

\* The first assignment, which replaces five computed permissions by stored
\* ones, changes what is read of no property but its own.
THEOREM AssignmentsAreLocal == Spec => AssignmentIsLocal
<1> DEFINE Local ==
      ~opened /\ ~opened' /\ ~SetForm =>
        \/ \A p \in Permissions : Permission(p)' = Permission(p)
        \/ /\ state' = state /\ connectable' = connectable
           /\ \E q \in Permissions : \A p \in Permissions \ {q} :
                Permission(p)' = Permission(p)
<1>1. ASSUME WInv, [Next]_vars PROVE [Local]_vars
  <2>1. /\ Frozen \in [Permissions -> BOOLEAN]
        /\ \A p \in Permissions : Frozen[p] = Permission(p)
    BY <1>1, FrozenType DEF WInv
  <2>2. ASSUME permissions' = Frozen
        PROVE  \A p \in Permissions : Permission(p)' = Permission(p)
    BY <2>1, <2>2, ReadsStored
  <2>3. CASE \E s \in States : SetState(s)
    BY <2>2, <2>3 DEF SetState
  <2>4. CASE \E c \in BOOLEAN : SetConnectable(c)
    BY <2>2, <2>4 DEF SetConnectable
  <2>5. CASE \E q \in Permissions, v \in BOOLEAN : SetPermission(q, v)
    <3>1. PICK q \in Permissions, v \in BOOLEAN : SetPermission(q, v)
      BY <2>5
    <3>2. permissions' = [Frozen EXCEPT ![q] = v]
      BY <3>1 DEF SetPermission
    <3>3. permissions' \in [Permissions -> BOOLEAN]
      BY <2>1, <3>2
    <3>4. \A p \in Permissions \ {q} : Permission(p)' = Permission(p)
      BY <2>1, <3>2, <3>3, ReadsStored
    <3>5. state' = state /\ connectable' = connectable
      BY <3>1 DEF SetPermission
    <3> QED
      BY <3>4, <3>5
  <2>6. CASE Forbidden \/ MarkOpeningStarted \/ SetForm \/ UNCHANGED vars
    BY <2>6 DEF Forbidden, MarkOpeningStarted
  <2> QED
    BY <1>1, <2>3, <2>4, <2>5, <2>6 DEF Next
<1>2. WInv /\ [Next]_vars => [Local]_vars
  BY <1>1
<1> QED
  BY <1>2, WInvHolds, PTL DEF Spec, AssignmentIsLocal

Entry == [list : Lists, id : Ids, payload : Payloads]

ListsTypeOK ==
    /\ items \in [Lists -> Contents]
    /\ identity \in Seq(Entry) /\ Len(identity) <= MaxIdentities
    /\ registry \in [Lists -> Partial(Ids, Made)]
    /\ held \subseteq Made
    /\ bound \in [Documents -> [Attributes -> Lists \cup {None}]]
    /\ row \in [Documents -> Partial(Boxes, Made)]

\* What the registry of a list says of an identity is so: it was made for that
\* list and id, and the row is there and holds what the identity remembers.
Registered ==
    \A l \in Lists : \A id \in DOMAIN registry[l] :
        LET i == registry[l][id]
        IN  /\ identity[i].list = l /\ identity[i].id = id
            /\ HasRow(l, id)
            /\ RowOf(l, id).payload = identity[i].payload

ListsInv == ListsTypeOK /\ Registered

-----------------------------------------------------------------------------
(* Rows and partial functions.                                             *)

LEMMA ContentsAreRows ==
    ASSUME NEW rows \in Contents
    PROVE  /\ rows \in Seq(Row) /\ DOMAIN rows = 1..Len(rows) /\ Len(rows) \in Nat
           /\ \A k \in DOMAIN rows : rows[k] \in Row
           /\ Distinct(rows)
<1>1. Cardinality(Ids) \in Nat
  BY ListAssumption, FS_CardinalityType
<1>2. PICK m \in 0..Cardinality(Ids) : rows \in [1..m -> Row]
  BY <1>1 DEF Contents, SeqOf
<1> QED
  BY <1>1, <1>2 DEF Contents

LEMMA RowFound ==
    ASSUME ListsTypeOK, NEW l \in Lists, NEW k \in DOMAIN items[l]
    PROVE  RowOf(l, items[l][k].id) = items[l][k]
<1>1. items[l] \in Contents
  BY DEF ListsTypeOK
<1>2. Distinct(items[l])
  BY <1>1, ContentsAreRows
<1> QED
  BY <1>2 DEF RowOf, Distinct

LEMMA RowIsARow ==
    ASSUME ListsTypeOK, NEW l \in Lists, NEW id, HasRow(l, id)
    PROVE  id \in Ids /\ RowOf(l, id) \in Row /\ RowOf(l, id).id = id
<1>1. PICK k \in DOMAIN items[l] : items[l][k].id = id
  BY DEF HasRow
<1>2. items[l][k] \in Row
  BY <1>1, ContentsAreRows DEF ListsTypeOK
<1> QED
  BY <1>1, <1>2, RowFound DEF Row

LEMMA RowsSame ==
    ASSUME UNCHANGED items
    PROVE  \A l, id : (HasRow(l, id)' <=> HasRow(l, id)) /\ RowOf(l, id)' = RowOf(l, id)
BY DEF HasRow, RowOf

LEMMA PartialFunction ==
    ASSUME NEW S, NEW T, NEW D, D \subseteq S, NEW f, f \in [D -> T]
    PROVE  f \in Partial(S, T)
BY DEF Partial

LEMMA PartialIs ==
    ASSUME NEW S, NEW T, NEW f \in Partial(S, T)
    PROVE  DOMAIN f \subseteq S /\ f \in [DOMAIN f -> T]
BY DEF Partial

LEMMA MadeIs ==
    ASSUME ListsTypeOK
    PROVE  /\ Made = 1..Len(identity) /\ Len(identity) \in Nat
           /\ \A i \in Made : identity[i] \in Entry
           /\ None \notin Made
BY ListAssumption DEF ListsTypeOK, Made

LEMMA RegistryIs ==
    ASSUME ListsTypeOK, NEW l \in Lists
    PROVE  /\ DOMAIN registry[l] \subseteq Ids
           /\ registry[l] \in [DOMAIN registry[l] -> Made]
BY PartialIs DEF ListsTypeOK

-----------------------------------------------------------------------------
(* Making an identity.                                                     *)

LEMMA IdentityMade ==
    ASSUME ListsInv, NEW l \in Lists, NEW id, HasRow(l, id), CreateIdentity(l, id),
           UNCHANGED items, NEW made, made = IdentityOf(l, id)
    PROVE  /\ identity' \in Seq(Entry) /\ Len(identity') <= MaxIdentities
           /\ Made \subseteq Made' /\ \A i \in Made : identity'[i] = identity[i]
           /\ registry' \in [Lists -> Partial(Ids, Made')]
           /\ made \in Made' /\ identity'[made].id = id /\ AttachedTo(l, made)'
           /\ \A m \in Lists : \A i \in Made : AttachedTo(m, i)' <=> AttachedTo(m, i)
           /\ Registered'
<1> USE DEF ListsInv
<1>1. id \in Ids /\ RowOf(l, id) \in Row
  BY RowIsARow
<1>2. CASE id \in DOMAIN registry[l]
  <2>1. UNCHANGED <<items, registry, identity>> /\ made = registry[l][id]
    BY <1>2 DEF CreateIdentity, IdentityOf
  <2>2. made \in Made
    BY <1>2, <2>1, RegistryIs
  <2>3. Made' = Made /\ Registered'
    BY <2>1, RowsSame DEF Made, Registered
  <2>4. \A m \in Lists : \A i \in Made : AttachedTo(m, i)' <=> AttachedTo(m, i)
    BY <2>1 DEF AttachedTo
  <2>5. identity[made].id = id
    BY <1>2, <2>1 DEF Registered
  <2>6. AttachedTo(l, made)'
    BY <1>2, <2>1, <2>5 DEF AttachedTo
  <2> QED
    BY <2>1, <2>2, <2>3, <2>4, <2>5, <2>6 DEF ListsTypeOK
<1>3. CASE id \notin DOMAIN registry[l]
  <2> DEFINE entry == [list |-> l, id |-> id, payload |-> RowOf(l, id).payload]
             extended == [k \in DOMAIN registry[l] \cup {id} |->
                            IF k = id THEN made ELSE registry[l][k]]
  <2>1. /\ Len(identity) < MaxIdentities
        /\ registry' = [registry EXCEPT ![l] = extended]
        /\ identity' = Append(identity, entry)
        /\ made = Len(identity) + 1
    BY <1>3 DEF CreateIdentity, IdentityOf
  <2>2. entry \in Entry
    BY <1>1 DEF Entry, Row
  <2>3. /\ identity' \in Seq(Entry) /\ Len(identity') = made /\ Made' = 1..made
        /\ \A i \in Made : identity'[i] = identity[i]
        /\ identity'[made] = entry
    BY <2>1, <2>2, MadeIs DEF ListsTypeOK, Made
  <2>4. Made \subseteq Made' /\ made \in Made' /\ made \notin Made
    BY <2>1, <2>3, MadeIs
  <2>5. /\ DOMAIN registry' = Lists /\ registry'[l] = extended
        /\ \A m \in Lists : m # l => registry'[m] = registry[m]
    BY <2>1 DEF ListsTypeOK
  <2>6. ASSUME NEW m \in Lists PROVE registry'[m] \in Partial(Ids, Made')
    <3>1. CASE m = l
      <4>1. extended \in [DOMAIN registry[l] \cup {id} -> Made']
        BY <2>4, RegistryIs
      <4> QED
        BY <1>1, <2>5, <3>1, <4>1, RegistryIs, PartialFunction
    <3>2. CASE m # l
      <4>1. registry[m] \in [DOMAIN registry[m] -> Made']
        BY <2>4, RegistryIs
      <4> QED
        BY <2>5, <3>2, <4>1, RegistryIs, PartialFunction
    <3> QED
      BY <3>1, <3>2
  <2>7. registry' \in [Lists -> Partial(Ids, Made')]
    BY <2>1, <2>5, <2>6 DEF ListsTypeOK
  <2>8. id \in DOMAIN registry'[l] /\ registry'[l][id] = made /\ identity'[made].id = id
    BY <2>3, <2>5
  <2>9. AttachedTo(l, made)'
    BY <2>8 DEF AttachedTo
  <2>10. ASSUME NEW m \in Lists, NEW i \in Made
         PROVE  AttachedTo(m, i)' <=> AttachedTo(m, i)
    BY <1>3, <2>3, <2>4, <2>5 DEF AttachedTo
  <2>11. ASSUME NEW m \in Lists, NEW k \in DOMAIN registry'[m]
         PROVE  LET i == registry'[m][k]
                IN  /\ identity'[i].list = m /\ identity'[i].id = k
                    /\ HasRow(m, k)
                    /\ RowOf(m, k).payload = identity'[i].payload
    <3>1. CASE m = l /\ k = id
      BY <2>3, <2>5, <3>1
    <3>2. CASE ~(m = l /\ k = id)
      <4>1. k \in DOMAIN registry[m] /\ registry'[m][k] = registry[m][k]
        BY <2>5, <2>11, <3>2
      <4>2. registry[m][k] \in Made
        BY <4>1, RegistryIs
      <4> QED
        BY <2>3, <4>1, <4>2 DEF Registered
    <3> QED
      BY <3>1, <3>2
  <2>12. Registered'
    BY <2>11, RowsSame DEF Registered
  <2>13. Len(identity') <= MaxIdentities
    BY <2>1, <2>3, MadeIs, ListAssumption
  <2> HIDE DEF entry, extended
  <2> QED
    BY <2>3, <2>4, <2>7, <2>8, <2>9, <2>10, <2>12, <2>13
<1> QED
  BY <1>2, <1>3

-----------------------------------------------------------------------------
(* Replacing the rows of a list.                                           *)

LEMMA RowsReplaced ==
    ASSUME ListsInv, NEW l \in Lists, NEW rows \in Contents, Replace(l, rows)
    PROVE  /\ ListsInv'
           /\ Made' = Made
           /\ \A m \in Lists : \A i \in Made : AttachedTo(m, i)' => AttachedTo(m, i)
           /\ \A i \in Made :
                /\ identity'[i].list = identity[i].list /\ identity'[i].id = identity[i].id
                /\ IsAttached(i) /\ HasRow(identity[i].list, identity[i].id)'
                     => IsAttached(i)'
                /\ ~IsAttached(i) => identity'[i] = identity[i]
<1> USE DEF ListsInv
<1> DEFINE RowAt(id) == CHOOSE k \in DOMAIN rows : rows[k].id = id
           ids == {rows[k].id : k \in DOMAIN rows}
           kept == DOMAIN registry[l] \cap ids
           Hit(i) == \E id \in kept : registry[l][id] = i
<1>1. /\ items' = [items EXCEPT ![l] = rows]
      /\ registry' = [registry EXCEPT ![l] = [id \in kept |-> registry[l][id]]]
      /\ identity' = [i \in Made |->
             IF Hit(i) THEN [identity[i] EXCEPT !.payload = rows[RowAt(identity[i].id)].payload]
                       ELSE identity[i]]
      /\ UNCHANGED <<held, bound, row>>
  BY DEF Replace
<1>2. /\ DOMAIN registry' = Lists /\ DOMAIN registry'[l] = kept
      /\ \A id \in kept : registry'[l][id] = registry[l][id]
      /\ \A m \in Lists : m # l => registry'[m] = registry[m]
  BY <1>1 DEF ListsTypeOK
<1>3. /\ items'[l] = rows
      /\ \A m \in Lists : m # l => items'[m] = items[m]
      /\ items' \in [Lists -> Contents]
  BY <1>1 DEF ListsTypeOK
<1>4. \A id \in ids : /\ RowAt(id) \in DOMAIN rows /\ rows[RowAt(id)].id = id
                      /\ rows[RowAt(id)] \in Row
  BY ContentsAreRows
<1>5. \A i \in Made : Hit(i) => identity[i].list = l /\ identity[i].id \in kept
                                  /\ registry[l][identity[i].id] = i
  BY DEF Registered
<1>6. /\ DOMAIN identity' = Made
      /\ \A i \in Made : ~Hit(i) => identity'[i] = identity[i]
      /\ \A i \in Made : Hit(i) => identity'[i] =
           [identity[i] EXCEPT !.payload = rows[RowAt(identity[i].id)].payload]
  BY <1>1
<1>7. ASSUME NEW i \in Made
      PROVE  /\ identity'[i] \in Entry
             /\ identity'[i].list = identity[i].list /\ identity'[i].id = identity[i].id
             /\ Hit(i) => identity'[i].payload = rows[RowAt(identity[i].id)].payload
  <2>1. identity[i] \in Entry
    BY MadeIs
  <2>2. CASE ~Hit(i)
    BY <1>6, <2>1, <2>2
  <2>3. CASE Hit(i)
    <3>1. rows[RowAt(identity[i].id)].payload \in Payloads
      BY <1>4, <1>5, <2>3 DEF Row
    <3> QED
      BY <1>6, <2>1, <2>3, <3>1 DEF Entry
  <2> QED
    BY <2>2, <2>3
<1>8. identity' \in Seq(Entry) /\ Len(identity') = Len(identity) /\ Made' = Made
  <2>1. identity' \in [1..Len(identity) -> Entry]
    BY <1>1, <1>7, MadeIs
  <2> QED
    BY <1>6, <2>1, MadeIs DEF Made
<1>9. ASSUME NEW m \in Lists PROVE registry'[m] \in Partial(Ids, Made)
  <2>1. CASE m = l
    <3>1. [id \in kept |-> registry[l][id]] \in [kept -> Made] /\ kept \subseteq Ids
      BY RegistryIs
    <3> QED
      BY <1>1, <2>1, <3>1, PartialFunction DEF ListsTypeOK
  <2>2. CASE m # l
    BY <1>2, <2>2 DEF ListsTypeOK
  <2> QED
    BY <2>1, <2>2
<1>10. ListsTypeOK'
  <2>1. registry' \in [Lists -> Partial(Ids, Made)]
    BY <1>1, <1>2, <1>9 DEF ListsTypeOK
  <2> QED
    BY <1>1, <1>3, <1>8, <2>1 DEF ListsTypeOK
<1>11. \A id : HasRow(l, id)' <=> id \in ids
  BY <1>3 DEF HasRow
<1>12. \A id : /\ RowOf(l, id)' = rows[RowAt(id)]
               /\ \A m \in Lists : m # l => /\ HasRow(m, id)' <=> HasRow(m, id)
                                            /\ RowOf(m, id)' = RowOf(m, id)
  BY <1>3 DEF HasRow, RowOf
<1>13. ASSUME NEW m \in Lists, NEW k \in DOMAIN registry'[m]
       PROVE  /\ k \in DOMAIN registry[m] /\ registry'[m][k] = registry[m][k]
              /\ registry[m][k] \in Made
              /\ identity[registry[m][k]].list = m /\ identity[registry[m][k]].id = k
  <2>1. k \in DOMAIN registry[m] /\ registry'[m][k] = registry[m][k]
    BY <1>2, <1>13
  <2> QED
    BY <2>1, RegistryIs DEF Registered
<1>14. ASSUME NEW m \in Lists, NEW k \in DOMAIN registry'[m]
       PROVE  /\ HasRow(m, k)'
              /\ RowOf(m, k)'.payload = identity'[registry'[m][k]].payload
  <2>1. CASE m = l
    <3>1. k \in kept /\ Hit(registry[l][k])
      BY <1>2, <1>13, <2>1
    <3> QED
      BY <1>7, <1>11, <1>12, <1>13, <2>1, <3>1
  <2>2. CASE m # l
    <3>1. ~Hit(registry[m][k])
      BY <1>5, <1>13, <2>2
    <3>2. identity'[registry[m][k]] = identity[registry[m][k]]
      BY <1>6, <1>13, <3>1
    <3> QED
      BY <1>12, <1>13, <2>2, <3>2 DEF Registered
  <2> QED
    BY <2>1, <2>2
<1>15. Registered'
  BY <1>7, <1>13, <1>14 DEF Registered
<1>16. ASSUME NEW m \in Lists, NEW i \in Made, AttachedTo(m, i)'
       PROVE  AttachedTo(m, i)
  BY <1>7, <1>13, <1>16 DEF AttachedTo
<1>17. ASSUME NEW i \in Made, IsAttached(i), HasRow(identity[i].list, identity[i].id)'
       PROVE  IsAttached(i)'
  <2>1. identity[i].list \in Lists
    BY MadeIs DEF Entry
  <2>2. CASE identity[i].list = l
    <3>1. identity[i].id \in DOMAIN registry[l] /\ registry[l][identity[i].id] = i
      BY <1>17, <2>2 DEF IsAttached, AttachedTo
    <3>2. identity[i].id \in ids
      BY <1>3, <1>7, <1>17, <2>2 DEF HasRow
    <3> QED
      BY <1>2, <1>7, <2>2, <3>1, <3>2 DEF IsAttached, AttachedTo
  <2>3. CASE identity[i].list # l
    BY <1>2, <1>7, <1>17, <2>1, <2>3 DEF IsAttached, AttachedTo
  <2> QED
    BY <2>2, <2>3
<1>18. ASSUME NEW i \in Made, ~IsAttached(i) PROVE identity'[i] = identity[i]
  <2>1. ~Hit(i)
    BY <1>5, <1>18 DEF IsAttached, AttachedTo
  <2> QED
    BY <1>6, <2>1
<1> HIDE DEF RowAt, ids, kept, Hit
<1> QED
  BY <1>7, <1>8, <1>10, <1>15, <1>16, <1>17, <1>18

-----------------------------------------------------------------------------
(* The invariant.                                                          *)

LEMMA ListsStart == ListsInit => ListsInv
<1> SUFFICES ASSUME ListsInit PROVE ListsInv
  OBVIOUS
<1>1. identity = <<>> /\ Made = {} /\ Len(identity) = 0
  BY DEF ListsInit, Made
<1>2. \A S, T : NoRow \in Partial(S, T)
  <2> SUFFICES ASSUME NEW S, NEW T PROVE NoRow \in Partial(S, T)
    OBVIOUS
  <2>1. NoRow \in [{} -> T] /\ {} \subseteq S
    BY DEF NoRow
  <2> QED
    BY <2>1, PartialFunction
<1>3. ListsTypeOK
  BY <1>1, <1>2, ListAssumption DEF ListsInit, ListsTypeOK, NothingBound
<1>4. Registered
  BY DEF ListsInit, Registered, NoRow
<1> QED
  BY <1>3, <1>4 DEF ListsInv

LEMMA Selects ==
    ASSUME NEW T, NEW r \in Partial(Boxes, T), NEW S, S \subseteq Boxes, NEW i \in T
    PROVE  With(r, S, i) \in Partial(Boxes, T) /\ Without(r, S) \in Partial(Boxes, T)
<1>1. r \in [DOMAIN r -> T] /\ DOMAIN r \subseteq Boxes
  BY PartialIs
<1>2. With(r, S, i) \in [DOMAIN r \cup S -> T] /\ Without(r, S) \in [DOMAIN r \ S -> T]
  BY <1>1 DEF With, Without
<1> QED
  BY <1>1, <1>2, PartialFunction

LEMMA Deselects ==
    ASSUME NEW T, NEW r \in Partial(Boxes, T), NEW S
    PROVE  Without(r, S) \in Partial(Boxes, T)
<1>1. r \in [DOMAIN r -> T] /\ DOMAIN r \subseteq Boxes
  BY PartialIs
<1>2. Without(r, S) \in [DOMAIN r \ S -> T]
  BY <1>1 DEF Without
<1> QED
  BY <1>1, <1>2, PartialFunction

LEMMA Widened ==
    ASSUME NEW S, NEW T, NEW U, T \subseteq U
    PROVE  Partial(S, T) \subseteq Partial(S, U)
<1> SUFFICES ASSUME NEW f \in Partial(S, T) PROVE f \in Partial(S, U)
  OBVIOUS
<1>1. DOMAIN f \subseteq S /\ f \in [DOMAIN f -> T]
  BY PartialIs
<1>2. f \in [DOMAIN f -> U]
  BY <1>1
<1> QED
  BY <1>1, <1>2, PartialFunction

\* The first row of a list is one of its rows.
LEMMA FirstIsARow ==
    ASSUME ListsTypeOK, NEW l \in Lists, items[l] # <<>>
    PROVE  /\ HasRow(l, Head(items[l]).id) /\ Head(items[l]).id \in Ids
           /\ Head(items[l]) = items[l][1]
<1>1. items[l] \in Seq(Row) /\ DOMAIN items[l] = 1..Len(items[l]) /\ Len(items[l]) \in Nat
  BY ContentsAreRows DEF ListsTypeOK
<1>2. 1 \in DOMAIN items[l] /\ Head(items[l]) = items[l][1] /\ items[l][1] \in Row
  BY <1>1
<1> QED
  BY <1>2 DEF HasRow, Row

LEMMA ListsStep == ListsInv /\ [ListsNext]_listsVars => ListsInv'
<1> SUFFICES ASSUME ListsInv, [ListsNext]_listsVars PROVE ListsInv'
  OBVIOUS
<1> USE DEF ListsInv
<1>1. ASSUME UNCHANGED <<items, registry, identity>>,
             held' \subseteq Made,
             bound' \in [Documents -> [Attributes -> Lists \cup {None}]],
             row' \in [Documents -> Partial(Boxes, Made)]
      PROVE  ListsInv'
  <2>1. Made' = Made /\ Registered'
    BY <1>1, RowsSame DEF Made, Registered
  <2> QED
    BY <1>1, <2>1 DEF ListsTypeOK
<1>2. ASSUME NEW l \in Lists, NEW id, HasRow(l, id), CreateIdentity(l, id), UNCHANGED items,
             NEW made, made = IdentityOf(l, id),
             held' \subseteq Made \cup {made},
             bound' \in [Documents -> [Attributes -> Lists \cup {None}]],
             row' \in [Documents -> Partial(Boxes, Made')]
      PROVE  ListsInv'
  BY <1>2, IdentityMade DEF ListsTypeOK
<1>3. ASSUME NEW l \in Lists, NEW id \in Ids, Create(l, id) PROVE ListsInv'
  <2> DEFINE made == IdentityOf(l, id)
  <2> HIDE DEF made
  <2>1. /\ HasRow(l, id) /\ CreateIdentity(l, id) /\ UNCHANGED <<items, bound, row>>
        /\ held' = held \cup {made}
    BY <1>3 DEF Create, made
  <2>2. Made \subseteq Made'
    BY <2>1, IdentityMade
  <2>3. row' \in [Documents -> Partial(Boxes, Made')]
    BY <2>1, <2>2, Widened DEF ListsTypeOK
  <2> QED
    BY <1>2, <2>1, <2>3 DEF made, ListsTypeOK
<1>4. ASSUME NEW i \in held, Release(i) PROVE ListsInv'
  BY <1>1, <1>4 DEF Release, ListsTypeOK
<1>5. ASSUME NEW l \in Lists, NEW rows \in Contents, Replace(l, rows) PROVE ListsInv'
  BY <1>5, RowsReplaced
<1>6. ASSUME NEW d \in Documents, NEW a \in Attributes, NEW l \in Lists, Bind(d, a, l)
      PROVE  ListsInv'
  <2>1. bound' \in [Documents -> [Attributes -> Lists \cup {None}]]
    BY <1>6 DEF Bind, ListsTypeOK
  <2>2. BoxesOf(a) \subseteq Boxes
    BY DEF BoxesOf
  <2>3. CASE items[l] = <<>>
    <3>1. row' \in [Documents -> Partial(Boxes, Made)]
      BY <1>6, <2>3, Deselects DEF Bind, ListsTypeOK
    <3> QED
      BY <1>1, <1>6, <2>1, <2>3, <3>1 DEF Bind, ListsTypeOK
  <2>4. CASE items[l] # <<>>
    <3> DEFINE first == Head(items[l]).id
               made == IdentityOf(l, first)
    <3>1. /\ CreateIdentity(l, first) /\ UNCHANGED <<items, held>>
          /\ row' = [row EXCEPT ![d] = With(@, BoxesOf(a), made)]
          /\ HasRow(l, first)
      BY <1>6, <2>4, FirstIsARow DEF Bind
    <3> HIDE DEF first, made
    <3>2. Made \subseteq Made' /\ made \in Made'
      BY <3>1, IdentityMade DEF made
    <3>3. row[d] \in Partial(Boxes, Made') /\ row \in [Documents -> Partial(Boxes, Made')]
      BY <3>2, Widened DEF ListsTypeOK
    <3>4. With(row[d], BoxesOf(a), made) \in Partial(Boxes, Made')
      BY <2>2, <3>2, <3>3, Selects
    <3>5. row' \in [Documents -> Partial(Boxes, Made')]
      BY <3>1, <3>3, <3>4
    <3>6. held' \subseteq Made \cup {made}
      BY <3>1 DEF ListsTypeOK
    <3> QED
      BY <1>2, <2>1, <3>1, <3>5, <3>6 DEF made
  <2> QED
    BY <2>3, <2>4
<1>7. ASSUME NEW d \in Documents, NEW b \in Boxes, NEW i \in held, SetRow(d, b, i)
      PROVE  ListsInv'
  <2> DEFINE l == bound[d][AttributeOf[b]]
             id == identity[i].id
             made == IdentityOf(l, id)
  <2>1. /\ l # None /\ HasRow(l, id) /\ CreateIdentity(l, id)
        /\ UNCHANGED <<items, held, bound>>
        /\ row' = [row EXCEPT ![d] = With(@, {b}, made)]
    BY <1>7 DEF SetRow
  <2>2. l \in Lists
    BY <2>1, ListAssumption DEF ListsTypeOK
  <2> HIDE DEF l, id, made
  <2>3. Made \subseteq Made' /\ made \in Made'
    BY <2>1, <2>2, IdentityMade DEF made
  <2>4. row[d] \in Partial(Boxes, Made') /\ row \in [Documents -> Partial(Boxes, Made')]
    BY <2>3, Widened DEF ListsTypeOK
  <2>5. With(row[d], {b}, made) \in Partial(Boxes, Made')
    BY <2>3, <2>4, Selects
  <2>6. row' \in [Documents -> Partial(Boxes, Made')]
    BY <2>1, <2>4, <2>5
  <2>7. /\ held' \subseteq Made \cup {made}
        /\ bound' \in [Documents -> [Attributes -> Lists \cup {None}]]
    BY <2>1 DEF ListsTypeOK
  <2> QED
    BY <1>2, <2>1, <2>2, <2>6, <2>7 DEF made
<1>8. ASSUME NEW d \in Documents, NEW b \in Boxes, ResetRow(d, b) \/ ReadRow(d, b)
      PROVE  ListsInv'
  <2>1. row' \in [Documents -> Partial(Boxes, Made)]
    BY <1>8, Deselects DEF ResetRow, ReadRow, ListsTypeOK
  <2> QED
    BY <1>1, <1>8, <2>1 DEF ResetRow, ReadRow, ListsTypeOK
<1>9. ASSUME NEW d \in Documents, SetListsForm(d) \/ Copy(d) PROVE ListsInv'
  <2>1. NoRow \in Partial(Boxes, Made) /\ NothingBound \in [Attributes -> Lists \cup {None}]
    <3>1. NoRow \in [{} -> Made] /\ {} \subseteq Boxes
      BY DEF NoRow
    <3> QED
      BY <3>1, PartialFunction DEF NothingBound
  <2>2. /\ row' \in [Documents -> Partial(Boxes, Made)]
        /\ bound' \in [Documents -> [Attributes -> Lists \cup {None}]]
    <3>1. PICK r \in Partial(Boxes, Made), l \in [Attributes -> Lists \cup {None}] :
            bound' = [bound EXCEPT ![d] = l] /\ row' = [row EXCEPT ![d] = r]
      BY <1>9, <2>1, ListAssumption DEF SetListsForm, Copy, ListsTypeOK
    <3> QED
      BY <3>1 DEF ListsTypeOK
  <2> QED
    BY <1>1, <1>9, <2>2 DEF SetListsForm, Copy, ListsTypeOK
<1>10. CASE UNCHANGED listsVars
  BY <1>1, <1>10 DEF listsVars, ListsTypeOK
<1> QED
  BY <1>3, <1>4, <1>5, <1>6, <1>7, <1>8, <1>9, <1>10 DEF ListsNext

THEOREM ListsInvariant == ListsSpec => []ListsInv
<1> QED
  BY ListsStart, ListsStep, PTL DEF ListsSpec

\* A selection that reads as a row is a row the box's own list still has, with
\* its contents.
THEOREM LiveRow == ListsSpec => []SelectionIsALiveRow
<1>1. ListsInv => SelectionIsALiveRow
  <2> SUFFICES ASSUME ListsInv, NEW d \in Documents, NEW b \in Boxes, CurrentRow(d, b) # None
               PROVE  LET l == bound[d][AttributeOf[b]]
                          i == CurrentRow(d, b)
                      IN  /\ HasRow(l, identity[i].id)
                          /\ RowOf(l, identity[i].id).payload = identity[i].payload
    BY DEF SelectionIsALiveRow
  <2> DEFINE l == bound[d][AttributeOf[b]]
             i == CurrentRow(d, b)
  <2>1. l # None /\ AttachedTo(l, i)
    BY DEF CurrentRow
  <2>2. l \in Lists
    BY <2>1, ListAssumption DEF ListsInv, ListsTypeOK
  <2> QED
    BY <2>1, <2>2 DEF AttachedTo, ListsInv, Registered
<1> QED
  BY <1>1, ListsInvariant, PTL

-----------------------------------------------------------------------------
(* References and selections.                                              *)

LEMMA AttachmentSame ==
    ASSUME UNCHANGED <<registry, identity>>
    PROVE  \A m, i : AttachedTo(m, i)' <=> AttachedTo(m, i)
BY DEF AttachedTo

\* A reference to a removed row stays detached and keeps its contents; one to a
\* row that stays in its list stays attached.
THEOREM References == ListsSpec => ReferencesFollowRows
<1> DEFINE FollowsRow(i) ==
        IF IsAttached(i)
          THEN HasRow(identity[i].list, identity[i].id)' => IsAttached(i)'
          ELSE ~IsAttached(i)' /\ identity'[i] = identity[i]
<1>1. ASSUME ListsInv, [ListsNext]_listsVars, NEW i \in Made PROVE FollowsRow(i)
  <2> USE DEF ListsInv
  <2>1. identity[i].list \in Lists
    BY <1>1, MadeIs DEF Entry
  <2>2. ASSUME identity'[i] = identity[i],
               \A m \in Lists : AttachedTo(m, i)' <=> AttachedTo(m, i)
        PROVE  FollowsRow(i)
    BY <2>1, <2>2 DEF IsAttached, AttachedTo
  <2>3. CASE UNCHANGED <<registry, identity>>
    BY <2>2, <2>3, AttachmentSame
  <2>4. ASSUME NEW l \in Lists, NEW id, HasRow(l, id), CreateIdentity(l, id), UNCHANGED items
        PROVE  FollowsRow(i)
    <3>1. PICK made : made = IdentityOf(l, id)
      OBVIOUS
    <3> QED
      BY <1>1, <2>2, <2>4, <3>1, IdentityMade
  <2>5. ASSUME NEW l \in Lists, NEW id \in Ids, Create(l, id) PROVE FollowsRow(i)
    BY <2>4, <2>5 DEF Create
  <2>6. ASSUME NEW l \in Lists, NEW rows \in Contents, Replace(l, rows) PROVE FollowsRow(i)
    <3>1. identity'[i].list = identity[i].list /\ identity'[i].id = identity[i].id
      BY <1>1, <2>6, RowsReplaced
    <3>2. CASE IsAttached(i)
      <4> SUFFICES ASSUME HasRow(identity[i].list, identity[i].id)' PROVE IsAttached(i)'
        BY <3>2
      <4> QED
        BY <1>1, <2>6, <3>2, RowsReplaced
    <3>3. CASE ~IsAttached(i)
      <4>1. identity'[i] = identity[i]
        BY <1>1, <2>6, <3>3, RowsReplaced
      <4>2. AttachedTo(identity[i].list, i) = IsAttached(i)
        BY DEF IsAttached
      <4>3. ASSUME NEW m \in Lists, ~AttachedTo(m, i) PROVE ~AttachedTo(m, i)'
        BY <1>1, <2>6, <4>3, RowsReplaced
      <4>4. ~IsAttached(i)'
        BY <2>1, <3>3, <4>1, <4>2, <4>3 DEF IsAttached, AttachedTo
      <4> QED
        BY <3>3, <4>1, <4>4
    <3> QED
      BY <3>2, <3>3
  <2>7. ASSUME NEW d \in Documents, NEW a \in Attributes, NEW l \in Lists, Bind(d, a, l)
        PROVE  FollowsRow(i)
    BY <1>1, <2>3, <2>4, <2>7, FirstIsARow DEF Bind
  <2>8. ASSUME NEW d \in Documents, NEW b \in Boxes, NEW j \in held, SetRow(d, b, j)
        PROVE  FollowsRow(i)
    <3>1. bound[d][AttributeOf[b]] \in Lists
      BY <1>1, <2>8, ListAssumption DEF SetRow, ListsTypeOK
    <3> QED
      BY <2>4, <2>8, <3>1 DEF SetRow
  <2> HIDE DEF Follows
  <2> QED
    BY <1>1, <2>3, <2>5, <2>6, <2>7, <2>8
       DEF ListsNext, listsVars, Release, ResetRow, ReadRow, SetListsForm, Copy
<1>2. ListsInv /\ [ListsNext]_listsVars => \A i \in Made : FollowsRow(i)
  BY <1>1
<1> QED
  BY <1>2, ListsInvariant, PTL DEF ListsSpec, ReferencesFollowRows

-----------------------------------------------------------------------------
LEMMA SelectedIsMade ==
    ASSUME ListsInv, NEW d \in Documents, NEW b \in DOMAIN row[d]
    PROVE  row[d][b] \in Made
BY PartialIs DEF ListsInv, ListsTypeOK

\* A selection reads the same as long as the binding of its attribute and the
\* weak pointer of its box are the same and no identity changed its attachment.
LEMMA SameSelection ==
    ASSUME ListsInv, NEW d \in Documents, NEW b \in Boxes,
           bound'[d][AttributeOf[b]] = bound[d][AttributeOf[b]],
           b \in DOMAIN row'[d] <=> b \in DOMAIN row[d],
           b \in DOMAIN row[d] => row'[d][b] = row[d][b],
           \A m \in Lists : \A i \in Made : AttachedTo(m, i)' <=> AttachedTo(m, i)
    PROVE  CurrentRow(d, b)' = CurrentRow(d, b)
<1> DEFINE l == bound[d][AttributeOf[b]]
<1>1. l \in Lists \cup {None}
  BY ListAssumption DEF ListsInv, ListsTypeOK
<1>2. CASE b \in DOMAIN row[d] /\ l # None
  <2>1. AttachedTo(l, row[d][b])' <=> AttachedTo(l, row[d][b])
    <3>1. PICK i \in Made : i = row[d][b]
      BY <1>2, SelectedIsMade
    <3>2. PICK m \in Lists : m = l
      BY <1>1, <1>2
    <3>3. AttachedTo(m, i)' <=> AttachedTo(m, i)
      OBVIOUS
    <3> QED
      BY <1>2, <3>1, <3>2, <3>3 DEF AttachedTo
  <2> QED
    BY <1>2, <2>1 DEF CurrentRow, AttachedTo
<1>3. CASE ~(b \in DOMAIN row[d] /\ l # None)
  BY <1>3 DEF CurrentRow
<1> QED
  BY <1>2, <1>3

\* Replacing rows can only end a selection.
LEMMA ReplaceOnlyEnds ==
    ASSUME ListsInv, NEW d \in Documents, NEW b \in Boxes,
           NEW l \in Lists, NEW rows \in Contents, Replace(l, rows),
           CurrentRow(d, b)' # None
    PROVE  CurrentRow(d, b)' = CurrentRow(d, b)
<1>1. UNCHANGED <<bound, row>>
  BY DEF Replace
<1>2. PICK m : m = bound[d][AttributeOf[b]]
  OBVIOUS
<1>3. PICK i : i = row[d][b]
  OBVIOUS
<1>4. b \in DOMAIN row[d] /\ m # None /\ AttachedTo(m, i)' /\ CurrentRow(d, b)' = i
  BY <1>1, <1>2, <1>3 DEF CurrentRow, AttachedTo
<1>5. m \in Lists /\ i \in Made
  BY <1>2, <1>3, <1>4, SelectedIsMade, ListAssumption DEF ListsInv, ListsTypeOK
<1>6. AttachedTo(m, i)
  BY <1>4, <1>5, RowsReplaced
<1> QED
  BY <1>2, <1>3, <1>4, <1>6 DEF CurrentRow

\* Binding a list selects its first row in every box of the attribute.
LEMMA BindingSelectsFirst ==
    ASSUME ListsInv, NEW d \in Documents, NEW b \in Boxes, NEW l \in Lists,
           Bind(d, AttributeOf[b], l)
    PROVE  LET now == CurrentRow(d, b)'
               rows == items'[bound'[d][AttributeOf[b]]]
           IN  IF rows = <<>> THEN now = None
                 ELSE now # None /\ identity'[now].id = Head(rows).id
<1> DEFINE a == AttributeOf[b]
<1>1. a \in Attributes /\ l # None /\ b \in BoxesOf(a)
  BY ListAssumption DEF BoxesOf
<1>2. bound'[d][a] = l /\ items' = items
  BY <1>1 DEF Bind, ListsInv, ListsTypeOK
<1>3. CASE items[l] = <<>>
  <2>1. row'[d] = Without(row[d], BoxesOf(a))
    BY <1>3 DEF Bind, ListsInv, ListsTypeOK
  <2>2. b \notin DOMAIN row'[d]
    BY <1>1, <2>1 DEF Without
  <2> QED
    BY <1>2, <1>3, <2>2 DEF CurrentRow
<1>4. CASE items[l] # <<>>
  <2>1. PICK first : first = Head(items[l]).id
    OBVIOUS
  <2>2. PICK made : made = IdentityOf(l, first)
    OBVIOUS
  <2>3. /\ CreateIdentity(l, first) /\ HasRow(l, first)
        /\ row'[d] = With(row[d], BoxesOf(a), made)
    BY <1>4, <2>1, <2>2, FirstIsARow DEF Bind, ListsInv, ListsTypeOK
  <2>4. b \in DOMAIN row'[d] /\ row'[d][b] = made
    BY <1>1, <2>3 DEF With
  <2>5. /\ made \in Made' /\ identity'[made].id = first /\ AttachedTo(l, made)'
        /\ identity' \in Seq(Entry) /\ Len(identity') <= MaxIdentities
    BY <1>2, <2>2, <2>3, IdentityMade
  <2>6. made # None
    BY <2>5, ListAssumption DEF Made
  <2>7. CurrentRow(d, b)' = made
    BY <1>1, <1>2, <2>4, <2>5 DEF CurrentRow, AttachedTo
  <2> QED
    BY <1>2, <1>4, <2>1, <2>5, <2>6, <2>7
<1> QED
  BY <1>3, <1>4

\* A selection changes only by an operation on its box or its attribute, or ends
\* with its row; binding selects the first row.
THEOREM Locality == ListsSpec => SelectionIsLocal
<1> DEFINE Explained(d, b) ==
        \/ CurrentRow(d, b)' = None /\ bound' = bound /\ row' = row
        \/ \E i \in held : SetRow(d, b, i)
        \/ ResetRow(d, b) \/ (\E l \in Lists : Bind(d, AttributeOf[b], l))
        \/ SetListsForm(d) \/ Copy(d)
<1>1. ASSUME ListsInv, [ListsNext]_listsVars, NEW d \in Documents, NEW b \in Boxes,
             CurrentRow(d, b)' # CurrentRow(d, b)
      PROVE  Explained(d, b)
  <2> USE DEF ListsInv
  <2>1. ASSUME bound'[d][AttributeOf[b]] = bound[d][AttributeOf[b]],
               b \in DOMAIN row'[d] <=> b \in DOMAIN row[d],
               b \in DOMAIN row[d] => row'[d][b] = row[d][b],
               UNCHANGED <<registry, identity>>
        PROVE  FALSE
    BY <1>1, <2>1, SameSelection, AttachmentSame
  <2>2. ASSUME bound'[d][AttributeOf[b]] = bound[d][AttributeOf[b]],
               b \in DOMAIN row'[d] <=> b \in DOMAIN row[d],
               b \in DOMAIN row[d] => row'[d][b] = row[d][b],
               NEW l \in Lists, NEW id, HasRow(l, id), CreateIdentity(l, id), UNCHANGED items
        PROVE  FALSE
    <3>1. PICK made : made = IdentityOf(l, id)
      OBVIOUS
    <3>2. \A m \in Lists : \A i \in Made : AttachedTo(m, i)' <=> AttachedTo(m, i)
      BY <1>1, <2>2, <3>1, IdentityMade
    <3> QED
      BY <1>1, <2>2, <3>2, SameSelection
  <2>3. ASSUME NEW l \in Lists, NEW id \in Ids, Create(l, id) PROVE FALSE
    BY <2>2, <2>3 DEF Create
  <2>4. ASSUME NEW l \in Lists, NEW rows \in Contents, Replace(l, rows)
        PROVE  Explained(d, b)
    <3>1. CurrentRow(d, b)' = None
      BY <1>1, <2>4, ReplaceOnlyEnds
    <3> QED
      BY <2>4, <3>1 DEF Replace
  <2>5. ASSUME NEW e \in Documents, NEW a \in Attributes, NEW l \in Lists, Bind(e, a, l)
        PROVE  Explained(d, b)
    <3>1. CASE e = d /\ a = AttributeOf[b]
      BY <2>5, <3>1
    <3>2. CASE ~(e = d /\ a = AttributeOf[b])
      <4>1. bound'[d][AttributeOf[b]] = bound[d][AttributeOf[b]]
        BY <1>1, <2>5, <3>2, ListAssumption DEF Bind, ListsTypeOK
      <4>2. CASE e # d
        <5>1. row'[d] = row[d]
          BY <1>1, <2>5, <4>2 DEF Bind, ListsTypeOK
        <5> QED
          BY <1>1, <2>1, <2>2, <2>5, <4>1, <5>1, FirstIsARow DEF Bind
      <4>3. CASE e = d
        <5>1. b \notin BoxesOf(a)
          BY <3>2, <4>3 DEF BoxesOf
        <5>2. /\ b \in DOMAIN row'[d] <=> b \in DOMAIN row[d]
              /\ b \in DOMAIN row[d] => row'[d][b] = row[d][b]
          BY <1>1, <2>5, <4>3, <5>1 DEF Bind, With, Without, ListsTypeOK
        <5> QED
          BY <1>1, <2>1, <2>2, <2>5, <4>1, <5>2, FirstIsARow DEF Bind
      <4> QED
        BY <4>2, <4>3
    <3> QED
      BY <3>1, <3>2
  <2>6. ASSUME NEW e \in Documents, NEW c \in Boxes, NEW i \in held, SetRow(e, c, i)
        PROVE  Explained(d, b)
    <3>1. CASE e = d /\ c = b
      BY <2>6, <3>1
    <3>2. CASE ~(e = d /\ c = b)
      <4>1. /\ b \in DOMAIN row'[d] <=> b \in DOMAIN row[d]
            /\ b \in DOMAIN row[d] => row'[d][b] = row[d][b]
        BY <1>1, <2>6, <3>2 DEF SetRow, With, ListsTypeOK
      <4>2. bound[e][AttributeOf[c]] \in Lists
        BY <1>1, <2>6, ListAssumption DEF SetRow, ListsTypeOK
      <4> QED
        BY <2>2, <2>6, <4>1, <4>2 DEF SetRow
    <3> QED
      BY <3>1, <3>2
  <2>7. ASSUME NEW e \in Documents, NEW c \in Boxes, ResetRow(e, c) PROVE Explained(d, b)
    <3>1. CASE e = d /\ c = b
      BY <2>7, <3>1
    <3>2. CASE ~(e = d /\ c = b)
      BY <1>1, <2>1, <2>7, <3>2 DEF ResetRow, Without, ListsTypeOK
    <3> QED
      BY <3>1, <3>2
  <2>8. ASSUME NEW e \in Documents, NEW c \in Boxes, ReadRow(e, c) PROVE FALSE
    <3>1. CASE e = d /\ c = b
      <4>1. row'[d] = Without(row[d], {b})
        BY <1>1, <2>8, <3>1 DEF ReadRow, ListsTypeOK
      <4>2. CurrentRow(d, b)' = None
        BY <4>1 DEF CurrentRow, Without
      <4> QED
        BY <1>1, <2>8, <3>1, <4>2 DEF ReadRow
    <3>2. CASE ~(e = d /\ c = b)
      BY <1>1, <2>1, <2>8, <3>2 DEF ReadRow, Without, ListsTypeOK
    <3> QED
      BY <3>1, <3>2
  <2>9. ASSUME NEW e \in Documents, SetListsForm(e) \/ Copy(e) PROVE Explained(d, b)
    <3>1. CASE e = d
      BY <2>9, <3>1
    <3>2. CASE e # d
      BY <1>1, <2>1, <2>9, <3>2 DEF SetListsForm, Copy, ListsTypeOK
    <3> QED
      BY <3>1, <3>2
  <2>10. ASSUME NEW i \in held, Release(i) PROVE FALSE
    BY <2>1, <2>10 DEF Release
  <2>11. CASE UNCHANGED listsVars
    BY <2>1, <2>11 DEF listsVars
  <2> HIDE DEF Explained
  <2> QED
    BY <1>1, <2>3, <2>4, <2>5, <2>6, <2>7, <2>8, <2>9, <2>10, <2>11 DEF ListsNext
<1> DEFINE Local ==
      \A d \in Documents, b \in Boxes :
         LET now == CurrentRow(d, b)'
             binding == \E l \in Lists : Bind(d, AttributeOf[b], l)
             rows == items'[bound'[d][AttributeOf[b]]]
         IN /\ now # CurrentRow(d, b) =>
                 \/ now = None /\ bound' = bound /\ row' = row
                 \/ \E i \in held : SetRow(d, b, i)
                 \/ ResetRow(d, b) \/ binding \/ SetListsForm(d) \/ Copy(d)
            /\ binding => IF rows = <<>> THEN now = None
                          ELSE now # None /\ identity'[now].id = Head(rows).id
<1>2. ListsInv /\ [ListsNext]_listsVars => Local
  <2> SUFFICES ASSUME ListsInv, [ListsNext]_listsVars, NEW d \in Documents, NEW b \in Boxes
               PROVE  /\ CurrentRow(d, b)' # CurrentRow(d, b) => Explained(d, b)
                      /\ \A l \in Lists : Bind(d, AttributeOf[b], l) =>
                           LET now == CurrentRow(d, b)'
                               rows == items'[bound'[d][AttributeOf[b]]]
                           IN  IF rows = <<>> THEN now = None
                                 ELSE now # None /\ identity'[now].id = Head(rows).id
    OBVIOUS
  <2> QED
    BY <1>1, BindingSelectsFirst
<1> QED
  BY <1>2, ListsInvariant, PTL DEF ListsSpec, SelectionIsLocal

SpanRecord == [first : Dates, last : Dates]

\* A span is not empty, and its ends carry one time.
Whole(s) == s.first.day <= s.last.day /\ s.first.time = s.last.time

Disjoint(s, t) == s.last.day < t.first.day \/ t.last.day < s.first.day

SpanLists ==
    {spans \in Seq(SpanRecord) :
       /\ \A i \in DOMAIN spans : Whole(spans[i])
       /\ \A i, j \in DOMAIN spans : i # j => Disjoint(spans[i], spans[j])}

Chained(spans) == \A i \in 2..Len(spans) : spans[i].first.day = spans[i - 1].last.day + 1

DaysOf(spans) ==
    {d \in Days : \E i \in DOMAIN spans : spans[i].first.day <= d /\ d <= spans[i].last.day}

CalendarInv ==
    /\ mode \in Modes
    /\ calendar \in [set : BOOLEAN, current : SUBSET Dates, spans : SpanLists]
    /\ mode = "Interval" => Chained(Spans)
    /\ ~calendar.set => Spans = <<>>

-----------------------------------------------------------------------------
(* Lists of spans.                                                         *)

LEMMA DatesAre ==
    ASSUME NEW d \in Dates
    PROVE  d.day \in Days /\ d.time \in Times /\ d.day \in Int /\ d = Date(d.day, d.time)
BY DaysAssumption DEF Dates, Date

LEMMA IsADate ==
    ASSUME NEW x \in Days, NEW t \in Times
    PROVE  Date(x, t) \in Dates /\ Date(x, t).day = x /\ Date(x, t).time = t /\ x \in Int
BY DaysAssumption DEF Dates, Date

LEMMA SpansAre ==
    ASSUME NEW spans \in SpanLists
    PROVE  /\ spans \in Seq(SpanRecord) /\ DOMAIN spans = 1..Len(spans) /\ Len(spans) \in Nat
           /\ \A i \in DOMAIN spans :
                /\ spans[i] \in SpanRecord
                /\ spans[i].first \in Dates /\ spans[i].last \in Dates
                /\ spans[i].first.day \in Days /\ spans[i].last.day \in Days
                /\ spans[i].first.day \in Int /\ spans[i].last.day \in Int
                /\ spans[i].first.day <= spans[i].last.day
                /\ spans[i].first.time = spans[i].last.time
           /\ \A i, j \in DOMAIN spans : i # j => Disjoint(spans[i], spans[j])
<1>1. spans \in Seq(SpanRecord) /\ DOMAIN spans = 1..Len(spans) /\ Len(spans) \in Nat
  BY DEF SpanLists
<1>2. ASSUME NEW i \in DOMAIN spans
      PROVE  /\ spans[i] \in SpanRecord /\ Whole(spans[i])
             /\ spans[i].first \in Dates /\ spans[i].last \in Dates
  <2>1. spans[i] \in SpanRecord
    BY <1>1
  <2>2. Whole(spans[i])
    BY DEF SpanLists
  <2> QED
    BY <2>1, <2>2 DEF SpanRecord
<1> QED
  BY <1>1, <1>2, DatesAre DEF SpanLists, Whole

LEMMA Between ==
    ASSUME NEW a \in Days, NEW b \in Days, NEW x \in Int, a <= x, x <= b
    PROVE  x \in Days
BY DaysAssumption

LEMMA DaysBetween ==
    ASSUME NEW a \in Days, NEW b \in Days
    PROVE  {d \in Days : a <= d /\ d <= b} = a..b
<1>1. a \in Int /\ b \in Int /\ a..b \subseteq Days
  BY DaysAssumption
<1>2. ASSUME NEW d \in Days, a <= d, d <= b PROVE d \in a..b
  BY <1>1, <1>2, DaysAssumption
<1>3. ASSUME NEW d \in a..b PROVE d \in Days /\ a <= d /\ d <= b
  BY <1>1
<1> QED
  BY <1>2, <1>3

LEMMA NoSpan == <<>> \in SpanLists /\ Chained(<<>>) /\ DaysOf(<<>>) = {}
BY DEF SpanLists, Chained, DaysOf

LEMMA OneSpan ==
    ASSUME NEW a \in Dates, NEW b \in Dates, a.day <= b.day, a.time = b.time
    PROVE  /\ <<Span(a, b)>> \in SpanLists /\ Chained(<<Span(a, b)>>)
           /\ DaysOf(<<Span(a, b)>>) = a.day..b.day
<1>1. Span(a, b) \in SpanRecord /\ Whole(Span(a, b))
  BY DEF SpanRecord, Span, Whole
<1>2. <<Span(a, b)>> \in SpanLists /\ Chained(<<Span(a, b)>>)
  BY <1>1 DEF SpanLists, Chained
<1>3. DaysOf(<<Span(a, b)>>) = {d \in Days : a.day <= d /\ d <= b.day}
  BY DEF DaysOf, Span
<1> QED
  BY <1>2, <1>3, DatesAre, DaysBetween

\* A span that is apart from all others can be added at either end.
LEMMA Added ==
    ASSUME NEW spans \in SpanLists, NEW s \in SpanRecord, Whole(s),
           \A i \in DOMAIN spans : Disjoint(spans[i], s)
    PROVE  /\ Append(spans, s) \in SpanLists
           /\ DaysOf(Append(spans, s)) = DaysOf(spans) \cup (s.first.day..s.last.day)
           /\ <<s>> \o spans \in SpanLists
           /\ DaysOf(<<s>> \o spans) = DaysOf(spans) \cup (s.first.day..s.last.day)
<1>1. /\ s.first.day \in Days /\ s.last.day \in Days
      /\ s.first.day \in Int /\ s.last.day \in Int
  BY DatesAre DEF SpanRecord
<1>2. s.first.day..s.last.day = {d \in Days : s.first.day <= d /\ d <= s.last.day}
  BY <1>1, DaysBetween
<1>3. PICK after : after = Append(spans, s)
  OBVIOUS
<1>4. /\ after \in Seq(SpanRecord) /\ DOMAIN after = 1..(Len(spans) + 1)
      /\ after[Len(spans) + 1] = s /\ \A i \in DOMAIN spans : after[i] = spans[i]
  BY <1>3, SpansAre
<1>5. DOMAIN after = DOMAIN spans \cup {Len(spans) + 1} /\ Len(spans) + 1 \notin DOMAIN spans
  BY <1>4, SpansAre
<1>6. \A i, j \in DOMAIN after : i # j => Disjoint(after[i], after[j])
  BY <1>4, <1>5, SpansAre DEF Disjoint
<1>7. \A i \in DOMAIN after : Whole(after[i])
  BY <1>4, <1>5 DEF SpanLists
<1>8. after \in SpanLists
  BY <1>4, <1>6, <1>7 DEF SpanLists
<1>9. DaysOf(after) = DaysOf(spans) \cup (s.first.day..s.last.day)
  BY <1>2, <1>4, <1>5 DEF DaysOf
<1>10. PICK before : before = <<s>> \o spans
  OBVIOUS
<1>11. /\ before \in Seq(SpanRecord) /\ DOMAIN before = 1..(Len(spans) + 1)
       /\ before[1] = s /\ \A i \in DOMAIN spans : before[i + 1] = spans[i]
  BY <1>10, SpansAre
<1>12. \A i \in DOMAIN before : i = 1 \/ (i - 1 \in DOMAIN spans /\ before[i] = spans[i - 1])
  <2> SUFFICES ASSUME NEW i \in DOMAIN before, i # 1
               PROVE  i - 1 \in DOMAIN spans /\ before[i] = spans[i - 1]
    OBVIOUS
  <2>1. i - 1 \in DOMAIN spans /\ (i - 1) + 1 = i
    BY <1>11, SpansAre
  <2> QED
    BY <1>11, <2>1
<1>13. \A i, j \in DOMAIN before : i # j => Disjoint(before[i], before[j])
  <2> SUFFICES ASSUME NEW i \in DOMAIN before, NEW j \in DOMAIN before, i # j
               PROVE  Disjoint(before[i], before[j])
    OBVIOUS
  <2>1. CASE i = 1
    BY <1>11, <1>12, <2>1 DEF Disjoint
  <2>2. CASE j = 1
    BY <1>11, <1>12, <2>2 DEF Disjoint
  <2>3. CASE i # 1 /\ j # 1
    <3>1. i - 1 # j - 1
      BY <1>11, SpansAre
    <3> QED
      BY <1>12, <2>3, <3>1, SpansAre
  <2> QED
    BY <2>1, <2>2, <2>3
<1>14. \A i \in DOMAIN before : Whole(before[i])
  BY <1>11, <1>12 DEF SpanLists
<1>15. before \in SpanLists
  BY <1>11, <1>13, <1>14 DEF SpanLists
<1>16. DaysOf(before) = DaysOf(spans) \cup (s.first.day..s.last.day)
  <2>1. ASSUME NEW d \in DaysOf(before) PROVE d \in DaysOf(spans) \cup (s.first.day..s.last.day)
    BY <1>2, <1>11, <1>12, <2>1 DEF DaysOf
  <2>2. ASSUME NEW d \in DaysOf(spans) \cup (s.first.day..s.last.day) PROVE d \in DaysOf(before)
    <3>1. 1 \in DOMAIN before /\ \A i \in DOMAIN spans : i + 1 \in DOMAIN before
      BY <1>11, SpansAre
    <3> QED
      BY <1>2, <1>11, <2>2, <3>1 DEF DaysOf
  <2> QED
    BY <2>1, <2>2
<1> QED
  BY <1>3, <1>8, <1>9, <1>10, <1>15, <1>16

\* The spans of a chain come in order ...
LEMMA Ascending ==
    ASSUME NEW spans \in SpanLists, Chained(spans),
           NEW i \in DOMAIN spans, NEW j \in DOMAIN spans, i < j
    PROVE  spans[i].last.day < spans[j].first.day
<1> DEFINE S == {n \in Nat : i + 1 + n \in DOMAIN spans =>
                               spans[i].last.day < spans[i + 1 + n].first.day}
<1>a. i \in Int /\ 1 <= i /\ Len(spans) \in Nat /\ DOMAIN spans = 1..Len(spans)
  BY SpansAre
<1>1. 0 \in S
  <2> SUFFICES ASSUME i + 1 \in DOMAIN spans
               PROVE  spans[i].last.day < spans[i + 1].first.day
    BY <1>a
  <2>1. i + 1 \in 2..Len(spans) /\ (i + 1) - 1 = i
    BY <1>a
  <2>2. spans[i + 1].first.day = spans[(i + 1) - 1].last.day + 1
    BY <2>1 DEF Chained
  <2> QED
    BY <2>1, <2>2, SpansAre
<1>2. ASSUME NEW n \in Nat, n \in S PROVE n + 1 \in S
  <2> SUFFICES ASSUME i + 1 + (n + 1) \in DOMAIN spans
               PROVE  spans[i].last.day < spans[i + 1 + (n + 1)].first.day
    OBVIOUS
  <2>1. PICK k \in Int : k = i + 1 + (n + 1)
    BY <1>a
  <2>2. k \in 2..Len(spans) /\ k - 1 \in DOMAIN spans /\ k - 1 = i + 1 + n
    BY <1>a, <2>1
  <2>3. spans[k].first.day = spans[k - 1].last.day + 1
    BY <2>2 DEF Chained
  <2>4. spans[i].last.day < spans[k - 1].first.day
    BY <1>2, <2>2
  <2>5. /\ spans[i].last.day \in Int /\ spans[k - 1].first.day \in Int
        /\ spans[k - 1].last.day \in Int /\ spans[k - 1].first.day <= spans[k - 1].last.day
    BY <2>2, SpansAre
  <2>6. spans[i].last.day < spans[k].first.day
    BY <2>3, <2>4, <2>5
  <2> QED
    BY <2>1, <2>6
<1>3. j - i - 1 \in Nat /\ i + 1 + (j - i - 1) = j
  BY SpansAre
<1>4. j - i - 1 \in S
  <2> HIDE DEF S
  <2> QED
    BY <1>1, <1>2, <1>3, Induct
<1> QED
  BY <1>3, <1>4

\* ... and leave no day out.
LEMMA Gapless ==
    ASSUME NEW spans \in SpanLists, Chained(spans), spans # <<>>
    PROVE  /\ 1 \in DOMAIN spans /\ Len(spans) \in DOMAIN spans
           /\ DaysOf(spans) = spans[1].first.day..spans[Len(spans)].last.day
           /\ \A i \in DOMAIN spans : /\ spans[1].first.day <= spans[i].first.day
                                      /\ spans[i].last.day <= spans[Len(spans)].last.day
<1>1. 1 \in DOMAIN spans /\ Len(spans) \in DOMAIN spans
  BY SpansAre
<1>2. ASSUME NEW i \in DOMAIN spans
      PROVE  /\ spans[1].first.day <= spans[i].first.day
             /\ spans[i].last.day <= spans[Len(spans)].last.day
  <2>1. i = 1 \/ 1 < i
    BY SpansAre
  <2>2. i = Len(spans) \/ i < Len(spans)
    BY SpansAre
  <2>3. 1 < i => spans[1].last.day < spans[i].first.day
    BY <1>1, Ascending
  <2>4. i < Len(spans) => spans[i].last.day < spans[Len(spans)].first.day
    BY <1>1, Ascending
  <2> QED
    BY <1>1, <2>1, <2>2, <2>3, <2>4, SpansAre
<1>3. ASSUME NEW d \in DaysOf(spans)
      PROVE  d \in spans[1].first.day..spans[Len(spans)].last.day
  <2>1. PICK i \in DOMAIN spans : spans[i].first.day <= d /\ d <= spans[i].last.day
    BY DEF DaysOf
  <2>2. d \in Int
    BY DaysAssumption DEF DaysOf
  <2> QED
    BY <1>1, <1>2, <2>1, <2>2, SpansAre
<1>4. ASSUME NEW d \in spans[1].first.day..spans[Len(spans)].last.day
      PROVE  d \in DaysOf(spans)
  <2>1. d \in Int /\ spans[1].first.day <= d /\ d <= spans[Len(spans)].last.day
    BY <1>1, SpansAre
  <2>2. d \in Days
    BY <1>1, <2>1, SpansAre, Between
  <2> DEFINE T == {i \in DOMAIN spans : d <= spans[i].last.day}
  <2>3. T \subseteq Nat /\ T # {}
    BY <1>1, <2>1, SpansAre
  <2>4. PICK i \in T : \A j \in T : i <= j
    BY <2>3, Least
  <2>5. spans[i].first.day <= d
    <3>1. CASE i = 1
      BY <2>1, <3>1
    <3>2. CASE i # 1
      <4>1. i - 1 \in DOMAIN spans /\ i \in 2..Len(spans) /\ ~(i <= i - 1)
        BY <3>2, SpansAre
      <4>2. ~(d <= spans[i - 1].last.day)
        BY <2>4, <4>1
      <4>3. spans[i].first.day = spans[i - 1].last.day + 1
        BY <4>1 DEF Chained
      <4> QED
        BY <2>1, <4>1, <4>2, <4>3, SpansAre
    <3> QED
      BY <3>1, <3>2
  <2> QED
    BY <2>2, <2>5 DEF DaysOf
<1> QED
  BY <1>1, <1>2, <1>3, <1>4

LEMMA Chain ==
    ASSUME NEW spans \in SpanLists, Chained(spans), spans # <<>>,
           NEW s \in SpanRecord
    PROVE  /\ s.first.day = spans[Len(spans)].last.day + 1 => Chained(Append(spans, s))
           /\ spans[1].first.day = s.last.day + 1 => Chained(<<s>> \o spans)
<1>1. ASSUME s.first.day = spans[Len(spans)].last.day + 1 PROVE Chained(Append(spans, s))
  <2>1. PICK after : after = Append(spans, s)
    OBVIOUS
  <2>2. /\ Len(after) = Len(spans) + 1 /\ after[Len(spans) + 1] = s
        /\ \A i \in DOMAIN spans : after[i] = spans[i]
    BY <2>1, SpansAre
  <2>3. ASSUME NEW i \in 2..Len(after) PROVE after[i].first.day = after[i - 1].last.day + 1
    <3>1. i - 1 \in DOMAIN spans
      BY <2>2, SpansAre
    <3>1a. after[i - 1] = spans[i - 1]
      BY <2>2, <3>1
    <3>2. CASE i = Len(after)
      <4>1. i - 1 = Len(spans)
        BY <2>2, <3>2, SpansAre
      <4> QED
        BY <1>1, <2>2, <3>1a, <3>2, <4>1
    <3>3. CASE i # Len(after)
      <4>1. i \in 2..Len(spans) /\ i \in DOMAIN spans
        BY <2>2, <3>3, SpansAre
      <4> QED
        BY <2>2, <3>1a, <4>1 DEF Chained
    <3> QED
      BY <3>2, <3>3
  <2> QED
    BY <2>1, <2>3 DEF Chained
<1>2. ASSUME spans[1].first.day = s.last.day + 1 PROVE Chained(<<s>> \o spans)
  <2>1. PICK before : before = <<s>> \o spans
    OBVIOUS
  <2>2. /\ Len(before) = Len(spans) + 1 /\ before[1] = s
        /\ \A i \in DOMAIN spans : before[i + 1] = spans[i]
    BY <2>1, SpansAre
  <2>3. ASSUME NEW i \in 2..Len(before)
        PROVE  before[i].first.day = before[i - 1].last.day + 1
    <3>1. i - 1 \in DOMAIN spans /\ (i - 1) + 1 = i
      BY <2>2, SpansAre
    <3>2. before[i] = spans[i - 1]
      BY <2>2, <3>1
    <3>3. CASE i = 2
      BY <1>2, <2>2, <3>2, <3>3
    <3>4. CASE i # 2
      <4>1. i - 2 \in DOMAIN spans /\ (i - 2) + 1 = i - 1 /\ (i - 1) - 1 = i - 2
            /\ i - 1 \in 2..Len(spans)
        BY <2>2, <3>4, SpansAre
      <4>2. before[i - 1] = spans[i - 2]
        BY <2>2, <4>1
      <4> QED
        BY <3>2, <4>1, <4>2 DEF Chained
    <3> QED
      BY <3>3, <3>4
  <2> QED
    BY <2>1, <2>3 DEF Chained
<1> QED
  BY <1>1, <1>2

\* The first n spans.
LEMMA Prefix ==
    ASSUME NEW spans \in SpanLists, NEW n \in 0..Len(spans), NEW front,
           front = SubSeq(spans, 1, n)
    PROVE  /\ front \in SpanLists /\ Len(front) = n
           /\ \A i \in DOMAIN front : i \in DOMAIN spans /\ i <= n /\ front[i] = spans[i]
           /\ Chained(spans) => Chained(front)
<1>1. front \in Seq(SpanRecord) /\ Len(front) = n /\ DOMAIN front = 1..n
      /\ \A i \in DOMAIN front : front[i] = spans[i]
  BY SpansAre
<1>2. \A i \in DOMAIN front : i \in DOMAIN spans /\ i <= n
  BY <1>1, SpansAre
<1>3. front \in SpanLists
  BY <1>1, <1>2 DEF SpanLists
<1>4. ASSUME Chained(spans) PROVE Chained(front)
  <2>1. \A i \in 2..Len(front) : i \in DOMAIN front /\ i - 1 \in DOMAIN front
                                   /\ i \in 2..Len(spans)
    BY <1>1, SpansAre
  <2> QED
    BY <1>1, <1>4, <2>1 DEF Chained
<1> QED
  BY <1>1, <1>2, <1>3, <1>4

\* Pieces of spans that are apart from each other are a list of spans again.
LEMMA Pieces ==
    ASSUME NEW spans \in SpanLists, NEW after \in Seq(SpanRecord),
           NEW origin \in [DOMAIN after -> DOMAIN spans],
           \A j \in DOMAIN after :
             /\ Whole(after[j])
             /\ spans[origin[j]].first.day <= after[j].first.day
             /\ after[j].last.day <= spans[origin[j]].last.day,
           \A j, k \in DOMAIN after :
             j # k /\ origin[j] = origin[k] => Disjoint(after[j], after[k])
    PROVE  after \in SpanLists
<1>1. ASSUME NEW j \in DOMAIN after
      PROVE  after[j].first.day \in Int /\ after[j].last.day \in Int
    <2>1. after[j] \in SpanRecord
      OBVIOUS
    <2> QED
      BY <2>1, DatesAre DEF SpanRecord
<1>2. ASSUME NEW j \in DOMAIN after, NEW k \in DOMAIN after, j # k, origin[j] # origin[k]
      PROVE  Disjoint(after[j], after[k])
  <2>1. Disjoint(spans[origin[j]], spans[origin[k]])
    BY <1>2, SpansAre
  <2>2. origin[j] \in DOMAIN spans /\ origin[k] \in DOMAIN spans
    OBVIOUS
  <2>3. /\ spans[origin[j]].first.day \in Int /\ spans[origin[j]].last.day \in Int
        /\ spans[origin[k]].first.day \in Int /\ spans[origin[k]].last.day \in Int
    BY <2>2, SpansAre
  <2>4. /\ spans[origin[j]].first.day <= after[j].first.day
        /\ after[j].last.day <= spans[origin[j]].last.day
        /\ spans[origin[k]].first.day <= after[k].first.day
        /\ after[k].last.day <= spans[origin[k]].last.day
    OBVIOUS
  <2> QED
    BY <1>1, <2>1, <2>3, <2>4 DEF Disjoint
<1> QED
  BY <1>2 DEF SpanLists

\* The first and the last date of a list.
LEMMA FirstOfAll ==
    ASSUME NEW spans \in SpanLists, spans # <<>>
    PROVE  \E i \in DOMAIN spans :
             /\ FirstDate(spans) = spans[i].first
             /\ \A j \in DOMAIN spans : spans[i].first.day <= spans[j].first.day
<1> DEFINE Leads(i, j) == \/ spans[i].first.day < spans[j].first.day
                          \/ spans[i].first.day = spans[j].first.day /\ i <= j
           S == {n \in Nat : n + 1 \in DOMAIN spans =>
                   \E i \in 1..(n + 1) : \A j \in 1..(n + 1) : Leads(i, j)}
<1>1. Len(spans) \in Nat /\ DOMAIN spans = 1..Len(spans) /\ Len(spans) # 0
  BY SpansAre
<1>2. \A i \in DOMAIN spans : spans[i].first.day \in Int
  BY SpansAre
<1>3. 0 \in S
  OBVIOUS
<1>4. ASSUME NEW n \in Nat, n \in S PROVE n + 1 \in S
  <2> SUFFICES ASSUME n + 2 \in DOMAIN spans
               PROVE  \E i \in 1..(n + 2) : \A j \in 1..(n + 2) : Leads(i, j)
    OBVIOUS
  <2>1. PICK i \in 1..(n + 1) : \A j \in 1..(n + 1) : Leads(i, j)
    BY <1>1, <1>4
  <2>2. 1..(n + 2) = 1..(n + 1) \cup {n + 2} /\ \A j \in 1..(n + 2) : j \in DOMAIN spans
    BY <1>1
  <2>3. CASE Leads(i, n + 2)
    BY <2>1, <2>2, <2>3
  <2>4. CASE ~Leads(i, n + 2)
    <3>1. \A j \in 1..(n + 2) : Leads(n + 2, j)
      BY <1>2, <2>1, <2>2, <2>4
    <3> QED
      BY <2>2, <3>1
  <2> QED
    BY <2>3, <2>4
<1>5. Len(spans) - 1 \in Nat /\ (Len(spans) - 1) + 1 = Len(spans)
  BY <1>1
<1>6. Len(spans) - 1 \in S
  <2> HIDE DEF S
  <2> QED
    BY <1>3, <1>4, <1>5, Induct
<1>7. \E i \in DOMAIN spans : \A j \in DOMAIN spans : Leads(i, j)
  <2> HIDE DEF Leads
  <2>1. PICK n \in Nat : n \in S /\ n + 1 = Len(spans)
    BY <1>5, <1>6
  <2>2. n + 1 \in DOMAIN spans
    BY <1>1, <2>1
  <2>3. \E i \in 1..(n + 1) : \A j \in 1..(n + 1) : Leads(i, j)
    BY <2>1, <2>2
  <2> QED
    BY <1>1, <2>1, <2>3
<1>8. PICK i : i = CHOOSE k \in DOMAIN spans : \A j \in DOMAIN spans : Leads(k, j)
  OBVIOUS
<1>9. i \in DOMAIN spans /\ \A j \in DOMAIN spans : Leads(i, j)
  BY <1>7, <1>8
<1>10. FirstDate(spans) = spans[i].first
  BY <1>8 DEF FirstDate
<1>11. \A j \in DOMAIN spans : spans[i].first.day <= spans[j].first.day
  BY <1>2, <1>9
<1> QED
  BY <1>9, <1>10, <1>11

LEMMA LastOfAll ==
    ASSUME NEW spans \in SpanLists, spans # <<>>
    PROVE  \E i \in DOMAIN spans :
             /\ LastDate(spans) = spans[i].last
             /\ \A j \in DOMAIN spans : spans[j].last.day <= spans[i].last.day
<1> DEFINE Trails(i, j) == \/ spans[i].last.day > spans[j].last.day
                           \/ spans[i].last.day = spans[j].last.day /\ i <= j
           S == {n \in Nat : n + 1 \in DOMAIN spans =>
                   \E i \in 1..(n + 1) : \A j \in 1..(n + 1) : Trails(i, j)}
<1>1. Len(spans) \in Nat /\ DOMAIN spans = 1..Len(spans) /\ Len(spans) # 0
  BY SpansAre
<1>2. \A i \in DOMAIN spans : spans[i].last.day \in Int
  BY SpansAre
<1>3. 0 \in S
  OBVIOUS
<1>4. ASSUME NEW n \in Nat, n \in S PROVE n + 1 \in S
  <2> SUFFICES ASSUME n + 2 \in DOMAIN spans
               PROVE  \E i \in 1..(n + 2) : \A j \in 1..(n + 2) : Trails(i, j)
    OBVIOUS
  <2>1. PICK i \in 1..(n + 1) : \A j \in 1..(n + 1) : Trails(i, j)
    BY <1>1, <1>4
  <2>2. 1..(n + 2) = 1..(n + 1) \cup {n + 2} /\ \A j \in 1..(n + 2) : j \in DOMAIN spans
    BY <1>1
  <2>3. CASE Trails(i, n + 2)
    BY <2>1, <2>2, <2>3
  <2>4. CASE ~Trails(i, n + 2)
    <3>1. \A j \in 1..(n + 2) : Trails(n + 2, j)
      BY <1>2, <2>1, <2>2, <2>4
    <3> QED
      BY <2>2, <3>1
  <2> QED
    BY <2>3, <2>4
<1>5. Len(spans) - 1 \in Nat /\ (Len(spans) - 1) + 1 = Len(spans)
  BY <1>1
<1>6. Len(spans) - 1 \in S
  <2> HIDE DEF S
  <2> QED
    BY <1>3, <1>4, <1>5, Induct
<1>7. \E i \in DOMAIN spans : \A j \in DOMAIN spans : Trails(i, j)
  <2> HIDE DEF Trails
  <2>1. PICK n \in Nat : n \in S /\ n + 1 = Len(spans)
    BY <1>5, <1>6
  <2>2. n + 1 \in DOMAIN spans
    BY <1>1, <2>1
  <2>3. \E i \in 1..(n + 1) : \A j \in 1..(n + 1) : Trails(i, j)
    BY <2>1, <2>2
  <2> QED
    BY <1>1, <2>1, <2>3
<1>8. PICK i : i = CHOOSE k \in DOMAIN spans : \A j \in DOMAIN spans : Trails(k, j)
  OBVIOUS
<1>9. i \in DOMAIN spans /\ \A j \in DOMAIN spans : Trails(i, j)
  BY <1>7, <1>8
<1>10. LastDate(spans) = spans[i].last
  BY <1>8 DEF LastDate
<1>11. \A j \in DOMAIN spans : spans[j].last.day <= spans[i].last.day
  BY <1>2, <1>9
<1> QED
  BY <1>9, <1>10, <1>11

-----------------------------------------------------------------------------
(* The spans of the calendar and the days they stand for.                  *)

LEMMA Selection ==
    /\ SelectedDays = DaysOf(Spans)
    /\ \A d \in Dates : IsSelected(d) <=> d.day \in SelectedDays
<1>1. \A x : Date(x, Midnight).day = x
  BY DEF Date
<1>2. SelectedDays = DaysOf(Spans)
  BY <1>1 DEF SelectedDays, DaysOf, IsSelected, Covers
<1> QED
  BY <1>2, DatesAre DEF DaysOf, IsSelected, Covers

LEMMA SpansKept ==
    ASSUME CalendarInv
    PROVE  /\ mode \in Modes /\ calendar.set \in BOOLEAN /\ Spans \in SpanLists
           /\ mode = "Interval" => Chained(Spans)
BY DEF CalendarInv, Spans

LEMMA SpansSet ==
    ASSUME CalendarInv, NEW after \in SpanLists,
           calendar' = [calendar EXCEPT !.spans = after], mode' \in Modes,
           mode' = "Interval" => Chained(after), ~calendar.set => after = <<>>
    PROVE  CalendarInv' /\ SelectedDays' = DaysOf(after)
<1>1. Spans' = after /\ calendar'.set = calendar.set
  BY DEF CalendarInv, Spans
<1>2. CalendarInv'
  BY <1>1 DEF CalendarInv
<1>3. (SelectedDays = DaysOf(Spans))'
  BY Selection, PTL
<1> QED
  BY <1>1, <1>2, <1>3 DEF DaysOf

LEMMA HullIs ==
    ASSUME NEW S, NEW a \in S, NEW b \in S, a \in Days, b \in Days,
           \A x \in S : x \in Int /\ a <= x /\ x <= b
    PROVE  Abstract!Hull(S) = a..b
<1>1. a..b = {d \in Days : a <= d /\ d <= b}
  BY DaysBetween
<1>2. \A d \in Days : d \in Int
  BY DaysAssumption
<1> QED
  BY <1>1, <1>2 DEF Abstract!Hull

-----------------------------------------------------------------------------
(* Every operation keeps the spans in order and does to the days what the  *)
(* set of days promises.                                                   *)

LEMMA ModeStep ==
    ASSUME CalendarInv, NEW m \in Modes, SetMode(m)
    PROVE  CalendarInv' /\ Abstract!Change(m)
<1>1. mode' = m /\ Spans \in SpanLists /\ SelectedDays = DaysOf(Spans) /\ calendar.set \in BOOLEAN
  BY SpansKept, Selection DEF SetMode
<1>2. CASE ~calendar.set
  <2>1. Spans = <<>> /\ calendar' = calendar
    BY <1>2 DEF CalendarInv, SetMode
  <2>2. calendar' = [calendar EXCEPT !.spans = <<>>]
    BY <2>1 DEF CalendarInv, Spans
  <2>3. CalendarInv' /\ SelectedDays' = {}
    BY <1>1, <2>2, NoSpan, SpansSet
  <2>4. SelectedDays = {}
    BY <1>1, <2>1, NoSpan
  <2> QED
    BY <1>1, <2>3, <2>4 DEF Abstract!Change, Abstract!Hull, Modes
<1>3. CASE calendar.set
  <2>1. calendar' = [calendar EXCEPT !.spans = Converted(Spans, m)]
    BY <1>3 DEF SetMode
  <2>2. CASE Spans = <<>> \/ mode = m \/ m = "Multiple"
    <3>1. Converted(Spans, m) = Spans
      BY <2>2 DEF Converted
    <3>2. m = "Interval" => Chained(Spans)
      BY <2>2, SpansKept, NoSpan
    <3>3. CalendarInv' /\ SelectedDays' = SelectedDays
      BY <1>1, <1>3, <2>1, <3>1, <3>2, SpansSet
    <3>4. Spans = <<>> => SelectedDays = {}
      BY <1>1, NoSpan
    <3> QED
      BY <1>1, <2>2, <3>3, <3>4 DEF Abstract!Change, Abstract!Hull, Modes
  <2>3. CASE ~(Spans = <<>> \/ mode = m \/ m = "Multiple") /\ m = "Single"
    <3>1. PICK n : n = Len(Spans)
      OBVIOUS
    <3>2. n \in DOMAIN Spans
      BY <1>1, <2>3, <3>1, SpansAre
    <3>3. Converted(Spans, m) = <<Span(Spans[n].last, Spans[n].last)>>
      BY <2>3, <3>1 DEF Converted
    <3>4. /\ Spans[n].last \in Dates /\ Spans[n].last.day \in DaysOf(Spans)
          /\ Spans[n].last.day \in Int
      BY <1>1, <3>2, SpansAre DEF DaysOf
    <3>5. /\ <<Span(Spans[n].last, Spans[n].last)>> \in SpanLists
          /\ DaysOf(<<Span(Spans[n].last, Spans[n].last)>>) = Spans[n].last.day..Spans[n].last.day
      BY <3>4, OneSpan
    <3>6. CalendarInv' /\ SelectedDays' = Spans[n].last.day..Spans[n].last.day
      BY <1>1, <1>3, <2>1, <2>3, <3>3, <3>5, SpansSet
    <3>7. SelectedDays' = {Spans[n].last.day}
      BY <3>4, <3>6
    <3> QED
      BY <1>1, <2>3, <3>4, <3>6, <3>7 DEF Abstract!Change
  <2>4. CASE ~(Spans = <<>> \/ mode = m \/ m = "Multiple") /\ m # "Single"
    <3>0. m = "Interval"
      BY <2>4 DEF Modes
    <3>1. PICK i \in DOMAIN Spans :
            /\ FirstDate(Spans) = Spans[i].first
            /\ \A j \in DOMAIN Spans : Spans[i].first.day <= Spans[j].first.day
      BY <1>1, <2>4, FirstOfAll
    <3>2. PICK k \in DOMAIN Spans :
            /\ LastDate(Spans) = Spans[k].last
            /\ \A j \in DOMAIN Spans : Spans[j].last.day <= Spans[k].last.day
      BY <1>1, <2>4, LastOfAll
    <3>3. PICK a \in Dates : a = Spans[i].first
      BY <1>1, SpansAre
    <3>4. PICK b \in Dates : b = Date(Spans[k].last.day, a.time)
      BY <1>1, <3>3, SpansAre, DatesAre, IsADate
    <3>5. b.day = Spans[k].last.day /\ b.time = a.time
      BY <3>4 DEF Date
    <3>6. a.day <= b.day
      BY <1>1, <3>1, <3>2, <3>3, <3>5, SpansAre
    <3>7. Converted(Spans, m) = <<Span(a, b)>>
      BY <2>4, <3>1, <3>2, <3>3, <3>4 DEF Converted
    <3>8. CalendarInv' /\ SelectedDays' = a.day..b.day
      BY <1>1, <1>3, <2>1, <3>5, <3>6, <3>7, OneSpan, SpansSet
    <3>9. a.day \in SelectedDays /\ b.day \in SelectedDays
      BY <1>1, <3>3, <3>5, SpansAre DEF DaysOf
    <3>10. \A x \in SelectedDays : x \in Int /\ a.day <= x /\ x <= b.day
      <4> SUFFICES ASSUME NEW x \in SelectedDays PROVE x \in Int /\ a.day <= x /\ x <= b.day
        OBVIOUS
      <4>1. PICK j \in DOMAIN Spans : Spans[j].first.day <= x /\ x <= Spans[j].last.day
        BY <1>1 DEF DaysOf
      <4>2. x \in Int
        BY DaysAssumption DEF SelectedDays
      <4> QED
        BY <1>1, <3>1, <3>2, <3>3, <3>5, <4>1, <4>2, SpansAre
    <3>11. Abstract!Hull(SelectedDays) = a.day..b.day
      BY <3>9, <3>10, DatesAre, HullIs
    <3> QED
      BY <1>1, <2>4, <3>0, <3>8, <3>11 DEF Abstract!Change
  <2> QED
    BY <2>2, <2>3, <2>4
<1> QED
  BY <1>2, <1>3

LEMMA FreshStep ==
    ASSUME CalendarInv, NEW c \in Dates, NEW d \in Dates,
           calendar' = Fresh(c, d), mode' \in Modes
    PROVE  CalendarInv' /\ Abstract!Restart
<1>1. <<Span(d, d)>> \in SpanLists /\ Chained(<<Span(d, d)>>)
      /\ DaysOf(<<Span(d, d)>>) = d.day..d.day
  BY OneSpan, DatesAre
<1>2. Spans' = <<Span(d, d)>> /\ CalendarInv'
  BY <1>1 DEF CalendarInv, Spans, Fresh
<1>3. (SelectedDays = DaysOf(Spans))'
  BY Selection, PTL
<1>4. SelectedDays' = {d.day} /\ d.day \in Days
  BY <1>1, <1>2, <1>3, DatesAre DEF DaysOf
<1> QED
  BY <1>2, <1>4 DEF Abstract!Restart, Abstract!Modes, Modes

LEMMA FormStep ==
    ASSUME SetCalendarForm
    PROVE  CalendarInv' /\ Abstract!Restart
<1>1. Spans' = <<>> /\ CalendarInv'
  BY NoSpan DEF SetCalendarForm, CalendarInv, Spans, NoState
<1>2. (SelectedDays = DaysOf(Spans))'
  BY Selection, PTL
<1>3. SelectedDays' = {}
  BY <1>1, <1>2, NoSpan DEF DaysOf
<1> QED
  BY <1>1, <1>3 DEF SetCalendarForm, Abstract!Restart, Abstract!Modes, Modes

LEMMA ResetDateStep ==
    ASSUME CalendarInv, ResetCurrentDate \/ UNCHANGED calendarVars
    PROVE  CalendarInv' /\ UNCHANGED <<mode, SelectedDays>>
<1>1. mode' = mode /\ Spans' = Spans /\ CalendarInv'
  BY DEF ResetCurrentDate, calendarVars, CalendarInv, Spans
<1> QED
  BY <1>1 DEF SelectedDays, IsSelected

LEMMA ClearStep ==
    ASSUME CalendarInv, Clear
    PROVE  CalendarInv' /\ Abstract!Restart
<1>1. CalendarInv' /\ SelectedDays' = {}
  BY NoSpan, SpansSet DEF Clear, SetSpans, CalendarInv
<1> QED
  BY <1>1 DEF Clear, SetSpans, CalendarInv, Abstract!Restart, Abstract!Modes, Modes

\* Adding a date fills an interval up to its day.
LEMMA ExtendedIs ==
    ASSUME NEW spans \in SpanLists, Chained(spans), spans # <<>>,
           NEW d \in Dates, d.day \notin DaysOf(spans)
    PROVE  /\ Extended(spans, d) \in SpanLists /\ Chained(Extended(spans, d))
           /\ DaysOf(Extended(spans, d)) = Abstract!Hull(DaysOf(spans) \cup {d.day})
<1>1. PICK n : n = Len(spans)
  OBVIOUS
<1>2. /\ 1 \in DOMAIN spans /\ n \in DOMAIN spans
      /\ DaysOf(spans) = spans[1].first.day..spans[n].last.day
      /\ \A i \in DOMAIN spans : /\ spans[1].first.day <= spans[i].first.day
                                 /\ spans[i].last.day <= spans[n].last.day
  BY <1>1, Gapless
<1>3. PICK a \in Days : a = spans[1].first.day
  BY <1>2, SpansAre
<1>4. PICK b \in Days : b = spans[n].last.day
  BY <1>2, SpansAre
<1>5. PICK x \in Days : x = d.day
  BY DatesAre
<1>6. a \in Int /\ b \in Int /\ x \in Int /\ a <= b /\ d.time \in Times
  BY <1>2, <1>3, <1>4, <1>5, DatesAre, SpansAre
<1>7. x < a \/ b < x
  BY <1>2, <1>3, <1>4, <1>5, <1>6
<1>8. CASE x < a
  <2>1. PICK e \in Dates : e = Date(a - 1, d.time)
    BY <1>6, <1>8, IsADate, Between
  <2>2. e.day = a - 1 /\ e.time = d.time
    BY <2>1 DEF Date
  <2>3. PICK s \in SpanRecord : s = Span(d, e)
    BY DEF SpanRecord, Span
  <2>4. s.first = d /\ s.last = e /\ s.first.day = x /\ s.last.day = a - 1 /\ Whole(s)
    BY <1>5, <1>6, <1>8, <2>2, <2>3 DEF Span, Whole
  <2>5. \A i \in DOMAIN spans : Disjoint(spans[i], s)
    BY <1>2, <1>3, <1>6, <2>4, SpansAre DEF Disjoint
  <2>6. Extended(spans, d) = <<s>> \o spans
    BY <1>3, <1>5, <1>8, <2>1, <2>3 DEF Extended
  <2>7. <<s>> \o spans \in SpanLists /\ DaysOf(<<s>> \o spans) = (a..b) \cup (x..(a - 1))
    BY <1>2, <1>3, <1>4, <2>4, <2>5, Added
  <2>8. Chained(<<s>> \o spans)
    BY <1>3, <1>6, <2>4, Chain
  <2>9. Abstract!Hull((a..b) \cup {x}) = x..b
    <3>1. PICK S : S = (a..b) \cup {x}
      OBVIOUS
    <3>2. /\ x \in S /\ b \in S
          /\ \A y \in S : y \in Int /\ x <= y /\ y <= b
      BY <1>6, <1>8, <3>1
    <3> QED
      BY <3>1, <3>2, HullIs
  <2>10. (a..b) \cup (x..(a - 1)) = x..b
    BY <1>6, <1>8
  <2> QED
    BY <1>2, <1>3, <1>4, <1>5, <2>6, <2>7, <2>8, <2>9, <2>10
<1>9. CASE b < x
  <2>1. PICK e \in Dates : e = Date(b + 1, d.time)
    BY <1>6, <1>9, IsADate, Between
  <2>2. e.day = b + 1 /\ e.time = d.time
    BY <2>1 DEF Date
  <2>3. PICK s \in SpanRecord : s = Span(e, d)
    BY DEF SpanRecord, Span
  <2>4. s.first = e /\ s.last = d /\ s.first.day = b + 1 /\ s.last.day = x /\ Whole(s)
    BY <1>5, <1>6, <1>9, <2>2, <2>3 DEF Span, Whole
  <2>5. \A i \in DOMAIN spans : Disjoint(spans[i], s)
    BY <1>2, <1>4, <1>6, <2>4, SpansAre DEF Disjoint
  <2>6. Extended(spans, d) = Append(spans, s)
    BY <1>1, <1>3, <1>4, <1>5, <1>6, <1>9, <2>1, <2>3 DEF Extended
  <2>7. Append(spans, s) \in SpanLists /\ DaysOf(Append(spans, s)) = (a..b) \cup ((b + 1)..x)
    BY <1>2, <1>3, <1>4, <2>4, <2>5, Added
  <2>8. Chained(Append(spans, s))
    BY <1>1, <1>4, <2>4, Chain
  <2>9. Abstract!Hull((a..b) \cup {x}) = a..x
    <3>1. PICK S : S = (a..b) \cup {x}
      OBVIOUS
    <3>2. /\ a \in S /\ x \in S
          /\ \A y \in S : y \in Int /\ a <= y /\ y <= x
      BY <1>6, <1>9, <3>1
    <3> QED
      BY <3>1, <3>2, HullIs
  <2>10. (a..b) \cup ((b + 1)..x) = a..x
    BY <1>6, <1>9
  <2> QED
    BY <1>2, <1>3, <1>4, <1>5, <2>6, <2>7, <2>8, <2>9, <2>10
<1> QED
  BY <1>7, <1>8, <1>9

LEMMA AddStep ==
    ASSUME CalendarInv, NEW d \in Dates, Add(d)
    PROVE  CalendarInv' /\ Abstract!Add(d.day)
<1>1. /\ mode' = mode /\ mode \in Modes /\ calendar.set
      /\ Spans \in SpanLists /\ (mode = "Interval" => Chained(Spans))
      /\ SelectedDays = DaysOf(Spans) /\ (IsSelected(d) <=> d.day \in SelectedDays)
  BY SpansKept, Selection DEF Add, SetSpans
<1>2. d.day \in Days /\ d.day \in Int
  BY DatesAre
<1>3. /\ <<Span(d, d)>> \in SpanLists /\ Chained(<<Span(d, d)>>)
      /\ DaysOf(<<Span(d, d)>>) = {d.day}
  BY <1>2, OneSpan
<1>5. CASE mode = "Single"
  <2>1. CalendarInv' /\ SelectedDays' = {d.day}
    BY <1>1, <1>3, <1>5, SpansSet DEF Add, SetSpans
  <2> QED
    BY <1>1, <1>5, <2>1 DEF Abstract!Add
<1>6. CASE mode # "Single" /\ d.day \in SelectedDays
  <2>1. calendar' = [calendar EXCEPT !.spans = Spans]
    BY <1>1, <1>6 DEF Add, SetSpans
  <2>2. CalendarInv' /\ SelectedDays' = SelectedDays
    BY <1>1, <2>1, SpansSet
  <2>3. SelectedDays \cup {d.day} = SelectedDays
    BY <1>6
  <2>4. ASSUME mode = "Interval" PROVE Abstract!Hull(SelectedDays) = SelectedDays
    <3>1. Spans # <<>>
      BY <1>1, <1>6, NoSpan
    <3>2. PICK n : n = Len(Spans)
      OBVIOUS
    <3>3. /\ 1 \in DOMAIN Spans /\ n \in DOMAIN Spans
          /\ SelectedDays = Spans[1].first.day..Spans[n].last.day
          /\ Spans[1].first.day <= Spans[n].first.day
      BY <1>1, <2>4, <3>1, <3>2, Gapless
    <3>4. PICK a \in Days : a = Spans[1].first.day
      BY <1>1, <3>3, SpansAre
    <3>5. PICK b \in Days : b = Spans[n].last.day
      BY <1>1, <3>3, SpansAre
    <3>6. a \in Int /\ b \in Int /\ a <= b /\ SelectedDays = a..b
      BY <1>1, <3>3, <3>4, <3>5, SpansAre
    <3>7. a \in SelectedDays /\ b \in SelectedDays
          /\ \A x \in SelectedDays : x \in Int /\ a <= x /\ x <= b
      BY <3>6
    <3> QED
      BY <3>6, <3>7, HullIs
  <2> QED
    BY <1>1, <1>6, <2>2, <2>3, <2>4 DEF Abstract!Add, Modes
<1>7. CASE mode # "Single" /\ d.day \notin SelectedDays /\ (mode = "Multiple" \/ Spans = <<>>)
  <2>1. calendar' = [calendar EXCEPT !.spans = Append(Spans, Span(d, d))]
    BY <1>1, <1>7 DEF Add, SetSpans
  <2>2. PICK s \in SpanRecord : s = Span(d, d)
    BY DEF SpanRecord, Span
  <2>3. s.first = d /\ s.last = d /\ Whole(s)
    BY <1>2, <2>2 DEF Span, Whole
  <2>4. \A i \in DOMAIN Spans : Disjoint(Spans[i], s)
    BY <1>1, <1>2, <1>7, <2>3, SpansAre DEF Disjoint, DaysOf
  <2>5. Append(Spans, s) \in SpanLists /\ DaysOf(Append(Spans, s)) = SelectedDays \cup {d.day}
    <3>1. /\ Append(Spans, s) \in SpanLists
          /\ DaysOf(Append(Spans, s)) = DaysOf(Spans) \cup (s.first.day..s.last.day)
      BY <1>1, <2>3, <2>4, Added
    <3>2. s.first.day..s.last.day = {d.day}
      BY <1>2, <2>3
    <3> QED
      BY <1>1, <3>1, <3>2
  <2>6. Spans = <<>> => Append(Spans, s) = <<Span(d, d)>>
    BY <2>2
  <2>7. CalendarInv' /\ SelectedDays' = SelectedDays \cup {d.day}
    BY <1>1, <1>3, <1>7, <2>1, <2>2, <2>5, <2>6, SpansSet
  <2>8. ASSUME mode # "Multiple" PROVE Abstract!Hull(SelectedDays \cup {d.day}) = {d.day}
    <3>1. SelectedDays \cup {d.day} = {d.day}
      BY <1>1, <1>7, <2>8, NoSpan
    <3>2. PICK x \in Days : x = d.day
      BY <1>2
    <3>3. x \in {x} /\ \A y \in {x} : y \in Int /\ x <= y /\ y <= x
      BY <1>2, <3>2
    <3>4. Abstract!Hull({x}) = x..x
      BY <3>3, HullIs
    <3> QED
      BY <1>2, <3>1, <3>2, <3>4
  <2>9. mode # "Multiple" => SelectedDays = {}
    BY <1>1, <1>7, NoSpan
  <2> QED
    BY <1>1, <1>7, <2>7, <2>8, <2>9 DEF Abstract!Add
<1>8. CASE mode = "Interval" /\ d.day \notin SelectedDays /\ Spans # <<>>
  <2>1. calendar' = [calendar EXCEPT !.spans = Extended(Spans, d)]
    BY <1>1, <1>8 DEF Add, SetSpans
  <2>2. CalendarInv' /\ SelectedDays' = Abstract!Hull(SelectedDays \cup {d.day})
    BY <1>1, <1>8, <2>1, ExtendedIs, SpansSet
  <2> QED
    BY <1>1, <1>8, <2>2 DEF Abstract!Add
<1> QED
  BY <1>1, <1>5, <1>6, <1>7, <1>8 DEF Modes

-----------------------------------------------------------------------------
\* A deleted day is looked up in the first span that has it.
LEMMA FoundIs ==
    ASSUME CalendarInv, NEW d \in Dates, IsSelected(d)
    PROVE  /\ Found(d) \in DOMAIN Spans
           /\ Spans[Found(d)].first.day <= d.day /\ d.day <= Spans[Found(d)].last.day
           /\ \A j \in DOMAIN Spans : j # Found(d) =>
                ~(Spans[j].first.day <= d.day /\ d.day <= Spans[j].last.day)
<1>1. Spans \in SpanLists /\ d.day \in Int
  BY SpansKept, DatesAre
<1> DEFINE T == {i \in DOMAIN Spans : Covers(Spans[i], d)}
<1>2. T \subseteq Nat /\ T # {}
  BY <1>1, SpansAre DEF IsSelected
<1>3. PICK i \in T : \A j \in T : i <= j
  BY <1>2, Least
<1>4. i \in DOMAIN Spans /\ Covers(Spans[i], d) /\ \A j \in 1..(i - 1) : ~Covers(Spans[j], d)
  BY <1>1, <1>3, SpansAre
<1>5. PICK k : k = Found(d)
  OBVIOUS
<1>6. k \in DOMAIN Spans /\ Covers(Spans[k], d)
  BY <1>4, <1>5 DEF Found
<1>7. ASSUME NEW j \in DOMAIN Spans, j # k PROVE ~Covers(Spans[j], d)
  <2>1. Disjoint(Spans[j], Spans[k])
    BY <1>1, <1>6, <1>7, SpansAre
  <2> QED
    BY <1>1, <1>6, <2>1, SpansAre DEF Disjoint, Covers
<1> QED
  BY <1>5, <1>6, <1>7 DEF Covers

\* An interval is cut before the day: what came after goes with it.
LEMMA IntervalCut ==
    ASSUME Spans \in SpanLists, Chained(Spans), NEW d \in Dates, NEW i \in DOMAIN Spans,
           Spans[i].first.day <= d.day, d.day <= Spans[i].last.day
    PROVE  /\ CutInterval(i, d) \in SpanLists /\ Chained(CutInterval(i, d))
           /\ DaysOf(CutInterval(i, d)) = {x \in DaysOf(Spans) : x < d.day}
<1>1. PICK front : front = SubSeq(Spans, 1, i - 1)
  OBVIOUS
<1>2. i - 1 \in 0..Len(Spans) /\ i \in Int /\ d.day \in Int /\ d.day \in Days
  BY SpansAre, DatesAre
<1>3. /\ front \in SpanLists /\ Len(front) = i - 1 /\ Chained(front)
      /\ \A j \in DOMAIN front : j \in DOMAIN Spans /\ j <= i - 1 /\ front[j] = Spans[j]
  <2>1. PICK n \in 0..Len(Spans) : n = i - 1
    BY <1>2
  <2>2. front = SubSeq(Spans, 1, n)
    BY <1>1, <2>1
  <2>3. /\ front \in SpanLists /\ Len(front) = n /\ Chained(front)
        /\ \A j \in DOMAIN front : j \in DOMAIN Spans /\ j <= n /\ front[j] = Spans[j]
    BY <2>2, Prefix
  <2> QED
    BY <2>1, <2>3
<1>4. \A j \in DOMAIN Spans : j < i => j \in DOMAIN front
  BY <1>2, <1>3, SpansAre
<1>5. DaysOf(front) = {x \in DaysOf(Spans) : x < Spans[i].first.day}
  <2>1. ASSUME NEW x \in DaysOf(front) PROVE x \in DaysOf(Spans) /\ x < Spans[i].first.day
    <3>1. PICK j \in DOMAIN front : front[j].first.day <= x /\ x <= front[j].last.day
      BY DEF DaysOf
    <3>2. j \in DOMAIN Spans /\ j < i /\ front[j] = Spans[j]
      BY <1>2, <1>3, <3>1, SpansAre
    <3>3. Spans[j].last.day < Spans[i].first.day
      BY <3>2, Ascending
    <3>4. x \in Days /\ x \in Int
      BY DaysAssumption DEF DaysOf
    <3> QED
      BY <3>1, <3>2, <3>3, <3>4, SpansAre DEF DaysOf
  <2>2. ASSUME NEW x \in DaysOf(Spans), x < Spans[i].first.day PROVE x \in DaysOf(front)
    <3>1. PICK j \in DOMAIN Spans : Spans[j].first.day <= x /\ x <= Spans[j].last.day
      BY DEF DaysOf
    <3>2. x \in Days /\ x \in Int
      BY DaysAssumption DEF DaysOf
    <3>3. ~(i <= j)
      <4>1. i < j => Spans[i].last.day < Spans[j].first.day
        BY Ascending
      <4>2. i = j \/ i < j \/ j < i
        BY SpansAre
      <4> QED
        BY <2>2, <3>1, <3>2, <4>1, <4>2, SpansAre
    <3>4. j \in DOMAIN front /\ front[j] = Spans[j]
      BY <1>2, <1>3, <1>4, <3>3, SpansAre
    <3> QED
      BY <3>1, <3>2, <3>4 DEF DaysOf
  <2> QED
    BY <2>1, <2>2
<1>6. CASE d.day = Spans[i].first.day
  <2>1. CutInterval(i, d) = front
    BY <1>1, <1>6 DEF CutInterval
  <2> QED
    BY <1>3, <1>5, <1>6, <2>1
<1>7. CASE d.day # Spans[i].first.day
  <2>1. PICK f \in Dates : f = Spans[i].first
    BY SpansAre
  <2>2. f.day \in Int /\ f.day \in Days /\ f.day < d.day
    BY <1>2, <1>7, <2>1, DatesAre
  <2>3. PICK e \in Dates : e = Date(d.day - 1, f.time)
    <3>1. d.day - 1 \in Days
      BY <1>2, <2>2, Between
    <3> QED
      BY <3>1, DatesAre, IsADate
  <2>4. e.day = d.day - 1 /\ e.time = f.time
    BY <2>3 DEF Date
  <2>5. PICK s \in SpanRecord : s = Span(f, e)
    BY DEF SpanRecord, Span
  <2>6. s.first = f /\ s.last = e /\ Whole(s)
    BY <1>2, <2>2, <2>4, <2>5 DEF Span, Whole
  <2>7. CutInterval(i, d) = Append(front, s)
    BY <1>1, <1>7, <2>1, <2>3, <2>5 DEF CutInterval, DayBefore
  <2>8. \A j \in DOMAIN front : Disjoint(front[j], s)
    <3> SUFFICES ASSUME NEW j \in DOMAIN front PROVE Disjoint(front[j], s)
      OBVIOUS
    <3>1. j \in DOMAIN Spans /\ j < i /\ front[j] = Spans[j]
      BY <1>2, <1>3, SpansAre
    <3>2. Spans[j].last.day < Spans[i].first.day
      BY <3>1, Ascending
    <3> QED
      BY <2>1, <2>6, <3>1, <3>2 DEF Disjoint
  <2>9. /\ Append(front, s) \in SpanLists
        /\ DaysOf(Append(front, s)) = DaysOf(front) \cup (f.day..(d.day - 1))
    BY <1>3, <2>4, <2>6, <2>8, Added
  <2>10. Chained(Append(front, s))
    <3>1. CASE front = <<>>
      BY <3>1 DEF Chained
    <3>2. CASE front # <<>>
      <4>1. i - 1 \in DOMAIN front /\ i \in 2..Len(Spans) /\ front[i - 1] = Spans[i - 1]
        BY <1>2, <1>3, <3>2, SpansAre
      <4>2. s.first.day = front[Len(front)].last.day + 1
        BY <1>3, <2>1, <2>6, <4>1 DEF Chained
      <4> QED
        BY <1>3, <3>2, <4>2, Chain
    <3> QED
      BY <3>1, <3>2
  <2>11. DaysOf(front) \cup (f.day..(d.day - 1)) = {x \in DaysOf(Spans) : x < d.day}
    <3>1. ASSUME NEW x \in DaysOf(front) \cup (f.day..(d.day - 1))
          PROVE  x \in DaysOf(Spans) /\ x < d.day
      <4>1. CASE x \in DaysOf(front)
        <5>1. x \in DaysOf(Spans) /\ x < f.day /\ x \in Int
          BY <1>5, <2>1, <4>1, DaysAssumption DEF DaysOf
        <5> QED
          BY <1>2, <2>2, <5>1
      <4>2. CASE x \in f.day..(d.day - 1)
        <5>1. x \in Int /\ f.day <= x /\ x <= d.day - 1
          BY <1>2, <2>2, <4>2
        <5>2. Spans[i].first.day <= x /\ x <= Spans[i].last.day /\ x <= d.day
          BY <1>2, <2>1, <5>1, SpansAre
        <5>3. x \in Days
          BY <1>2, <2>2, <5>1, <5>2, Between
        <5> QED
          BY <1>2, <5>1, <5>2, <5>3 DEF DaysOf
      <4> QED
        BY <3>1, <4>1, <4>2
    <3>2. ASSUME NEW x \in DaysOf(Spans), x < d.day
          PROVE  x \in DaysOf(front) \cup (f.day..(d.day - 1))
      <4>1. x \in Int
        BY DaysAssumption DEF DaysOf
      <4> QED
        BY <1>2, <1>5, <2>1, <2>2, <3>2, <4>1
    <3> QED
      BY <3>1, <3>2
  <2> QED
    BY <2>7, <2>9, <2>10, <2>11
<1> QED
  BY <1>6, <1>7

LEMMA Removed ==
    ASSUME NEW spans \in SpanLists, NEW i \in DOMAIN spans
    PROVE  /\ RemoveAt(spans, i) \in Seq(SpanRecord)
           /\ DOMAIN RemoveAt(spans, i) = 1..(Len(spans) - 1)
           /\ \A j \in 1..(Len(spans) - 1) :
                RemoveAt(spans, i)[j] = IF j < i THEN spans[j] ELSE spans[j + 1]
<1>1. PICK front : front = SubSeq(spans, 1, i - 1)
  OBVIOUS
<1>2. PICK back : back = SubSeq(spans, i + 1, Len(spans))
  OBVIOUS
<1>3. /\ front \in Seq(SpanRecord) /\ Len(front) = i - 1
      /\ \A j \in 1..(i - 1) : front[j] = spans[j]
  BY <1>1, SpansAre
<1>4. /\ back \in Seq(SpanRecord) /\ Len(back) = Len(spans) - i
      /\ \A j \in 1..(Len(spans) - i) : back[j] = spans[i + j]
  BY <1>2, SpansAre
<1>5. RemoveAt(spans, i) = front \o back
  BY <1>1, <1>2 DEF RemoveAt
<1>6. Len(front \o back) = Len(spans) - 1 /\ front \o back \in Seq(SpanRecord)
  BY <1>3, <1>4, SpansAre
<1>7. ASSUME NEW j \in 1..(Len(spans) - 1)
      PROVE  (front \o back)[j] = IF j < i THEN spans[j] ELSE spans[j + 1]
  <2>1. CASE j < i
    BY <1>3, <1>4, <2>1, SpansAre
  <2>2. CASE ~(j < i)
    <3>1. j - (i - 1) \in 1..(Len(spans) - i) /\ i + (j - (i - 1)) = j + 1
      BY <1>7, <2>2, SpansAre
    <3>2. (front \o back)[j] = back[j - (i - 1)]
      BY <1>3, <1>4, <2>2, SpansAre
    <3> QED
      BY <1>4, <2>2, <3>1, <3>2
  <2> QED
    BY <2>1, <2>2
<1> QED
  BY <1>5, <1>6, <1>7

\* Otherwise the day is taken out of its span, which may leave two.
LEMMA DayCut ==
    ASSUME Spans \in SpanLists, NEW d \in Dates, NEW i \in DOMAIN Spans,
           Spans[i].first.day <= d.day, d.day <= Spans[i].last.day
    PROVE  /\ CutDay(i, d) \in SpanLists
           /\ DaysOf(CutDay(i, d)) = DaysOf(Spans) \ {d.day}
<1> DEFINE s == Spans[i]
<1>1. PICK n \in Nat : n = Len(Spans)
  BY SpansAre
<1>2. /\ s \in SpanRecord /\ s.first \in Dates /\ s.last \in Dates
      /\ s.first.day \in Days /\ s.last.day \in Days
      /\ s.first.day \in Int /\ s.last.day \in Int
      /\ s.first.day <= s.last.day /\ s.first.time = s.last.time
      /\ s.first.time \in Times /\ d.day \in Int /\ d.day \in Days
      /\ i \in 1..n /\ DOMAIN Spans = 1..n
  BY <1>1, SpansAre, DatesAre
<1>3. PICK before : before = DayBefore(d, s)
  OBVIOUS
<1>4. PICK after : after = DayAfter(d, s)
  OBVIOUS
<1>5. /\ s.first.day < d.day => before \in Dates
      /\ before.day = d.day - 1 /\ before.time = s.first.time
  <2>1. s.first.day < d.day => d.day - 1 \in Days
    BY <1>2, Between
  <2> QED
    BY <1>2, <1>3, <2>1, IsADate DEF DayBefore, Date
<1>6. /\ d.day < s.last.day => after \in Dates
      /\ after.day = d.day + 1 /\ after.time = s.first.time
  <2>1. d.day < s.last.day => d.day + 1 \in Days
    BY <1>2, Between
  <2> QED
    BY <1>2, <1>4, <2>1, IsADate DEF DayAfter, Date
<1>7. \A x \in Days : x \in Int
  BY DaysAssumption
<1>8. \A k \in DOMAIN Spans : k # i => ~(Spans[k].first.day <= d.day /\ d.day <= Spans[k].last.day)
  <2> SUFFICES ASSUME NEW k \in DOMAIN Spans, k # i
               PROVE  ~(Spans[k].first.day <= d.day /\ d.day <= Spans[k].last.day)
    OBVIOUS
  <2>1. Disjoint(Spans[k], Spans[i])
    BY SpansAre
  <2> QED
    BY <1>2, <2>1, SpansAre DEF Disjoint
<1>9. ASSUME NEW cut \in Seq(SpanRecord), NEW origin \in [DOMAIN cut -> DOMAIN Spans],
             \A j \in DOMAIN cut : /\ origin[j] # i => cut[j] = Spans[origin[j]]
                                   /\ origin[j] = i =>
                                        /\ Whole(cut[j])
                                        /\ s.first.day <= cut[j].first.day
                                        /\ cut[j].last.day <= s.last.day
                                        /\ cut[j].last.day < d.day \/ d.day < cut[j].first.day,
             \A j, k \in DOMAIN cut :
               j # k /\ origin[j] = origin[k] => Disjoint(cut[j], cut[k]),
             \A k \in DOMAIN Spans : k # i => \E j \in DOMAIN cut : origin[j] = k,
             \A x \in Days : /\ s.first.day <= x /\ x <= s.last.day /\ x # d.day
                             => \E j \in DOMAIN cut : cut[j].first.day <= x /\ x <= cut[j].last.day
      PROVE  cut \in SpanLists /\ DaysOf(cut) = DaysOf(Spans) \ {d.day}
  <2>1. \A j \in DOMAIN cut :
             /\ Whole(cut[j])
             /\ Spans[origin[j]].first.day <= cut[j].first.day
             /\ cut[j].last.day <= Spans[origin[j]].last.day
    BY <1>9, SpansAre DEF Whole
  <2>2. cut \in SpanLists
    BY <1>9, <2>1, Pieces
  <2>3. ASSUME NEW x \in DaysOf(cut) PROVE x \in DaysOf(Spans) \ {d.day}
    <3>1. PICK j \in DOMAIN cut : cut[j].first.day <= x /\ x <= cut[j].last.day
      BY DEF DaysOf
    <3>2. x \in Days /\ x \in Int
      BY <1>7 DEF DaysOf
    <3>3. origin[j] \in DOMAIN Spans
      BY <1>9
    <3>4. Spans[origin[j]].first.day <= x /\ x <= Spans[origin[j]].last.day
      BY <2>1, <2>2, <3>1, <3>2, <3>3, SpansAre
    <3>5. x # d.day
      <4>1. CASE origin[j] = i
        <5>1. cut[j].last.day < d.day \/ d.day < cut[j].first.day
          BY <1>9, <4>1
        <5> QED
          BY <1>2, <2>2, <3>1, <3>2, <5>1, SpansAre
      <4>2. CASE origin[j] # i
        BY <1>8, <3>3, <3>4, <4>2
      <4> QED
        BY <4>1, <4>2
    <3> QED
      BY <3>2, <3>3, <3>4, <3>5 DEF DaysOf
  <2>4. ASSUME NEW x \in DaysOf(Spans) \ {d.day} PROVE x \in DaysOf(cut)
    <3>1. PICK k \in DOMAIN Spans : Spans[k].first.day <= x /\ x <= Spans[k].last.day
      BY DEF DaysOf
    <3>2. x \in Days
      BY DEF DaysOf
    <3>3. CASE k = i
      BY <1>9, <2>4, <3>1, <3>2, <3>3 DEF DaysOf
    <3>4. CASE k # i
      BY <1>9, <3>1, <3>2, <3>4 DEF DaysOf
    <3> QED
      BY <3>3, <3>4
  <2> QED
    BY <2>2, <2>3, <2>4
<1>10. CASE s.first.day = s.last.day
  <2>1. PICK cut : cut = RemoveAt(Spans, i)
    OBVIOUS
  <2>2. CutDay(i, d) = cut
    BY <1>10, <2>1 DEF CutDay
  <2>3. /\ cut \in Seq(SpanRecord) /\ DOMAIN cut = 1..(n - 1)
        /\ \A j \in DOMAIN cut : cut[j] = IF j < i THEN Spans[j] ELSE Spans[j + 1]
    BY <1>1, <2>1, Removed
  <2>4. PICK origin : origin = [j \in DOMAIN cut |-> IF j < i THEN j ELSE j + 1]
    OBVIOUS
  <2>5. origin \in [DOMAIN cut -> DOMAIN Spans]
    BY <1>2, <2>3, <2>4
  <2>6. \A j \in DOMAIN cut : origin[j] # i /\ cut[j] = Spans[origin[j]]
    BY <1>2, <2>3, <2>4
  <2>7. \A j, k \in DOMAIN cut : j # k => origin[j] # origin[k]
    BY <1>2, <2>3, <2>4
  <2>8. \A k \in DOMAIN Spans : k # i => \E j \in DOMAIN cut : origin[j] = k
    <3> SUFFICES ASSUME NEW k \in DOMAIN Spans, k # i
                 PROVE  \E j \in DOMAIN cut : origin[j] = k
      OBVIOUS
    <3>1. CASE k < i
      BY <1>2, <2>3, <2>4, <3>1
    <3>2. CASE i < k
      <4>1. k - 1 \in DOMAIN cut /\ origin[k - 1] = k
        BY <1>2, <2>3, <2>4, <3>2
      <4> QED
        BY <4>1
    <3> QED
      BY <1>2, <3>1, <3>2
  <2>9. \A x \in Days : ~(s.first.day <= x /\ x <= s.last.day /\ x # d.day)
    BY <1>2, <1>7, <1>10
  <2> HIDE DEF s
  <2>10. \A j \in DOMAIN cut : /\ origin[j] # i => cut[j] = Spans[origin[j]]
                               /\ origin[j] = i =>
                                    /\ Whole(cut[j])
                                    /\ s.first.day <= cut[j].first.day
                                    /\ cut[j].last.day <= s.last.day
                                    /\ cut[j].last.day < d.day \/ d.day < cut[j].first.day
    BY <2>6
  <2>11. \A j, k \in DOMAIN cut :
           j # k /\ origin[j] = origin[k] => Disjoint(cut[j], cut[k])
    BY <2>7
  <2>12. \A x \in Days : /\ s.first.day <= x /\ x <= s.last.day /\ x # d.day
                         => \E j \in DOMAIN cut : cut[j].first.day <= x /\ x <= cut[j].last.day
    BY <2>9
  <2> QED
    BY <1>9, <2>2, <2>3, <2>5, <2>8, <2>10, <2>11, <2>12
<1>11. ASSUME s.first.day # s.last.day, NEW piece \in SpanRecord, Whole(piece),
              s.first.day <= piece.first.day, piece.last.day <= s.last.day,
              piece.last.day < d.day \/ d.day < piece.first.day,
              \A x \in Days : /\ s.first.day <= x /\ x <= s.last.day /\ x # d.day
                              => piece.first.day <= x /\ x <= piece.last.day,
              CutDay(i, d) = [Spans EXCEPT ![i] = piece]
       PROVE  /\ CutDay(i, d) \in SpanLists
              /\ DaysOf(CutDay(i, d)) = DaysOf(Spans) \ {d.day}
  <2>1. PICK cut : cut = [Spans EXCEPT ![i] = piece]
    OBVIOUS
  <2>2. /\ cut \in Seq(SpanRecord) /\ DOMAIN cut = DOMAIN Spans
        /\ cut[i] = piece /\ \A j \in DOMAIN cut : j # i => cut[j] = Spans[j]
    <3>1. Spans \in Seq(SpanRecord)
      BY SpansAre
    <3> QED
      BY <2>1, <3>1
  <2>3. PICK origin : origin = [j \in DOMAIN cut |-> j]
    OBVIOUS
  <2>4. /\ origin \in [DOMAIN cut -> DOMAIN Spans]
        /\ \A j \in DOMAIN cut : origin[j] = j
    BY <2>2, <2>3
  <2> HIDE DEF s
  <2>5. \A j \in DOMAIN cut : /\ origin[j] # i => cut[j] = Spans[origin[j]]
                              /\ origin[j] = i =>
                                   /\ Whole(cut[j])
                                   /\ s.first.day <= cut[j].first.day
                                   /\ cut[j].last.day <= s.last.day
                                   /\ cut[j].last.day < d.day \/ d.day < cut[j].first.day
    BY <1>11, <2>2, <2>4
  <2>6. \A j, k \in DOMAIN cut :
          j # k /\ origin[j] = origin[k] => Disjoint(cut[j], cut[k])
    BY <2>4
  <2>7. \A x \in Days : /\ s.first.day <= x /\ x <= s.last.day /\ x # d.day
                        => \E j \in DOMAIN cut : cut[j].first.day <= x /\ x <= cut[j].last.day
    BY <1>11, <2>2
  <2>8. \A k \in DOMAIN Spans : k # i => \E j \in DOMAIN cut : origin[j] = k
    BY <2>2, <2>4
  <2>9. cut \in SpanLists /\ DaysOf(cut) = DaysOf(Spans) \ {d.day}
    <3>1. cut \in Seq(SpanRecord)
      BY <2>2
    <3>2. origin \in [DOMAIN cut -> DOMAIN Spans]
      BY <2>4
    <3> QED
      BY <1>9, <2>5, <2>6, <2>7, <2>8, <3>1, <3>2
  <2>10. CutDay(i, d) = cut
    BY <1>11, <2>1
  <2> QED
    BY <2>9, <2>10
<1>12. CASE d.day = s.first.day /\ s.first.day # s.last.day
  <2>1. PICK piece : piece = [s EXCEPT !.first = after]
    OBVIOUS
  <2>2. after \in Dates
    BY <1>2, <1>6, <1>12
  <2>3. /\ piece \in SpanRecord
        /\ piece.first = after /\ piece.last = s.last
    BY <1>2, <2>1, <2>2 DEF SpanRecord
  <2>4. /\ piece.first.day = d.day + 1 /\ piece.last.day = s.last.day /\ Whole(piece)
    BY <1>2, <1>6, <1>12, <2>3 DEF Whole
  <2>5. CutDay(i, d) = [Spans EXCEPT ![i] = piece]
    BY <1>4, <1>12, <2>1 DEF CutDay
  <2>6. \A x \in Days : /\ s.first.day <= x /\ x <= s.last.day /\ x # d.day
                        => piece.first.day <= x /\ x <= piece.last.day
    BY <1>2, <1>7, <1>12, <2>4
  <2>7. s.first.day <= piece.first.day /\ piece.last.day <= s.last.day
        /\ d.day < piece.first.day
    BY <1>2, <1>12, <2>4
  <2> QED
    BY <1>11, <1>12, <2>3, <2>4, <2>5, <2>6, <2>7
<1>13. CASE d.day = s.last.day /\ s.first.day # s.last.day
  <2>1. PICK piece : piece = [s EXCEPT !.last = before]
    OBVIOUS
  <2>2. before \in Dates
    BY <1>2, <1>5, <1>13
  <2>3. /\ piece \in SpanRecord
        /\ piece.first = s.first /\ piece.last = before
    BY <1>2, <2>1, <2>2 DEF SpanRecord
  <2>4. piece.first.day = s.first.day /\ piece.last.day = d.day - 1 /\ Whole(piece)
    BY <1>2, <1>5, <1>13, <2>3 DEF Whole
  <2>5. CutDay(i, d) = [Spans EXCEPT ![i] = piece]
    BY <1>3, <1>13, <2>1 DEF CutDay
  <2>6. \A x \in Days : /\ s.first.day <= x /\ x <= s.last.day /\ x # d.day
                        => piece.first.day <= x /\ x <= piece.last.day
    BY <1>2, <1>7, <1>13, <2>4
  <2>7. s.first.day <= piece.first.day /\ piece.last.day <= s.last.day
        /\ piece.last.day < d.day
    BY <1>2, <1>13, <2>4
  <2> QED
    BY <1>11, <1>13, <2>3, <2>4, <2>5, <2>6, <2>7
<1>14. CASE s.first.day < d.day /\ d.day < s.last.day
  <2>1. PICK a \in SpanRecord : a = Span(s.first, before)
    BY <1>2, <1>5, <1>14 DEF SpanRecord, Span
  <2>2. PICK b \in SpanRecord : b = Span(after, s.last)
    BY <1>2, <1>6, <1>14 DEF SpanRecord, Span
  <2>3. a.first = s.first /\ a.last = before /\ b.first = after /\ b.last = s.last
    BY <2>1, <2>2 DEF Span
  <2>4. Whole(a) /\ Whole(b) /\ Disjoint(a, b) /\ Disjoint(b, a)
    BY <1>2, <1>5, <1>6, <1>14, <2>3 DEF Whole, Disjoint
  <2>5. PICK front : front = SubSeq(Spans, 1, i - 1)
    OBVIOUS
  <2>6. PICK back : back = SubSeq(Spans, i + 1, Len(Spans))
    OBVIOUS
  <2>7. /\ front \in Seq(SpanRecord) /\ Len(front) = i - 1
        /\ \A j \in 1..(i - 1) : front[j] = Spans[j]
    BY <1>1, <1>2, <2>5, SpansAre
  <2>8. /\ back \in Seq(SpanRecord) /\ Len(back) = n - i
        /\ \A j \in 1..(n - i) : back[j] = Spans[i + j]
    <3>1. Spans \in Seq(SpanRecord) /\ Len(Spans) = n
      BY <1>1, SpansAre
    <3> QED
      BY <1>2, <2>6, <3>1
  <2>9. PICK left : left = front \o <<a, b>>
    OBVIOUS
  <2>10. /\ left \in Seq(SpanRecord) /\ Len(left) = i + 1
         /\ left[i] = a /\ left[i + 1] = b
         /\ \A j \in 1..(i - 1) : left[j] = Spans[j]
    BY <1>2, <2>7, <2>9
  <2>11. PICK cut : cut = left \o back
    OBVIOUS
  <2>12. /\ cut \in Seq(SpanRecord) /\ DOMAIN cut = 1..(n + 1)
         /\ \A j \in 1..(i + 1) : cut[j] = left[j]
    <3>1. Len(cut) = n + 1 /\ cut \in Seq(SpanRecord)
      BY <1>2, <2>8, <2>10, <2>11
    <3>2. \A j \in 1..(i + 1) : cut[j] = left[j]
      BY <1>2, <2>8, <2>10, <2>11
    <3> QED
      BY <1>2, <3>1, <3>2
  <2>13. \A j \in (i + 2)..(n + 1) : cut[j] = Spans[j - 1]
    <3> SUFFICES ASSUME NEW j \in (i + 2)..(n + 1) PROVE cut[j] = Spans[j - 1]
      OBVIOUS
    <3>1. j - (i + 1) \in 1..(n - i) /\ i + (j - (i + 1)) = j - 1
      BY <1>2
    <3>2. cut[j] = back[j - (i + 1)]
      BY <1>2, <2>8, <2>10, <2>11
    <3> QED
      BY <2>8, <3>1, <3>2
  <2>14. CutDay(i, d) = cut
    <3>1. CutDay(i, d) = front \o <<a, b>> \o back
      <4>1. s.first.day # s.last.day /\ d.day # s.first.day /\ d.day # s.last.day
        BY <1>2, <1>14
      <4> QED
        BY <1>3, <1>4, <2>1, <2>2, <2>5, <2>6, <4>1 DEF CutDay
    <3> QED
      BY <2>9, <2>11, <3>1
  <2>15. PICK origin : origin = [j \in DOMAIN cut |-> IF j <= i THEN j ELSE j - 1]
    OBVIOUS
  <2>16. /\ origin \in [DOMAIN cut -> DOMAIN Spans]
         /\ \A j \in DOMAIN cut : origin[j] = i <=> j = i \/ j = i + 1
         /\ \A j, k \in DOMAIN cut : j # k /\ origin[j] = origin[k]
              => (j = i /\ k = i + 1) \/ (k = i /\ j = i + 1)
    BY <1>2, <2>12, <2>15
  <2>17. cut[i] = a /\ cut[i + 1] = b /\ i \in DOMAIN cut /\ i + 1 \in DOMAIN cut
    BY <1>2, <2>10, <2>12
  <2>18. \A j \in DOMAIN cut : origin[j] # i => cut[j] = Spans[origin[j]]
    <3> SUFFICES ASSUME NEW j \in DOMAIN cut, origin[j] # i PROVE cut[j] = Spans[origin[j]]
      OBVIOUS
    <3>1. CASE j < i
      <4>1. j \in 1..(i - 1) /\ j \in 1..(i + 1) /\ origin[j] = j
        BY <1>2, <2>12, <2>15, <3>1
      <4> QED
        BY <2>10, <2>12, <4>1
    <3>2. CASE ~(j < i)
      <4>1. j \in (i + 2)..(n + 1) /\ origin[j] = j - 1
        BY <1>2, <2>12, <2>15, <2>16, <3>2
      <4> QED
        BY <2>13, <4>1
    <3> QED
      BY <3>1, <3>2
  <2>19. \A k \in DOMAIN Spans : k # i => \E j \in DOMAIN cut : origin[j] = k
    <3> SUFFICES ASSUME NEW k \in DOMAIN Spans, k # i
                 PROVE  \E j \in DOMAIN cut : origin[j] = k
      OBVIOUS
    <3>1. CASE k < i
      BY <1>2, <2>12, <2>15, <3>1
    <3>2. CASE i < k
      <4>1. k + 1 \in DOMAIN cut /\ origin[k + 1] = k
        BY <1>2, <2>12, <2>15, <3>2
      <4> QED
        BY <4>1
    <3> QED
      BY <1>2, <3>1, <3>2
  <2>20. \A j \in DOMAIN cut : origin[j] = i =>
            /\ Whole(cut[j])
            /\ s.first.day <= cut[j].first.day /\ cut[j].last.day <= s.last.day
            /\ cut[j].last.day < d.day \/ d.day < cut[j].first.day
    <3>1. /\ s.first.day <= a.first.day /\ a.last.day <= s.last.day /\ a.last.day < d.day
          /\ s.first.day <= b.first.day /\ b.last.day <= s.last.day /\ d.day < b.first.day
      BY <1>2, <1>5, <1>6, <1>14, <2>3
    <3> QED
      BY <2>4, <2>16, <2>17, <3>1
  <2>21. ASSUME NEW x \in Days, s.first.day <= x, x <= s.last.day, x # d.day
         PROVE  \E j \in DOMAIN cut : cut[j].first.day <= x /\ x <= cut[j].last.day
    <3>1. x \in Int
      BY <1>7
    <3>2. (a.first.day <= x /\ x <= a.last.day) \/ (b.first.day <= x /\ x <= b.last.day)
      BY <1>2, <1>5, <1>6, <1>14, <2>3, <2>21, <3>1
    <3> QED
      BY <2>17, <3>2
  <2>22. \A j, k \in DOMAIN cut :
            j # k /\ origin[j] = origin[k] => Disjoint(cut[j], cut[k])
    BY <2>4, <2>16, <2>17
  <2> HIDE DEF s
  <2> QED
    BY <1>9, <2>12, <2>14, <2>16, <2>18, <2>19, <2>20, <2>21, <2>22
<1> QED
  BY <1>2, <1>10, <1>12, <1>13, <1>14

LEMMA DeleteStep ==
    ASSUME CalendarInv, NEW d \in Dates, Delete(d)
    PROVE  CalendarInv' /\ Abstract!Delete(d.day)
<1>1. /\ mode' = mode /\ mode \in Modes /\ calendar.set
      /\ Spans \in SpanLists /\ (mode = "Interval" => Chained(Spans))
      /\ SelectedDays = DaysOf(Spans) /\ (IsSelected(d) <=> d.day \in SelectedDays)
  BY SpansKept, Selection DEF Delete, SetSpans
<1>2. CASE ~IsSelected(d)
  <2>1. calendar' = [calendar EXCEPT !.spans = Spans]
    BY <1>2 DEF Delete, SetSpans
  <2>2. CalendarInv' /\ SelectedDays' = SelectedDays
    BY <1>1, <2>1, SpansSet
  <2> QED
    BY <1>1, <1>2, <2>2 DEF Abstract!Delete
<1>3. CASE IsSelected(d)
  <2>1. PICK i \in DOMAIN Spans :
          i = Found(d) /\ Spans[i].first.day <= d.day /\ d.day <= Spans[i].last.day
    BY <1>3, FoundIs
  <2>2. CASE mode = "Interval"
    <3>1. calendar' = [calendar EXCEPT !.spans = CutInterval(i, d)]
      BY <1>3, <2>1, <2>2 DEF Delete, SetSpans
    <3>2. /\ CutInterval(i, d) \in SpanLists /\ Chained(CutInterval(i, d))
          /\ DaysOf(CutInterval(i, d)) = {x \in SelectedDays : x < d.day}
      BY <1>1, <2>1, <2>2, IntervalCut
    <3>3. CalendarInv' /\ SelectedDays' = {x \in SelectedDays : x < d.day}
      BY <1>1, <3>1, <3>2, SpansSet
    <3> QED
      BY <1>1, <1>3, <2>2, <3>3 DEF Abstract!Delete
  <2>3. CASE mode # "Interval"
    <3>1. calendar' = [calendar EXCEPT !.spans = CutDay(i, d)]
      BY <1>3, <2>1, <2>3 DEF Delete, SetSpans
    <3>2. CutDay(i, d) \in SpanLists /\ DaysOf(CutDay(i, d)) = SelectedDays \ {d.day}
      BY <1>1, <2>1, DayCut
    <3>3. CalendarInv' /\ SelectedDays' = SelectedDays \ {d.day}
      BY <1>1, <2>3, <3>1, <3>2, SpansSet
    <3> QED
      BY <1>1, <1>3, <2>3, <3>3 DEF Abstract!Delete
  <2> QED
    BY <2>2, <2>3
<1> QED
  BY <1>2, <1>3

-----------------------------------------------------------------------------
LEMMA CalendarStart == CalendarInit => CalendarInv /\ Abstract!Init
<1> SUFFICES ASSUME CalendarInit PROVE CalendarInv /\ Abstract!Init
  OBVIOUS
<1>1. Spans = <<>> /\ CalendarInv
  BY NoSpan DEF CalendarInit, CalendarInv, Spans, NoState
<1>2. SelectedDays = {}
  BY <1>1, Selection, NoSpan
<1> QED
  BY <1>1, <1>2 DEF CalendarInv, Abstract!Init, Abstract!Modes, Modes

LEMMA CalendarStep ==
    CalendarInv /\ [CalendarNext]_calendarVars
      => CalendarInv' /\ [Abstract!Next]_(Abstract!vars)
<1> SUFFICES ASSUME CalendarInv, [CalendarNext]_calendarVars
             PROVE  CalendarInv' /\ [Abstract!Next]_(Abstract!vars)
  OBVIOUS
<1>1. CASE SetCalendarForm
  BY <1>1, FormStep DEF Abstract!Next
<1>2. CASE ResetCurrentDate \/ UNCHANGED calendarVars
  BY <1>2, ResetDateStep DEF Abstract!vars
<1>3. CASE Clear
  BY <1>3, ClearStep DEF Abstract!Next
<1>4. ASSUME NEW m \in Modes, SetMode(m) PROVE CalendarInv' /\ Abstract!Next
  BY <1>4, ModeStep DEF Abstract!Next, Abstract!Modes, Modes
<1>5. CASE ResetMode
  BY <1>4, <1>5 DEF ResetMode, Modes
<1>6. ASSUME NEW d \in Dates, InitializeRuntime(d) \/ SetCurrentDate(d)
      PROVE  CalendarInv' /\ Abstract!Next
  <2>1. Midnight \in Times
    BY DatesAre DEF Midnight
  <2>2. Date(d.day, Midnight) \in Dates
    BY <2>1, DatesAre, IsADate
  <2>3. mode' \in Modes
    BY <1>6 DEF InitializeRuntime, SetCurrentDate, CalendarInv
  <2> QED
    BY <1>6, <2>2, <2>3, FreshStep DEF InitializeRuntime, SetCurrentDate, Abstract!Next
<1>7. ASSUME NEW d \in Dates, Add(d) PROVE CalendarInv' /\ Abstract!Next
  BY <1>7, AddStep, DatesAre DEF Abstract!Next
<1>8. ASSUME NEW d \in Dates, Delete(d) PROVE CalendarInv' /\ Abstract!Next
  BY <1>8, DeleteStep, DatesAre DEF Abstract!Next
<1> QED
  BY <1>1, <1>2, <1>3, <1>4, <1>5, <1>6, <1>7, <1>8 DEF CalendarNext

THEOREM CalendarInvariant == CalendarSpec => []CalendarInv
<1> QED
  BY CalendarStart, CalendarStep, PTL DEF CalendarSpec

\* The spans implement a set of days under the rules of the three modes.
THEOREM SpansImplementDays == CalendarSpec => ImplementsSelectedDays
<1> QED
  BY CalendarStart, CalendarStep, PTL DEF CalendarSpec, ImplementsSelectedDays, Abstract!Spec

-----------------------------------------------------------------------------
(* Reading the days by index.                                              *)

LEMMA LengthIs ==
    ASSUME Spans \in SpanLists, NEW i \in DOMAIN Spans
    PROVE  /\ SpanLength(Spans[i]) \in Nat \ {0}
           /\ SpanLength(Spans[i]) = Spans[i].last.day - Spans[i].first.day + 1
BY SpansAre DEF SpanLength

\* The running counts exist, and are what their definition says.
LEMMA Counting ==
    ASSUME Spans \in SpanLists
    PROVE  /\ CountTo \in [0..Len(Spans) -> Nat] /\ CountTo[0] = 0
           /\ \A n \in 1..Len(Spans) : CountTo[n] = CountTo[n - 1] + SpanLength(Spans[n])
<1>1. PICK len \in Nat : len = Len(Spans) /\ DOMAIN Spans = 1..len
  BY SpansAre
<1> DEFINE Counts(f, n) ==
             /\ f \in [0..n -> Nat] /\ f[0] = 0
             /\ \A k \in 1..n : f[k] = f[k - 1] + SpanLength(Spans[k])
           S == {n \in Nat : n <= len => \E f : Counts(f, n)}
<1>2. 0 \in S
  <2>1. PICK f : f = [n \in 0..0 |-> 0]
    OBVIOUS
  <2>2. Counts(f, 0)
    BY <2>1
  <2> QED
    BY <2>2
<1>3. ASSUME NEW n \in Nat, n \in S PROVE n + 1 \in S
  <2> SUFFICES ASSUME n + 1 <= len PROVE \E f : Counts(f, n + 1)
    OBVIOUS
  <2>1. PICK f : Counts(f, n)
    BY <1>1, <1>3
  <2>2. SpanLength(Spans[n + 1]) \in Nat
    BY <1>1, LengthIs
  <2>3. PICK g : g = [k \in 0..(n + 1) |->
                        IF k <= n THEN f[k] ELSE f[n] + SpanLength(Spans[n + 1])]
    OBVIOUS
  <2>4. g \in [0..(n + 1) -> Nat] /\ g[0] = 0
    BY <2>1, <2>2, <2>3
  <2>5. ASSUME NEW k \in 1..(n + 1) PROVE g[k] = g[k - 1] + SpanLength(Spans[k])
    <3>1. CASE k = n + 1
      BY <2>1, <2>3, <3>1
    <3>2. CASE k # n + 1
      <4>1. k \in 1..n /\ g[k] = f[k] /\ g[k - 1] = f[k - 1]
        BY <2>3, <3>2
      <4> QED
        BY <2>1, <4>1
    <3> QED
      BY <3>1, <3>2
  <2> QED
    BY <2>4, <2>5
<1>4. len \in S
  <2> HIDE DEF S
  <2> QED
    BY <1>2, <1>3, Induct
<1>5. PICK f : Counts(f, len)
  BY <1>4
<1> DEFINE Body(g) == [n \in 0..len |-> IF n = 0 THEN 0 ELSE g[n - 1] + SpanLength(Spans[n])]
<1>6. f = Body(f)
  <2>1. ASSUME NEW n \in 0..len PROVE f[n] = IF n = 0 THEN 0 ELSE f[n - 1] + SpanLength(Spans[n])
    BY <1>5
  <2>2. f = [n \in 0..len |-> f[n]]
    BY <1>5
  <2> QED
    BY <2>1, <2>2
<1>7. CountTo = CHOOSE g : g = Body(g)
  BY <1>1 DEF CountTo
<1>8. CountTo = Body(CountTo)
  BY <1>6, <1>7
<1>9. PICK g : g = CountTo
  OBVIOUS
<1>10. /\ DOMAIN g = 0..len /\ g[0] = 0
       /\ \A n \in 1..len : g[n] = g[n - 1] + SpanLength(Spans[n])
  BY <1>8, <1>9
<1> DEFINE T == {n \in Nat : n <= len => g[n] \in Nat}
<1>11. 0 \in T
  BY <1>10
<1>12. ASSUME NEW n \in Nat, n \in T PROVE n + 1 \in T
  <2> SUFFICES ASSUME n + 1 <= len PROVE g[n + 1] \in Nat
    OBVIOUS
  <2>1. SpanLength(Spans[n + 1]) \in Nat
    BY <1>1, LengthIs
  <2>2. n + 1 \in 1..len /\ (n + 1) - 1 = n
    BY <1>1
  <2>3. g[n + 1] = g[(n + 1) - 1] + SpanLength(Spans[n + 1])
    BY <1>10, <2>2
  <2> QED
    BY <1>12, <2>1, <2>2, <2>3
<1>13. \A n \in 0..len : g[n] \in Nat
  <2>1. Nat \subseteq T
    <3> HIDE DEF T
    <3> QED
      BY <1>11, <1>12, Induct
  <2> QED
    BY <1>1, <2>1
<1>14. g = [n \in 0..len |-> g[n]]
  BY <1>8, <1>9
<1> QED
  BY <1>1, <1>9, <1>10, <1>13, <1>14

LEMMA CountsGrow ==
    ASSUME Spans \in SpanLists, NEW i \in 0..Len(Spans), NEW j \in i..Len(Spans)
    PROVE  CountTo[i] <= CountTo[j]
<1>1. PICK len \in Nat : len = Len(Spans) /\ DOMAIN Spans = 1..len
  BY SpansAre
<1> DEFINE S == {n \in Nat : i + n <= len => CountTo[i] <= CountTo[i + n]}
<1>2. 0 \in S
  BY <1>1, Counting
<1>3. ASSUME NEW n \in Nat, n \in S PROVE n + 1 \in S
  <2> SUFFICES ASSUME i + (n + 1) <= len PROVE CountTo[i] <= CountTo[i + (n + 1)]
    OBVIOUS
  <2>1. PICK k \in 1..len : k = i + (n + 1) /\ k - 1 = i + n /\ k - 1 \in 0..len
    BY <1>1
  <2>2. CountTo[k] = CountTo[k - 1] + SpanLength(Spans[k])
    BY <1>1, Counting
  <2>3. CountTo[i] <= CountTo[k - 1]
    BY <1>1, <1>3, <2>1
  <2>4. CountTo[i] \in Nat /\ CountTo[k - 1] \in Nat /\ SpanLength(Spans[k]) \in Nat
    BY <1>1, <2>1, Counting, LengthIs
  <2>5. CountTo[i] <= CountTo[k]
    BY <2>2, <2>3, <2>4
  <2> QED
    BY <2>1, <2>5
<1>4. j - i \in Nat /\ i + (j - i) = j
  BY <1>1
<1>5. j - i \in S
  <2> HIDE DEF S
  <2> QED
    BY <1>2, <1>3, <1>4, Induct
<1> QED
  BY <1>1, <1>4, <1>5

\* The count is the number of days, since the spans are apart.
LEMMA CountIs ==
    ASSUME Spans \in SpanLists
    PROVE  Count = Cardinality(DaysOf(Spans))
<1>1. PICK len \in Nat : len = Len(Spans) /\ DOMAIN Spans = 1..len
  BY SpansAre
<1> DEFINE D(n) == {d \in Days : \E i \in 1..n : Spans[i].first.day <= d /\ d <= Spans[i].last.day}
           S == {n \in Nat : n <= len => /\ IsFiniteSet(D(n))
                                         /\ Cardinality(D(n)) = CountTo[n]}
<1> HIDE DEF D
<1>2. 0 \in S
  <2>1. D(0) = {}
    BY DEF D
  <2> QED
    BY <2>1, FS_EmptySet, Counting
<1>3. ASSUME NEW n \in Nat, n \in S PROVE n + 1 \in S
  <2> SUFFICES ASSUME n + 1 <= len
               PROVE  IsFiniteSet(D(n + 1)) /\ Cardinality(D(n + 1)) = CountTo[n + 1]
    OBVIOUS
  <2>1. PICK k \in DOMAIN Spans : k = n + 1
    BY <1>1
  <2>2. PICK a \in Days : a = Spans[k].first.day
    BY SpansAre
  <2>3. PICK b \in Days : b = Spans[k].last.day
    BY SpansAre
  <2>4. a \in Int /\ b \in Int /\ a <= b /\ SpanLength(Spans[k]) = b - a + 1
    BY <2>2, <2>3, SpansAre, LengthIs
  <2>5. D(n + 1) = D(n) \cup (a..b)
    <3>1. 1..(n + 1) = 1..n \cup {k}
      BY <2>1
    <3>2. D(n + 1) = D(n) \cup {d \in Days : a <= d /\ d <= b}
      BY <2>2, <2>3, <3>1 DEF D
    <3> QED
      BY <3>2, DaysBetween
  <2>6. D(n) \cap (a..b) = {}
    <3> SUFFICES ASSUME NEW d \in D(n), d \in a..b PROVE FALSE
      OBVIOUS
    <3>1. PICK i \in 1..n : Spans[i].first.day <= d /\ d <= Spans[i].last.day
      BY DEF D
    <3>2. i \in DOMAIN Spans /\ i # k
      BY <1>1, <2>1
    <3>3. Disjoint(Spans[i], Spans[k])
      BY <3>2, SpansAre
    <3>4. d \in Int /\ a <= d /\ d <= b
      BY <2>4
    <3> QED
      BY <2>2, <2>3, <3>1, <3>2, <3>3, <3>4, SpansAre DEF Disjoint
  <2>7. IsFiniteSet(a..b) /\ Cardinality(a..b) = b - a + 1
    BY <2>4, FS_Interval
  <2>8. IsFiniteSet(D(n)) /\ Cardinality(D(n)) = CountTo[n] /\ CountTo[n] \in Nat
    BY <1>1, <1>3, Counting
  <2>9. /\ IsFiniteSet(D(n) \cup (a..b))
        /\ Cardinality(D(n) \cup (a..b)) =
             Cardinality(D(n)) + Cardinality(a..b) - Cardinality(D(n) \cap (a..b))
    BY <2>7, <2>8, FS_Union
  <2>10. Cardinality(D(n) \cap (a..b)) = 0
    BY <2>6, FS_EmptySet
  <2>11. CountTo[n + 1] = CountTo[n] + SpanLength(Spans[k])
    <3>1. k \in 1..Len(Spans) /\ k - 1 = n
      BY <1>1, <2>1
    <3> QED
      BY <2>1, <3>1, Counting
  <2>12. Cardinality(D(n) \cup (a..b)) = CountTo[n] + (b - a + 1) - 0
    BY <2>6, <2>7, <2>8, <2>9, <2>10
  <2>13. CountTo[n + 1] = CountTo[n] + (b - a + 1) - 0
    BY <2>4, <2>8, <2>11
  <2> QED
    BY <2>5, <2>9, <2>12, <2>13
<1>4. len \in S
  <2> HIDE DEF S
  <2> QED
    BY <1>2, <1>3, Induct
<1>5. D(len) = DaysOf(Spans)
  BY <1>1 DEF DaysOf, D
<1>6. Cardinality(D(len)) = CountTo[len]
  BY <1>4
<1> QED
  BY <1>1, <1>5, <1>6 DEF Count

\* Reading the collection by index gives every selected day exactly once.
THEOREM EveryDayIndexed == CalendarSpec => []IndexedOnce
<1>1. CalendarInv => IndexedOnce
  <2> SUFFICES ASSUME CalendarInv PROVE IndexedOnce
    OBVIOUS
  <2>1. Spans \in SpanLists /\ SelectedDays = DaysOf(Spans) /\ (mode = "Interval" => Chained(Spans))
    BY SpansKept, Selection
  <2>2. PICK len \in Nat : len = Len(Spans) /\ DOMAIN Spans = 1..len
    BY <2>1, SpansAre
  <2>3. Count = Cardinality(SelectedDays) /\ Count = CountTo[len]
    BY <2>1, <2>2, CountIs DEF Count
  <2>4. ASSUME NEW j \in DOMAIN Spans
        PROVE  /\ CountTo[j] \in Nat /\ CountTo[j - 1] \in Nat
               /\ CountTo[j] <= Count /\ Count \in Nat
               /\ CountTo[j] = CountTo[j - 1]
                                 + (Spans[j].last.day - Spans[j].first.day + 1)
    <3>1. j \in 1..len /\ j \in 0..Len(Spans) /\ j - 1 \in 0..Len(Spans) /\ len \in j..Len(Spans)
      BY <2>2
    <3>2. CountTo[j] = CountTo[j - 1] + SpanLength(Spans[j])
      BY <2>1, <2>2, Counting
    <3> QED
      BY <2>1, <2>2, <2>3, <3>1, <3>2, Counting, CountsGrow, LengthIs
  <2>5. \A j \in DOMAIN Spans : ~(Count < CountTo[j])
    BY <2>4
  <2>6. DateAt(Count) = {}
    BY <2>5 DEF DateAt
  <2>7. \A i \in DOMAIN Spans : Spans[i].first.time = Spans[i].last.time
    BY <2>1, SpansAre
  <2>8. ASSUME NEW k \in 0..(Count - 1), NEW date \in DateAt(k) PROVE date.day \in SelectedDays
    <3>1. PICK j \in DOMAIN Spans :
            /\ CountTo[j - 1] <= k /\ k < CountTo[j]
            /\ date = Date(Spans[j].first.day + k - CountTo[j - 1], Spans[j].first.time)
      BY DEF DateAt
    <3>2. date.day = Spans[j].first.day + k - CountTo[j - 1]
      BY <3>1 DEF Date
    <3>3. /\ date.day \in Int
          /\ Spans[j].first.day <= date.day /\ date.day <= Spans[j].last.day
      <4>1. PICK from \in Int, to \in Int :
                   from = Spans[j].first.day /\ to = Spans[j].last.day
        BY <2>1, SpansAre
      <4>2. PICK before \in Nat, upto \in Nat :
                   before = CountTo[j - 1] /\ upto = CountTo[j]
        BY <2>4
      <4>3. upto = before + (to - from + 1) /\ before <= k /\ k < upto /\ k \in Int
        BY <2>4, <3>1, <4>1, <4>2
      <4>4. date.day = from + k - before
        BY <3>2, <4>1, <4>2
      <4> QED
        BY ONLY <4>1, <4>3, <4>4
    <3>4. date.day \in Days
      BY <2>1, <3>3, SpansAre, Between
    <3> QED
      BY <2>1, <3>3, <3>4 DEF DaysOf
  <2>9. ASSUME NEW d \in SelectedDays
        PROVE  \E k \in 0..(Count - 1) : \E date \in DateAt(k) : date.day = d
    <3>1. PICK j \in DOMAIN Spans : Spans[j].first.day <= d /\ d <= Spans[j].last.day
      BY <2>1 DEF DaysOf
    <3>2. d \in Int
      BY DaysAssumption DEF SelectedDays
    <3>3. PICK k : k = CountTo[j - 1] + (d - Spans[j].first.day)
      OBVIOUS
    <3>4. /\ k \in 0..(Count - 1) /\ CountTo[j - 1] <= k /\ k < CountTo[j]
          /\ Spans[j].first.day + k - CountTo[j - 1] = d
      <4>1. PICK a \in Int : a = Spans[j].first.day
        BY <2>1, SpansAre
      <4>2. PICK b \in Int : b = Spans[j].last.day
        BY <2>1, SpansAre
      <4>3. PICK c \in Nat : c = CountTo[j - 1]
        BY <2>4
      <4>4. /\ CountTo[j] = c + (b - a + 1) /\ CountTo[j] <= Count /\ Count \in Nat
            /\ a <= d /\ d <= b
        BY <2>4, <3>1, <4>1, <4>2, <4>3
      <4>5. k = c + (d - a) /\ k \in Int
        BY <3>2, <3>3, <4>1, <4>3
      <4>6. a + k - c = d /\ c <= k /\ k < c + (b - a + 1) /\ k \in 0..(Count - 1)
        BY <3>2, <4>4, <4>5
      <4> QED
        BY <4>1, <4>3, <4>4, <4>6
    <3>5. Date(Spans[j].first.day + k - CountTo[j - 1], Spans[j].first.time) \in DateAt(k)
      BY <3>4 DEF DateAt
    <3>6. Date(Spans[j].first.day + k - CountTo[j - 1], Spans[j].first.time).day = d
      BY <3>4 DEF Date
    <3> QED
      BY <3>4, <3>5, <3>6
  <2>10. {date.day : date \in UNION {DateAt(i) : i \in 0..(Count - 1)}} = SelectedDays
    BY <2>8, <2>9
  <2> QED
    BY <2>1, <2>3, <2>6, <2>7, <2>10 DEF IndexedOnce, Chained
<1> QED
  BY <1>1, CalendarInvariant, PTL
=============================================================================
