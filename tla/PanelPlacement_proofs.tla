------------------------ MODULE PanelPlacement_proofs ------------------------
(***************************************************************************)
(* Proofs about PanelPlacement, for every number of controls and pages:    *)
(* display order, tab order and default controls do not disturb each       *)
(* other, and they come back from Form.bin.                                *)
(***************************************************************************)
EXTENDS PanelPlacement, DataInduction

-----------------------------------------------------------------------------
(* Rows: sequences of controls, each of which is there once.               *)

IsRow(s) ==
    /\ s \in Seq(Controls)
    /\ \A i, j \in DOMAIN s : s[i] = s[j] => i = j

LEMMA RowIs ==
    ASSUME NEW s, IsRow(s)
    PROVE  /\ Len(s) \in Nat /\ DOMAIN s = 1..Len(s)
           /\ Range(s) \subseteq Controls /\ IsFiniteSet(Range(s))
           /\ \A i \in DOMAIN s : s[i] \in Range(s) /\ Place(s, s[i]) = i
           /\ \A c \in Range(s) : Place(s, c) \in DOMAIN s /\ s[Place(s, c)] = c
<1>1. s \in Seq(Controls) /\ \A i, j \in DOMAIN s : s[i] = s[j] => i = j
  BY DEF IsRow
<1>2. Len(s) \in Nat /\ DOMAIN s = 1..Len(s) /\ Range(s) \subseteq Controls
  BY <1>1 DEF Range
<1>3. IsFiniteSet(Range(s))
  BY <1>2, PlacementAssumption, FS_Subset
<1>4. ASSUME NEW i \in DOMAIN s PROVE s[i] \in Range(s) /\ Place(s, s[i]) = i
  BY <1>1 DEF Range, Place
<1>5. ASSUME NEW c \in Range(s) PROVE Place(s, c) \in DOMAIN s /\ s[Place(s, c)] = c
  <2>1. \E i \in DOMAIN s : s[i] = c
    BY DEF Range
  <2> QED
    BY <2>1 DEF Place
<1> QED
  BY <1>2, <1>3, <1>4, <1>5

\* A row has as many places as controls.
LEMMA RowCount ==
    ASSUME NEW s, IsRow(s)
    PROVE  Cardinality(Range(s)) = Len(s)
<1>1. PICK n \in Nat : n = Len(s) /\ DOMAIN s = 1..n
  BY RowIs
<1>2. s \in [1..n -> Range(s)]
  <2>1. s = [i \in 1..n |-> s[i]]
    BY <1>1 DEF IsRow
  <2>2. \A i \in 1..n : s[i] \in Range(s)
    BY <1>1, RowIs
  <2> QED
    BY <2>1, <2>2
<1>3. s \in Injection(1..n, Range(s))
  BY <1>1, <1>2 DEF IsRow, Injection, IsInjective
<1>4. s \in Surjection(1..n, Range(s))
  BY <1>1, <1>2, Zenon DEF Surjection, Range
<1> QED
  BY <1>1, <1>3, <1>4, FS_CountingElements DEF ExistsBijection, Bijection

\* The orders of the finite set T.
LEMMA EnumerationIs ==
    ASSUME NEW T \in SUBSET Controls, NEW s \in SetToSeqs(T)
    PROVE  IsRow(s) /\ Range(s) = T /\ Len(s) = Cardinality(T)
<1>1. IsFiniteSet(T)
  BY PlacementAssumption, FS_Subset
<1>2. PICK n \in Nat : n = Cardinality(T)
  BY <1>1, FS_CardinalityType
<1>3. s \in [1..n -> T] /\ \A i, j \in 1..n : i # j => s[i] # s[j]
  BY <1>2 DEF SetToSeqs
<1>4. IsRow(s) /\ Len(s) = n /\ DOMAIN s = 1..n
  BY <1>3 DEF IsRow
<1>5. IsFiniteSet(1..n) /\ Cardinality(1..n) = n
  BY FS_Interval
<1>6. s \in Injection(1..n, T)
  BY <1>3, <1>4 DEF Injection, IsInjective, IsRow
<1>7. s \in Surjection(1..n, T)
  BY <1>1, <1>2, <1>5, <1>6, FS_Injection
<1>8. Range(s) = T
  BY <1>3, <1>4, <1>7 DEF Surjection, Range
<1> QED
  BY <1>2, <1>4, <1>8

-----------------------------------------------------------------------------
(* A control moves in its row.                                             *)

\* The first k elements of s, those from the k-th on, and two sequences joined.
IsBeginning(p, s, V, k) ==
    p \in Seq(V) /\ Len(p) = k /\ \A i \in 1..k : p[i] = s[i]

IsRest(p, s, V, a, k) ==
    p \in Seq(V) /\ Len(p) = k /\ \A i \in 1..k : p[i] = s[a + i - 1]

IsPair(p, a, b, V, m, k) ==
    /\ p \in Seq(V) /\ Len(p) = m + k
    /\ \A i \in 1..(m + k) : p[i] = IF i <= m THEN a[i] ELSE b[i - m]

LEMMA RestIs ==
    ASSUME NEW V, NEW s \in Seq(V), NEW n \in Nat, n = Len(s),
           NEW a \in Nat, NEW k \in Nat, a >= 1, a + k = n + 1
    PROVE  IsRest(SubSeq(s, a, n), s, V, a, k)
<1>1. \A i \in 1..n : s[i] \in V
  OBVIOUS
<1>2. n - a + 1 = k /\ \A i \in 1..k : a + i - 1 \in 1..n /\ a + i - 1 = i + a - 1
  OBVIOUS
<1>3. SubSeq(s, a, n) = [i \in 1..(n - a + 1) |-> s[i + a - 1]]
  OBVIOUS
<1>4. PICK p : p = [i \in 1..k |-> s[a + i - 1]]
  OBVIOUS
<1>5. p = SubSeq(s, a, n)
  <2>1. [i \in 1..k |-> s[i + a - 1]] = [i \in 1..k |-> s[a + i - 1]]
    BY <1>2
  <2> QED
    BY <1>2, <1>3, <1>4, <2>1
<1>6. p \in Seq(V) /\ Len(p) = k
  <2>1. p \in [1..k -> V]
    BY <1>1, <1>2, <1>4
  <2> QED
    BY <2>1
<1> QED
  BY <1>4, <1>5, <1>6 DEF IsRest

LEMMA BeginningIs ==
    ASSUME NEW V, NEW s \in Seq(V), NEW k \in Nat, k <= Len(s)
    PROVE  IsBeginning(SubSeq(s, 1, k), s, V, k)
<1>1. \A i \in 1..Len(s) : s[i] \in V
  OBVIOUS
<1> QED
  BY <1>1 DEF IsBeginning

LEMMA PairIs ==
    ASSUME NEW V, NEW a \in Seq(V), NEW b \in Seq(V), NEW m \in Nat, NEW k \in Nat,
           Len(a) = m, Len(b) = k
    PROVE  IsPair(a \o b, a, b, V, m, k)
BY DEF IsPair

IsShorter(p, s, V, n, at) ==
    /\ p \in Seq(V) /\ Len(p) = n
    /\ \A i \in 1..n : p[i] = IF i < at THEN s[i] ELSE s[i + 1]

LEMMA RemoveAtIs ==
    ASSUME NEW V, NEW s \in Seq(V), NEW n \in Nat, Len(s) = n + 1, NEW at \in 1..(n + 1)
    PROVE  IsShorter(RemoveAt(s, at), s, V, n, at)
<1>1. PICK m \in Nat, k \in Nat, next \in Nat, w \in Nat :
           m + 1 = at /\ at - 1 = m /\ at + k = n + 1 /\ m + k = n /\ next = at + 1 /\ w = n + 1
  <2>1. at - 1 \in Nat /\ n + 1 - at \in Nat /\ at + 1 \in Nat /\ n + 1 \in Nat
    OBVIOUS
  <2> QED
    BY <2>1
<1>2. PICK a : a = SubSeq(s, 1, m) /\ IsBeginning(a, s, V, m)
  <2>1. m <= Len(s)
    BY <1>1
  <2> QED
    BY <2>1, BeginningIs
<1>3. PICK b : b = SubSeq(s, next, w) /\ IsRest(b, s, V, next, k)
  <2>1. next >= 1 /\ next + k = w + 1 /\ w = Len(s)
    BY <1>1
  <2> QED
    BY <2>1, RestIs
<1>4. IsPair(a \o b, a, b, V, m, k)
  BY <1>2, <1>3, PairIs DEF IsBeginning, IsRest
<1>5. RemoveAt(s, at) = a \o b
  BY <1>1, <1>2, <1>3 DEF RemoveAt
<1>6. ASSUME NEW i \in 1..n PROVE (a \o b)[i] = IF i < at THEN s[i] ELSE s[i + 1]
  <2>1. CASE i < at
    <3>1. i <= m /\ i \in 1..m /\ i \in 1..(m + k)
      BY <1>1, <2>1
    <3> QED
      BY <1>2, <1>4, <2>1, <3>1 DEF IsPair, IsBeginning
  <2>2. CASE ~(i < at)
    <3>1. PICK j \in 1..k : j = i - m /\ ~(i <= m) /\ i \in 1..(m + k) /\ next + j - 1 = i + 1
      BY <1>1, <2>2
    <3>2. (a \o b)[i] = b[j] /\ b[j] = s[next + j - 1]
      BY <1>3, <1>4, <3>1 DEF IsPair, IsRest
    <3> QED
      BY <2>2, <3>1, <3>2
  <2> QED
    BY <2>1, <2>2
<1> QED
  BY <1>1, <1>4, <1>5, <1>6 DEF IsPair, IsShorter

IsLonger(p, s, V, n, at, e) ==
    /\ p \in Seq(V) /\ Len(p) = n + 1
    /\ \A i \in 1..(n + 1) :
         p[i] = IF i < at THEN s[i] ELSE IF i = at THEN e ELSE s[i - 1]

LEMMA InsertAtIs ==
    ASSUME NEW V, NEW s \in Seq(V), NEW n \in Nat, Len(s) = n, NEW at \in 1..(n + 1), NEW e \in V
    PROVE  IsLonger(InsertAt(s, at, e), s, V, n, at, e)
<1>1. PICK m \in Nat, k \in Nat : m + 1 = at /\ at - 1 = m /\ at + k = n + 1 /\ m + k = n
  <2>1. at - 1 \in Nat /\ n + 1 - at \in Nat
    OBVIOUS
  <2>2. (at - 1) + 1 = at /\ at + (n + 1 - at) = n + 1 /\ (at - 1) + (n + 1 - at) = n
    OBVIOUS
  <2> QED
    BY <2>1, <2>2
<1>2. PICK a : a = SubSeq(s, 1, m) /\ IsBeginning(a, s, V, m)
  <2>1. m <= Len(s)
    BY <1>1
  <2> QED
    BY <2>1, BeginningIs
<1>3. PICK b : b = SubSeq(s, at, n) /\ IsRest(b, s, V, at, k)
  <2>1. at \in Nat /\ at >= 1 /\ at + k = n + 1 /\ n = Len(s)
    BY <1>1
  <2> QED
    BY <2>1, RestIs
<1>4. PICK c \in Seq(V) : c = <<e>> /\ Len(c) = 1 /\ c[1] = e
  <2>1. <<e>> \in Seq(V) /\ Len(<<e>>) = 1 /\ <<e>>[1] = e
    OBVIOUS
  <2> QED
    BY <2>1
<1>5. PICK d : d = a \o c /\ IsPair(d, a, c, V, m, 1)
  BY <1>2, <1>4, PairIs DEF IsBeginning
<1>6. IsPair(d \o b, d, b, V, at, k)
  <2>1. d \in Seq(V) /\ Len(d) = at /\ at \in Nat
    BY <1>1, <1>5 DEF IsPair
  <2> QED
    BY <1>3, <2>1, PairIs DEF IsRest
<1>7. InsertAt(s, at, e) = d \o b
  BY <1>1, <1>2, <1>3, <1>4, <1>5 DEF InsertAt
<1>8. ASSUME NEW i \in 1..(n + 1)
      PROVE (d \o b)[i] = IF i < at THEN s[i] ELSE IF i = at THEN e ELSE s[i - 1]
  <2>1. CASE i < at
    <3>1. i <= m /\ i \in 1..m /\ i \in 1..(m + 1) /\ i <= at /\ i \in 1..(at + k)
      BY <1>1, <2>1
    <3> QED
      BY <1>2, <1>5, <1>6, <2>1, <3>1 DEF IsPair, IsBeginning
  <2>2. CASE i = at
    <3>1. ~(i <= m) /\ i - m = 1 /\ i \in 1..(m + 1) /\ i <= at /\ i \in 1..(at + k) /\ ~(i < at)
      BY <1>1, <2>2
    <3>2. (d \o b)[i] = d[i] /\ d[i] = c[1]
      BY <1>5, <1>6, <3>1 DEF IsPair
    <3> QED
      BY <1>4, <2>2, <3>1, <3>2
  <2>3. CASE i > at
    <3>1. PICK j \in 1..k : /\ j = i - at /\ ~(i <= at) /\ i \in 1..(at + k)
                            /\ at + j - 1 = i - 1 /\ ~(i < at) /\ i # at
      <4>1. i - at \in 1..k /\ at + (i - at) - 1 = i - 1
        BY <1>1, <2>3
      <4> QED
        BY <1>1, <2>3, <4>1
    <3>2. (d \o b)[i] = b[j] /\ b[j] = s[at + j - 1]
      BY <1>3, <1>6, <3>1 DEF IsPair, IsRest
    <3> QED
      BY <3>1, <3>2
  <2>4. i < at \/ i = at \/ i > at
    BY <1>1
  <2> QED
    BY <2>1, <2>2, <2>3, <2>4
<1> QED
  BY <1>1, <1>6, <1>7, <1>8 DEF IsPair, IsLonger

LEMMA ShiftedIs ==
    ASSUME NEW n \in Nat, NEW a \in 1..n, NEW b \in 1..n
    PROVE  /\ \A i \in 1..n : Shifted(i, a, b) \in 1..n
           /\ \A i \in 1..n : Shifted(Shifted(i, a, b), b, a) = i
           /\ \A i, j \in 1..n \ {a} : i < j => Shifted(i, a, b) < Shifted(j, a, b)
           /\ Shifted(a, a, b) = b
BY DEF Shifted

\* The control at place i goes to the place to which the move shifts it.
LEMMA MovedIs ==
    ASSUME NEW s, IsRow(s), NEW from \in DOMAIN s, NEW to \in DOMAIN s
    PROVE  /\ Moved(s, from, to) \in Seq(Controls) /\ Len(Moved(s, from, to)) = Len(s)
           /\ \A i \in DOMAIN s : Moved(s, from, to)[i] = s[Shifted(i, to, from)]
<1>1. PICK n \in Nat : /\ Len(s) = n + 1 /\ DOMAIN s = 1..(n + 1)
                       /\ from \in 1..(n + 1) /\ to \in 1..(n + 1)
  <2>1. Len(s) - 1 \in Nat /\ DOMAIN s = 1..Len(s) /\ Len(s) = (Len(s) - 1) + 1
    BY RowIs
  <2> QED
    BY <2>1
<1>2. s \in Seq(Controls) /\ s[from] \in Controls
  BY <1>1 DEF IsRow
<1>3. PICK left : left = RemoveAt(s, from) /\ IsShorter(left, s, Controls, n, from)
  BY <1>1, <1>2, RemoveAtIs
<1>4. PICK moved : /\ moved = InsertAt(left, to, s[from])
                   /\ IsLonger(moved, left, Controls, n, to, s[from])
  BY <1>1, <1>2, <1>3, InsertAtIs DEF IsShorter
<1>5. ASSUME NEW i \in 1..(n + 1) PROVE moved[i] = s[Shifted(i, to, from)]
  <2>1. CASE i < to
    <3>1. i \in 1..n
      BY <1>1, <2>1
    <3>2. moved[i] = IF i < from THEN s[i] ELSE s[i + 1]
      BY <1>3, <1>4, <2>1, <3>1 DEF IsShorter, IsLonger
    <3> QED
      BY <1>1, <2>1, <3>2 DEF Shifted
  <2>2. CASE i = to
    BY <1>4, <2>2 DEF Shifted, IsLonger
  <2>3. CASE i > to
    <3>1. i - 1 \in 1..n /\ (i - 1) + 1 = i /\ ~(i < to) /\ i # to
      BY <1>1, <2>3
    <3>2. moved[i] = IF i - 1 < from THEN s[i - 1] ELSE s[i]
      BY <1>3, <1>4, <3>1 DEF IsShorter, IsLonger
    <3> QED
      BY <1>1, <2>3, <3>2 DEF Shifted
  <2> QED
    BY <1>1, <2>1, <2>2, <2>3
<1> QED
  BY <1>1, <1>3, <1>4, <1>5 DEF Moved, IsLonger

LEMMA MovedRow ==
    ASSUME NEW s, IsRow(s), NEW from \in DOMAIN s, NEW to \in DOMAIN s
    PROVE  /\ IsRow(Moved(s, from, to)) /\ Range(Moved(s, from, to)) = Range(s)
           /\ DOMAIN Moved(s, from, to) = DOMAIN s
<1>1. PICK n \in Nat : n = Len(s) /\ DOMAIN s = 1..n /\ from \in 1..n /\ to \in 1..n
  BY RowIs
<1>2. PICK m : /\ m = Moved(s, from, to) /\ m \in Seq(Controls) /\ DOMAIN m = 1..n
               /\ \A i \in 1..n : m[i] = s[Shifted(i, to, from)]
  <2>1. \A i \in DOMAIN s : Moved(s, from, to)[i] = s[Shifted(i, to, from)]
    BY MovedIs
  <2>2. Moved(s, from, to) \in Seq(Controls) /\ Len(Moved(s, from, to)) = n
    BY <1>1, MovedIs
  <2>3. DOMAIN Moved(s, from, to) = 1..n
    BY <2>2
  <2> QED
    BY <1>1, <2>1, <2>2, <2>3
<1>3. /\ \A i \in 1..n : Shifted(i, to, from) \in 1..n /\ Shifted(i, from, to) \in 1..n
      /\ \A i \in 1..n : Shifted(Shifted(i, to, from), from, to) = i
      /\ \A i \in 1..n : Shifted(Shifted(i, from, to), to, from) = i
  <2>1. \A i \in 1..n : Shifted(i, to, from) \in 1..n /\ Shifted(Shifted(i, to, from), from, to) = i
    BY <1>1, ShiftedIs
  <2>2. \A i \in 1..n : Shifted(i, from, to) \in 1..n /\ Shifted(Shifted(i, from, to), to, from) = i
    BY <1>1, ShiftedIs
  <2> QED
    BY <2>1, <2>2
<1>4. ASSUME NEW i \in 1..n, NEW j \in 1..n, m[i] = m[j] PROVE i = j
  <2>1. Shifted(i, to, from) = Shifted(j, to, from)
    BY <1>1, <1>2, <1>3, <1>4 DEF IsRow
  <2> QED
    BY <1>3, <2>1
<1>5. ASSUME NEW i \in 1..n PROVE m[i] \in Range(s) /\ s[i] \in Range(m)
  <2>1. m[i] = s[Shifted(i, to, from)]
    BY <1>2
  <2>2. m[Shifted(i, from, to)] = s[i]
    BY <1>2, <1>3
  <2> QED
    <3>1. m[i] \in Range(s)
      BY <1>1, <1>3, <2>1, RowIs
    <3>2. PICK j \in DOMAIN m : m[j] = s[i]
      BY <1>2, <1>3, <2>2
    <3>3. s[i] \in Range(m)
      BY <3>2, Zenon DEF Range
    <3> QED
      BY <3>1, <3>3
<1>6. Range(m) = Range(s)
  <2>1. \A c \in Range(m) : \E i \in 1..n : m[i] = c
    BY <1>2, Zenon DEF Range
  <2>2. \A c \in Range(s) : \E i \in 1..n : s[i] = c
    BY <1>1, Zenon DEF Range
  <2> QED
    BY <1>5, <2>1, <2>2
<1> QED
  BY <1>1, <1>2, <1>4, <1>6 DEF IsRow

-----------------------------------------------------------------------------
(* Tab orders of a row that are a permutation of its places.  The tab      *)
(* orders t are a parameter, to speak of them before and after a step.     *)

ShownIn(t, s, i) == IF t[s[i]] = Implicit THEN i ELSE t[s[i]]

OrderedIn(t, s) == Range([i \in DOMAIN s |-> ShownIn(t, s, i)]) = DOMAIN s

LEMMA OrderedIs ==
    ASSUME NEW t, NEW s, IsRow(s), OrderedIn(t, s)
    PROVE  /\ \A i \in DOMAIN s : ShownIn(t, s, i) \in DOMAIN s
           /\ \A i, j \in DOMAIN s : ShownIn(t, s, i) = ShownIn(t, s, j) => i = j
           /\ \A v \in DOMAIN s : \E i \in DOMAIN s : ShownIn(t, s, i) = v
<1> DEFINE f == [i \in DOMAIN s |-> ShownIn(t, s, i)]
<1>1. PICK n \in Nat : n = Len(s) /\ DOMAIN s = 1..n
  BY RowIs
<1>2. Range(f) = DOMAIN s
  BY DEF OrderedIn
<1>3. \A i \in DOMAIN s : f[i] = ShownIn(t, s, i)
  OBVIOUS
<1>4. DOMAIN f = DOMAIN s
  OBVIOUS
<1>5. f = [i \in DOMAIN s |-> f[i]]
  OBVIOUS
<1> HIDE DEF f
<1>6. /\ \A i \in DOMAIN s : f[i] \in DOMAIN s
      /\ \A v \in DOMAIN s : \E i \in DOMAIN s : f[i] = v
  BY <1>2, <1>4 DEF Range
<1>7. f \in [1..n -> 1..n]
  BY <1>1, <1>5, <1>6
<1>8. f \in Surjection(1..n, 1..n)
  BY <1>1, <1>6, <1>7 DEF Surjection
<1>9. IsFiniteSet(1..n)
  BY FS_Interval
<1>10. f \in Injection(1..n, 1..n)
  BY <1>8, <1>9, FS_SurjSameCardinalityImpliesInj
<1>11. \A i, j \in DOMAIN s : f[i] = f[j] => i = j
  BY <1>1, <1>7, <1>10 DEF Injection, IsInjective
<1>12. /\ \A i \in DOMAIN s : ShownIn(t, s, i) \in DOMAIN s
       /\ \A v \in DOMAIN s : \E i \in DOMAIN s : ShownIn(t, s, i) = v
  BY <1>3, <1>6
<1>13. ASSUME NEW i \in DOMAIN s, NEW j \in DOMAIN s, ShownIn(t, s, i) = ShownIn(t, s, j)
       PROVE  i = j
  BY <1>3, <1>11, <1>13
<1> QED
  BY <1>12, <1>13

-----------------------------------------------------------------------------
(* The pages.  Their children and SeparateByPage are parameters.           *)

IsPanel(ch) ==
    /\ ch \in [1..Pages -> Seq(Controls)]
    /\ \A p \in 1..Pages : IsRow(ch[p])
    /\ \A p, q \in 1..Pages : \A c \in Range(ch[p]) : c \in Range(ch[q]) => p = q
    /\ \A c \in Controls : \E p \in 1..Pages : c \in Range(ch[p])

PageIn(ch, c) == CHOOSE p \in 1..Pages : c \in Range(ch[p])
GroupIn(ch, sh, c) == IF sh THEN FlattenSeq(ch) ELSE ch[PageIn(ch, c)]

\* One page has the row s, the others have nothing.
OnlyPage(q, s) == [p \in 1..Pages |-> IF p = q THEN s ELSE <<>>]

LEMMA PageIs ==
    ASSUME NEW ch, IsPanel(ch), NEW c \in Controls
    PROVE  /\ PageIn(ch, c) \in 1..Pages /\ c \in Range(ch[PageIn(ch, c)])
           /\ \A p \in 1..Pages : c \in Range(ch[p]) => p = PageIn(ch, c)
<1>1. \E p \in 1..Pages : c \in Range(ch[p])
  BY DEF IsPanel
<1>2. PageIn(ch, c) \in 1..Pages /\ c \in Range(ch[PageIn(ch, c)])
  BY <1>1 DEF PageIn
<1> QED
  BY <1>2 DEF IsPanel

LEMMA PanelJoins ==
    ASSUME NEW ch \in [1..Pages -> Seq(Controls)]
    PROVE  /\ ch \in Seq(Seq(Controls)) /\ Len(ch) = Pages
           /\ \E g : Joins(g, ch, Controls)
<1>1. Pages \in Nat
  BY PlacementAssumption
<1>2. ch \in Seq(Seq(Controls)) /\ Len(ch) = Pages
  BY <1>1
<1> QED
  BY <1>2, JoiningExists

\* The area of a panel that is not separated by page has every control once.
LEMMA AreaIs ==
    ASSUME NEW ch, IsPanel(ch)
    PROVE  IsRow(FlattenSeq(ch)) /\ Range(FlattenSeq(ch)) = Controls
<1>1. /\ ch \in [1..Pages -> Seq(Controls)] /\ ch \in Seq(Seq(Controls))
      /\ Len(ch) = Pages
  BY PanelJoins DEF IsPanel
<1>2. PICK g : Joins(g, ch, Controls)
  BY <1>1, PanelJoins
<1>3. PICK f \in Seq(Controls) : f = FlattenSeq(ch)
  BY <1>1, JoiningWhole
<1>4. PICK n \in Nat : n = Len(f) /\ DOMAIN f = 1..n
  OBVIOUS
<1>5. ASSUME NEW k \in 1..Pages
      PROVE  /\ Len(ch[k]) \in Nat /\ Len(g[k - 1]) \in Nat /\ Len(g[k - 1]) + Len(ch[k]) <= n
             /\ \A p \in 1..Len(ch[k]) : f[Len(g[k - 1]) + p] = ch[k][p]
  <2>1. JoinsAt(g, ch, Controls, k)
    BY <1>1, <1>2, JoinedAt
  <2> QED
    <3>1. PICK a \in Nat, b \in Nat : a = Len(g[k - 1]) /\ b = Len(ch[k])
      BY <2>1 DEF JoinsAt
    <3>2. Len(g[k]) = a + b /\ Len(g[k]) <= n
      BY <1>3, <1>4, <2>1, <3>1 DEF JoinsAt
    <3>3. \A p \in 1..b : f[a + p] = ch[k][p]
      BY <1>3, <2>1, <3>1 DEF JoinsAt
    <3> QED
      BY <3>1, <3>2, <3>3
<1>6. \A x \in 1..n : \E k \in 1..Pages : \E p \in 1..Len(ch[k]) : x = Len(g[k - 1]) + p
  <2>1. ch \in Seq(Seq(Controls)) /\ Joins(g, ch, Controls)
    BY <1>1, <1>2
  <2>2. ASSUME NEW x \in 1..Len(FlattenSeq(ch)) PROVE IsFrom(x, g, ch)
    BY <2>1, JoinedFrom
  <2> QED
    BY <1>1, <1>3, <1>4, <2>2 DEF IsFrom
<1>7. ASSUME NEW x \in 1..n, NEW y \in 1..n, f[x] = f[y] PROVE x = y
  <2>1. PICK k \in 1..Pages : \E p \in 1..Len(ch[k]) : x = Len(g[k - 1]) + p
    BY <1>6
  <2>2. PICK p \in 1..Len(ch[k]) : x = Len(g[k - 1]) + p
    BY <2>1
  <2>3. PICK l \in 1..Pages : \E q \in 1..Len(ch[l]) : y = Len(g[l - 1]) + q
    BY <1>6
  <2>4. PICK q \in 1..Len(ch[l]) : y = Len(g[l - 1]) + q
    BY <2>3
  <2>5. ch[k][p] = ch[l][q]
    BY <1>5, <1>7, <2>2, <2>4
  <2>6. /\ IsRow(ch[k]) /\ IsRow(ch[l]) /\ p \in DOMAIN ch[k] /\ q \in DOMAIN ch[l]
        /\ ch[k][p] \in Range(ch[k]) /\ ch[l][q] \in Range(ch[l])
    BY RowIs DEF IsPanel
  <2>7. k = l
    BY <2>5, <2>6 DEF IsPanel
  <2>8. p = q
    BY <2>5, <2>6, <2>7 DEF IsRow
  <2> QED
    BY <2>2, <2>4, <2>7, <2>8
<1>8. IsRow(f)
  BY <1>4, <1>7 DEF IsRow
<1>9. ASSUME NEW c \in Controls PROVE c \in Range(f)
  <2>1. PICK k \in 1..Pages : c \in Range(ch[k])
    BY DEF IsPanel
  <2>2. IsRow(ch[k])
    BY DEF IsPanel
  <2>3. PICK p \in 1..Len(ch[k]) : ch[k][p] = c
    BY <2>1, <2>2, RowIs
  <2>4. PICK a \in Nat, b \in Nat : a = Len(g[k - 1]) /\ b = Len(ch[k])
    BY <1>5
  <2>5. a + p \in 1..n /\ f[a + p] = c
    <3>1. a + b <= n /\ p \in 1..b
      BY <1>5, <2>3, <2>4
    <3>2. f[a + p] = ch[k][p]
      BY <1>5, <2>3, <2>4
    <3> QED
      BY <1>4, <2>3, <3>1, <3>2
  <2> QED
    BY <1>4, <1>8, <2>5, RowIs
<1> QED
  BY <1>3, <1>8, <1>9, RowIs

\* A panel that has its controls on one page.
LEMMA OnlyPageIs ==
    ASSUME NEW q \in 1..Pages, NEW s, IsRow(s), Range(s) = Controls
    PROVE  IsPanel(OnlyPage(q, s)) /\ FlattenSeq(OnlyPage(q, s)) = s
<1>1. PICK ch : ch = OnlyPage(q, s)
  OBVIOUS
<1>2. /\ s \in Seq(Controls) /\ ch[q] = s
      /\ \A p \in 1..Pages : p # q => ch[p] = <<>>
      /\ ch \in [1..Pages -> Seq(Controls)]
  BY <1>1 DEF IsRow, OnlyPage
<1>3. \A p \in 1..Pages : p # q => IsRow(ch[p]) /\ Range(ch[p]) = {}
  BY <1>2 DEF IsRow, Range
<1>4. IsPanel(ch)
  BY <1>2, <1>3 DEF IsPanel
<1>5. ch \in Seq(Seq(Controls)) /\ Len(ch) = Pages
  BY <1>2, PanelJoins
<1>6. PICK g : Joins(g, ch, Controls)
  BY <1>2, PanelJoins
<1>7. /\ g[0] = <<>> /\ FlattenSeq(ch) = g[Pages]
      /\ \A k \in 1..Pages : g[k] = g[k - 1] \o ch[k]
  BY <1>5, <1>6 DEF Joins
<1> DEFINE S == {k \in Nat : k <= Pages => g[k] = IF k < q THEN <<>> ELSE s}
<1>8. 0 \in S
  BY <1>7
<1>9. ASSUME NEW m \in Nat, m \in S PROVE m + 1 \in S
  <2> SUFFICES ASSUME m + 1 <= Pages PROVE g[m + 1] = IF m + 1 < q THEN <<>> ELSE s
    OBVIOUS
  <2>1. PICK k \in 1..Pages : k = m + 1 /\ k - 1 = m
    BY PlacementAssumption
  <2>2. g[m] = IF m < q THEN <<>> ELSE s
    <3>1. m <= Pages
      BY <2>1, PlacementAssumption
    <3> QED
      BY <1>9, <3>1
  <2>3. g[k] = g[m] \o ch[k]
    BY <1>7, <2>1
  <2>4. <<>> \o s = s /\ s \o <<>> = s /\ <<>> \o <<>> = <<>>
    BY <1>2, EmptyIsNeutral
  <2>5. CASE k = q
    <3>1. g[m] = <<>> /\ ch[k] = s /\ ~(k < q)
      BY <1>2, <2>1, <2>2, <2>5
    <3> QED
      BY <2>1, <2>3, <2>4, <3>1
  <2>6. CASE k # q
    <3>1. ch[k] = <<>> /\ (m < q <=> k < q)
      BY <1>2, <2>1, <2>6
    <3> QED
      BY <2>1, <2>2, <2>3, <2>4, <3>1
  <2> QED
    BY <2>5, <2>6
<1> HIDE DEF S
<1>10. Nat \subseteq S
  BY <1>8, <1>9, Induct
<1>11. g[Pages] = s
  <2>1. Pages \in Nat /\ ~(Pages < q)
    BY PlacementAssumption
  <2> QED
    BY <1>10, <2>1 DEF S
<1> QED
  BY <1>1, <1>4, <1>7, <1>11

\* A page in another order.
LEMMA PageArranged ==
    ASSUME NEW ch, IsPanel(ch), NEW q \in 1..Pages, NEW s, IsRow(s), Range(s) = Range(ch[q]),
           NEW new, new = [p \in 1..Pages |-> IF p = q THEN s ELSE ch[p]]
    PROVE  /\ IsPanel(new)
           /\ \A c \in Controls : PageIn(new, c) = PageIn(ch, c)
<1>1. \A p \in 1..Pages : Range(new[p]) = Range(ch[p]) /\ IsRow(new[p])
  BY DEF IsPanel
<1>2. new \in [1..Pages -> Seq(Controls)]
  BY DEF IsPanel, IsRow
<1>3. IsPanel(new)
  BY <1>1, <1>2 DEF IsPanel
<1>4. ASSUME NEW c \in Controls PROVE PageIn(new, c) = PageIn(ch, c)
  BY <1>1, <1>3, PageIs
<1> QED
  BY <1>3, <1>4

\* The group of a control is a row, and the group of every control in it.
LEMMA GroupIs ==
    ASSUME NEW ch, IsPanel(ch), NEW sh \in BOOLEAN, NEW c \in Controls
    PROVE  /\ IsRow(GroupIn(ch, sh, c)) /\ c \in Range(GroupIn(ch, sh, c))
           /\ \A x \in Range(GroupIn(ch, sh, c)) : GroupIn(ch, sh, x) = GroupIn(ch, sh, c)
           /\ \A x \in Controls : x \in Range(GroupIn(ch, sh, c)) <=>
                                  sh \/ PageIn(ch, x) = PageIn(ch, c)
<1>1. CASE sh
  <2>1. \A x \in Controls : GroupIn(ch, sh, x) = FlattenSeq(ch)
    BY <1>1 DEF GroupIn
  <2>2. IsRow(FlattenSeq(ch)) /\ Range(FlattenSeq(ch)) = Controls
    BY AreaIs
  <2> QED
    BY <1>1, <2>1, <2>2
<1>2. CASE ~sh
  <2>1. \A x \in Controls : GroupIn(ch, sh, x) = ch[PageIn(ch, x)]
    BY <1>2 DEF GroupIn
  <2>2. PICK p \in 1..Pages : p = PageIn(ch, c) /\ c \in Range(ch[p])
    BY PageIs
  <2>3. IsRow(ch[p]) /\ Range(ch[p]) \subseteq Controls
    BY RowIs DEF IsPanel
  <2>4. \A x \in Controls : x \in Range(ch[p]) <=> PageIn(ch, x) = p
    BY PageIs
  <2> QED
    BY <1>2, <2>1, <2>2, <2>3, <2>4
<1> QED
  BY <1>1, <1>2

-----------------------------------------------------------------------------
(* What the properties of a tab order come down to.                        *)

OrderIn(t, s, c) == ShownIn(t, s, Place(s, c))

LEMMA OrderIs ==
    ASSUME NEW t, NEW s, IsRow(s), NEW c \in Range(s)
    PROVE  /\ OrderIn(t, s, c) = IF t[c] = Implicit THEN Place(s, c) ELSE t[c]
           /\ OrderedIn(t, s) => OrderIn(t, s, c) \in DOMAIN s
<1>1. Place(s, c) \in DOMAIN s /\ s[Place(s, c)] = c
  BY RowIs
<1>2. OrderedIn(t, s) => OrderIn(t, s, c) \in DOMAIN s
  BY <1>1, OrderedIs DEF OrderIn
<1> QED
  BY <1>1, <1>2 DEF OrderIn, ShownIn

\* In an ordered row no two controls have the same order, and each order is one's.
LEMMA OrdersDiffer ==
    ASSUME NEW t, NEW s, IsRow(s), OrderedIn(t, s)
    PROVE  /\ \A c, d \in Range(s) : OrderIn(t, s, c) = OrderIn(t, s, d) => c = d
           /\ \A v \in DOMAIN s : \E c \in Range(s) : OrderIn(t, s, c) = v
<1>1. ASSUME NEW c \in Range(s), NEW d \in Range(s), OrderIn(t, s, c) = OrderIn(t, s, d)
      PROVE  c = d
  <2>1. /\ Place(s, c) \in DOMAIN s /\ s[Place(s, c)] = c
        /\ Place(s, d) \in DOMAIN s /\ s[Place(s, d)] = d
    BY RowIs
  <2>2. Place(s, c) = Place(s, d)
    BY <1>1, <2>1, OrderedIs DEF OrderIn
  <2> QED
    BY <2>1, <2>2
<1>2. ASSUME NEW v \in DOMAIN s PROVE \E c \in Range(s) : OrderIn(t, s, c) = v
  <2>1. PICK i \in DOMAIN s : ShownIn(t, s, i) = v
    BY OrderedIs
  <2>2. s[i] \in Range(s) /\ Place(s, s[i]) = i
    BY RowIs
  <2> QED
    BY <2>1, <2>2 DEF OrderIn
<1> QED
  BY <1>1, <1>2

\* A row is ordered when its orders are places and every place is one.
LEMMA OrderedWhen ==
    ASSUME NEW t, NEW s, IsRow(s),
           \A c \in Range(s) : OrderIn(t, s, c) \in DOMAIN s,
           \A v \in DOMAIN s : \E c \in Range(s) : OrderIn(t, s, c) = v
    PROVE  OrderedIn(t, s)
<1> DEFINE f == [i \in DOMAIN s |-> ShownIn(t, s, i)]
<1>1. \A i \in DOMAIN s : f[i] = OrderIn(t, s, s[i]) /\ s[i] \in Range(s)
  BY RowIs DEF OrderIn
<1>2. \A c \in Range(s) : Place(s, c) \in DOMAIN s /\ f[Place(s, c)] = OrderIn(t, s, c)
  BY RowIs DEF OrderIn
<1>3. DOMAIN f = DOMAIN s
  OBVIOUS
<1> HIDE DEF f
<1>4. \A i \in DOMAIN s : f[i] \in DOMAIN s
  BY <1>1
<1>5. \A v \in DOMAIN s : \E i \in DOMAIN s : f[i] = v
  BY <1>2
<1>6. Range(f) = DOMAIN s
  BY <1>3, <1>4, <1>5 DEF Range
<1> QED
  BY <1>6 DEF OrderedIn, f

\* The tab order of the control a becomes new: the orders between shift by one.
ShiftedOrder(t, s, a, new, c) == Shifted(OrderIn(t, s, c), OrderIn(t, s, a), new)

LEMMA TabOrderMoves ==
    ASSUME NEW t, NEW u, NEW s, IsRow(s), OrderedIn(t, s), NEW a \in Range(s), NEW new \in DOMAIN s,
           \A c \in Range(s) :
              u[c] = IF ShiftedOrder(t, s, a, new, c) = OrderIn(t, s, c) THEN t[c]
                     ELSE IF ShiftedOrder(t, s, a, new, c) = Place(s, c) THEN Implicit
                     ELSE ShiftedOrder(t, s, a, new, c)
    PROVE  /\ OrderedIn(u, s) /\ OrderIn(u, s, a) = new
           /\ \A c, d \in Range(s) \ {a} :
                OrderIn(t, s, c) < OrderIn(t, s, d) => OrderIn(u, s, c) < OrderIn(u, s, d)
<1>1. PICK n \in Nat : n = Len(s) /\ DOMAIN s = 1..n
  BY RowIs
<1>2. \A c \in Range(s) : OrderIn(t, s, c) \in 1..n
  BY <1>1, OrderIs
<1>3. PICK old \in 1..n : old = OrderIn(t, s, a)
  BY <1>2
<1>4. \A i \in 1..n : /\ Shifted(i, old, new) \in 1..n
                      /\ Shifted(i, new, old) \in 1..n
                      /\ Shifted(Shifted(i, new, old), old, new) = i
  <2>1. \A i \in 1..n : Shifted(i, old, new) \in 1..n
    BY <1>1, ShiftedIs
  <2>2. \A i \in 1..n : Shifted(i, new, old) \in 1..n /\ Shifted(Shifted(i, new, old), old, new) = i
    BY <1>1, ShiftedIs
  <2> QED
    BY <2>1, <2>2
<1>5. ASSUME NEW c \in Range(s)
      PROVE  OrderIn(u, s, c) = Shifted(OrderIn(t, s, c), old, new) /\ OrderIn(u, s, c) \in 1..n
  <2>1. PICK v \in 1..n : v = ShiftedOrder(t, s, a, new, c) /\ v = Shifted(OrderIn(t, s, c), old, new)
    BY <1>2, <1>3, <1>4 DEF ShiftedOrder
  <2>2. v # Implicit
    BY DEF Implicit
  <2>3. /\ OrderIn(t, s, c) = IF t[c] = Implicit THEN Place(s, c) ELSE t[c]
        /\ OrderIn(u, s, c) = IF u[c] = Implicit THEN Place(s, c) ELSE u[c]
    BY OrderIs
  <2>4. u[c] = IF v = OrderIn(t, s, c) THEN t[c] ELSE IF v = Place(s, c) THEN Implicit ELSE v
    BY <2>1
  <2> QED
    BY <2>1, <2>2, <2>3, <2>4
<1>6. OrderedIn(u, s)
  <2>1. ASSUME NEW v \in DOMAIN s PROVE \E c \in Range(s) : OrderIn(u, s, c) = v
    <3>1. PICK w \in DOMAIN s : w = Shifted(v, new, old) /\ Shifted(w, old, new) = v
      BY <1>1, <1>4
    <3>2. PICK c \in Range(s) : OrderIn(t, s, c) = w
      BY OrdersDiffer
    <3> QED
      BY <1>5, <3>1, <3>2
  <2> QED
    BY <1>1, <1>5, <2>1, OrderedWhen
<1>7. OrderIn(u, s, a) = new
  <2>1. Shifted(old, old, new) = new
    BY <1>1, ShiftedIs
  <2> QED
    BY <1>3, <1>5, <2>1
<1>8. ASSUME NEW c \in Range(s) \ {a}, NEW d \in Range(s) \ {a}, OrderIn(t, s, c) < OrderIn(t, s, d)
      PROVE  OrderIn(u, s, c) < OrderIn(u, s, d)
  <2>1. PICK i \in 1..n \ {old}, j \in 1..n \ {old} : i = OrderIn(t, s, c) /\ j = OrderIn(t, s, d)
    BY <1>2, <1>3, OrdersDiffer
  <2>2. Shifted(i, old, new) < Shifted(j, old, new)
    <3>1. \A x, y \in 1..n \ {old} : x < y => Shifted(x, old, new) < Shifted(y, old, new)
      BY <1>1, ShiftedIs
    <3> QED
      BY <1>8, <2>1, <3>1
  <2> QED
    BY <1>5, <2>1, <2>2
<1> QED
  BY <1>6, <1>7, <1>8

\* Where the row s becomes the row m and the tab orders are written for its places,
\* every control has the order it had.
LEMMA TabOrderStays ==
    ASSUME NEW t, NEW u, NEW s, IsRow(s), OrderedIn(t, s),
           NEW m, IsRow(m), Range(m) = Range(s), DOMAIN m = DOMAIN s,
           \A c \in Range(s) :
              u[c] = IF m[OrderIn(t, s, c)] = c THEN Implicit ELSE OrderIn(t, s, c)
    PROVE  \A c \in Range(s) : OrderIn(u, m, c) = OrderIn(t, s, c)
<1> TAKE c \in Range(s)
<1>1. PICK v \in DOMAIN s : v = OrderIn(t, s, c)
  BY OrderIs
<1>2. v # Implicit
  BY RowIs DEF Implicit
<1>3. OrderIn(u, m, c) = IF u[c] = Implicit THEN Place(m, c) ELSE u[c]
  BY OrderIs
<1>4. u[c] = IF m[v] = c THEN Implicit ELSE v
  BY <1>1
<1>5. m[v] = c => Place(m, c) = v
  BY <1>1, RowIs
<1> QED
  BY <1>1, <1>2, <1>3, <1>4, <1>5

-----------------------------------------------------------------------------
(* The panel between two operations.                                       *)

\* Every control is on one page, once; the default controls are controls.
PanelInv ==
    /\ IsPanel(children)
    /\ default \subseteq Controls
    /\ shared \in BOOLEAN

LEMMA PanelNow ==
    ASSUME NEW c
    PROVE  /\ PageOf(c) = PageIn(children, c) /\ PageOf(c)' = PageIn(children', c)
           /\ Group(c) = GroupIn(children, shared, c)
           /\ Group(c)' = GroupIn(children', shared', c)
           /\ TabOrder(c) = OrderIn(tab, Group(c), c)
           /\ TabOrder(c)' = OrderIn(tab', Group(c)', c)
BY DEF PageOf, PageIn, Group, GroupIn, TabOrder, Shown, OrderIn, ShownIn, Place

LEMMA RowNow ==
    ASSUME NEW s
    PROVE  /\ Ordered(s) <=> OrderedIn(tab, s)
           /\ \A c \in Range(s) : OrdersOf(s)[c] = OrderIn(tab, s, c)
BY DEF Ordered, Orders, OrdersOf, Shown, OrderIn, ShownIn, OrderedIn

LEMMA GroupNow ==
    ASSUME PanelInv, NEW c \in Controls
    PROVE  /\ IsRow(Group(c)) /\ c \in Range(Group(c))
           /\ Place(Group(c), c) \in DOMAIN Group(c)
           /\ \A x \in Range(Group(c)) : x \in Controls /\ Group(x) = Group(c)
           /\ \A x \in Controls : x \in Range(Group(c)) <=> shared \/ PageOf(x) = PageOf(c)
<1>1. IsRow(Group(c)) /\ c \in Range(Group(c))
  BY PanelNow, GroupIs DEF PanelInv
<1>2. \A x \in Range(Group(c)) : x \in Controls /\ Group(x) = Group(c)
  BY <1>1, PanelNow, GroupIs, RowIs DEF PanelInv
<1>3. \A x \in Controls : x \in Range(Group(c)) <=> shared \/ PageOf(x) = PageOf(c)
  BY PanelNow, GroupIs DEF PanelInv
<1> QED
  BY <1>1, <1>2, <1>3, RowIs

LEMMA NIsNat == N \in Nat
BY PlacementAssumption, FS_CardinalityType DEF N

-----------------------------------------------------------------------------
(* The operations.                                                         *)

LEMMA SetTabOrderIs ==
    ASSUME PanelInv, NEW c \in Controls, NEW new, SetTabOrder(c, new)
    PROVE  /\ shared' = shared /\ children' = children /\ default' = default
           /\ \A x \in Controls \ Range(Group(c)) : tab'[x] = tab[x]
           /\ Ordered(Group(c)) /\ new \in DOMAIN Group(c) =>
                \A x \in Range(Group(c)) :
                   tab'[x] = IF ShiftedOrder(tab, Group(c), c, new, x) = OrderIn(tab, Group(c), x)
                             THEN tab[x]
                             ELSE IF ShiftedOrder(tab, Group(c), c, new, x) = Place(Group(c), x)
                             THEN Implicit ELSE ShiftedOrder(tab, Group(c), c, new, x)
<1>1. PICK g : g = Group(c)
  OBVIOUS
<1>2. CASE ~Ordered(g) \/ new \notin DOMAIN g
  <2>1. shared' = shared /\ children' = children /\ default' = default /\ tab' = tab
    BY <1>1, <1>2 DEF SetTabOrder, Unchanged
  <2> QED
    BY <1>1, <1>2, <2>1
<1>3. CASE Ordered(g) /\ new \in DOMAIN g
  <2> DEFINE order(x) == Shifted(OrdersOf(g)[x], TabOrder(c), new)
  <2>1. /\ shared' = shared /\ children' = children /\ default' = default
        /\ tab' = [x \in Controls |->
                IF x \notin Range(g) \/ order(x) = OrdersOf(g)[x] THEN tab[x]
                ELSE IF order(x) = Place(g, x) THEN Implicit
                ELSE order(x)]
    BY <1>1, <1>3 DEF SetTabOrder
  <2>2. \A x \in Range(g) : OrdersOf(g)[x] = OrderIn(tab, g, x)
    BY RowNow
  <2>3. TabOrder(c) = OrderIn(tab, g, c)
    BY <1>1, PanelNow
  <2>4. \A x \in Range(g) : order(x) = ShiftedOrder(tab, g, c, new, x)
    BY <2>2, <2>3 DEF ShiftedOrder
  <2>5. \A x \in Range(g) : x \in Controls
    BY <1>1, GroupNow
  <2> HIDE DEF order
  <2>6. \A x \in Controls \ Range(g) : tab'[x] = tab[x]
    BY <2>1
  <2>7. ASSUME NEW x \in Range(g)
        PROVE  tab'[x] = IF ShiftedOrder(tab, g, c, new, x) = OrderIn(tab, g, x) THEN tab[x]
                         ELSE IF ShiftedOrder(tab, g, c, new, x) = Place(g, x)
                         THEN Implicit ELSE ShiftedOrder(tab, g, c, new, x)
    BY <2>1, <2>2, <2>4, <2>5
  <2> QED
    BY <1>1, <2>1, <2>6, <2>7
<1> QED
  BY <1>2, <1>3

\* A change of the display order leaves the panel as it is, or moves the control
\* in its group and writes the tab orders again.
MovesTo(c, m) ==
    /\ Ordered(Group(c))
    /\ IsRow(m) /\ Range(m) = Range(Group(c)) /\ DOMAIN m = DOMAIN Group(c)
    /\ \A x \in Range(Group(c)) : Group(x)' = m
    /\ \A x \in Range(Group(c)) :
         tab'[x] = IF m[OrderIn(tab, Group(c), x)] = x THEN Implicit
                   ELSE OrderIn(tab, Group(c), x)

LEMMA SetZOrderIs ==
    ASSUME PanelInv, NEW c \in Controls, NEW n \in 0..(N + 1), SetZOrder(c, n)
    PROVE  /\ shared' = shared /\ default' = default /\ IsPanel(children')
           /\ \A x \in Controls \ Range(Group(c)) : tab'[x] = tab[x]
           /\ ~shared => \A x \in Controls : PageOf(x)' = PageOf(x)
           /\ ~shared => \A p \in 1..Pages : p # PageOf(c) => children'[p] = children[p]
           /\ (children' = children /\ tab' = tab) \/ \E m : MovesTo(c, m)
<1>1. PICK g : g = Group(c)
  OBVIOUS
<1>2. IsRow(g) /\ c \in Range(g) /\ Place(g, c) \in DOMAIN g /\ \A x \in Range(g) : Group(x) = g
  BY <1>1, GroupNow
<1>3. PICK target : target = Clamped(n, Len(g))
  OBVIOUS
<1>4. target \in DOMAIN g
  <2>1. PICK high \in Nat : high = Len(g) /\ DOMAIN g = 1..high
    BY <1>2, RowIs
  <2>2. high >= 1
    BY <1>2, <2>1
  <2>3. PICK k \in Int : k = n
    BY NIsNat
  <2>4. Clamped(k, high) \in 1..high
    BY <2>2 DEF Clamped
  <2> QED
    BY <1>3, <2>1, <2>3, <2>4
<1>5. CASE ~Ordered(g) \/ target = Place(g, c)
  <2>1. shared' = shared /\ children' = children /\ default' = default /\ tab' = tab
    BY <1>1, <1>3, <1>5 DEF SetZOrder, Unchanged
  <2>2. \A x \in Controls : PageOf(x)' = PageOf(x)
    BY <2>1, PanelNow
  <2> QED
    BY <2>1, <2>2 DEF PanelInv
<1>6. CASE Ordered(g) /\ target # Place(g, c)
  <2>1. PICK m : m = Moved(g, Place(g, c), target)
    OBVIOUS
  <2>2. IsRow(m) /\ Range(m) = Range(g) /\ DOMAIN m = DOMAIN g
    BY <1>2, <1>4, <2>1, MovedRow
  <2>3. /\ shared' = shared /\ default' = default
        /\ children' = [p \in 1..Pages |->
                IF p = Siblings(c) THEN m ELSE IF shared THEN <<>> ELSE children[p]]
        /\ tab' = [x \in Controls |->
                IF x \in Range(g) THEN Kept(m, OrdersOf(g))[x] ELSE tab[x]]
    BY <1>1, <1>3, <1>6, <2>1 DEF SetZOrder
  <2>4. PICK q : q = PageOf(c) /\ q \in 1..Pages /\ c \in Range(children[q])
    BY PageIs, PanelNow DEF PanelInv
  <2>5. Siblings(c) \in 1..Pages
    BY <2>4, PlacementAssumption DEF Siblings
  <2>6. \A x \in Range(g) : x \in Controls
    BY <1>1, GroupNow
  <2>7. ASSUME NEW x \in Range(g)
        PROVE  tab'[x] = IF m[OrderIn(tab, g, x)] = x THEN Implicit ELSE OrderIn(tab, g, x)
    <3>1. OrdersOf(g)[x] = OrderIn(tab, g, x)
      BY RowNow
    <3>2. Kept(m, OrdersOf(g))[x] = IF m[OrdersOf(g)[x]] = x THEN Implicit ELSE OrdersOf(g)[x]
      BY <2>2 DEF Kept
    <3> QED
      BY <2>3, <2>6, <3>1, <3>2
  <2>8. \A x \in Controls \ Range(g) : tab'[x] = tab[x]
    BY <2>3
  <2>9. CASE shared
    <3>1. children' = OnlyPage(Siblings(c), m)
      BY <2>3, <2>9 DEF OnlyPage
    <3>2. Range(m) = Controls
      BY <1>1, <2>2, <2>6, <2>9, GroupNow
    <3>3. IsPanel(children') /\ FlattenSeq(children') = m
      BY <2>2, <2>5, <3>1, <3>2, OnlyPageIs
    <3>4. \A x \in Range(g) : Group(x)' = m
      BY <2>3, <2>9, <3>3 DEF Group
    <3>5. MovesTo(c, m)
      BY <1>1, <1>6, <2>2, <2>7, <3>4 DEF MovesTo
    <3> QED
      BY <1>1, <2>3, <2>8, <2>9, <3>3, <3>5
  <2>10. CASE ~shared
    <3>1. g = children[q]
      BY <1>1, <2>4, <2>10 DEF Group
    <3>2. Siblings(c) = q
      BY <1>1, <2>4, <3>1 DEF Siblings
    <3>3. children' = [p \in 1..Pages |-> IF p = q THEN m ELSE children[p]]
      BY <2>3, <2>10, <3>2
    <3>4. /\ IsPanel(children')
          /\ \A x \in Controls : PageIn(children', x) = PageIn(children, x)
      BY <2>2, <2>4, <3>1, <3>3, PageArranged DEF PanelInv
    <3>5. \A x \in Controls : PageOf(x)' = PageOf(x)
      BY <3>4, PanelNow
    <3>6. ASSUME NEW x \in Range(g) PROVE Group(x)' = m
      <4>1. PageOf(x) = q
        BY <1>1, <2>4, <2>6, <2>10, <3>6, GroupNow
      <4>2. Group(x)' = children'[PageOf(x)']
        BY <2>3, <2>10 DEF Group
      <4> QED
        BY <2>4, <2>6, <3>3, <3>5, <4>1, <4>2
    <3>7. MovesTo(c, m)
      BY <1>1, <1>6, <2>2, <2>7, <3>6 DEF MovesTo
    <3>8. \A p \in 1..Pages : p # PageOf(c) => children'[p] = children[p]
      BY <2>4, <3>3
    <3> QED
      BY <1>1, <2>3, <2>8, <2>10, <3>4, <3>5, <3>7, <3>8
  <2> QED
    BY <2>9, <2>10 DEF PanelInv
<1> QED
  BY <1>5, <1>6

\* What a ZOrder that is read does to its page.
LEMMA ReadIs ==
    ASSUME PanelInv, Read
    PROVE  /\ shared' = shared /\ default' = default /\ IsPanel(children')
           /\ \A x \in Controls : PageOf(x)' = PageOf(x)
<1>1. PICK q \in 1..Pages : \E z \in [Range(children[q]) -> 0..N] : ReadZOrder(q, z)
  BY DEF Read
<1>2. PICK sorted \in SetToSeqs(Range(children[q])) : children' = [children EXCEPT ![q] = sorted]
  BY <1>1 DEF ReadZOrder
<1>3. Range(children[q]) \subseteq Controls /\ children \in [1..Pages -> Seq(Controls)]
  BY RowIs DEF PanelInv, IsPanel
<1>4. IsRow(sorted) /\ Range(sorted) = Range(children[q])
  BY <1>2, <1>3, EnumerationIs
<1>5. children' = [p \in 1..Pages |-> IF p = q THEN sorted ELSE children[p]]
  BY <1>2, <1>3
<1>6. IsPanel(children') /\ \A x \in Controls : PageIn(children', x) = PageIn(children, x)
  BY <1>4, <1>5, PageArranged DEF PanelInv
<1>7. \A x \in Controls : PageOf(x)' = PageOf(x)
  BY <1>6, PanelNow
<1>8. shared' = shared /\ default' = default
  BY <1>1 DEF ReadZOrder
<1> QED
  BY <1>6, <1>7, <1>8

-----------------------------------------------------------------------------
(* Default controls.                                                       *)

GroupsIn(ch, sh) == IF sh THEN {FlattenSeq(ch)} ELSE Range(ch)

\* No two default controls are in one group.
AloneIn(ch, sh, d) ==
    \A x, y \in d : (sh \/ PageIn(ch, x) = PageIn(ch, y)) => x = y

LEMMA AtMostOne ==
    ASSUME NEW T \in SUBSET Controls
    PROVE  Cardinality(T) <= 1 <=> \A x, y \in T : x = y
<1>1. IsFiniteSet(T)
  BY PlacementAssumption, FS_Subset
<1>2. PICK n \in Nat : n = Cardinality(T)
  BY <1>1, FS_CardinalityType
<1>3. CASE T = {}
  BY <1>1, <1>2, <1>3, FS_EmptySet
<1>4. CASE T # {}
  <2>1. PICK x \in T : TRUE
    BY <1>4
  <2>2. n # 0
    BY <1>1, <1>2, <1>4, FS_EmptySet
  <2>3. n = 1 <=> \E y : T = {y}
    BY <1>1, <1>2, FS_Singleton
  <2>4. (\E y : T = {y}) <=> \A a, b \in T : a = b
    BY <2>1
  <2> QED
    BY <1>2, <2>2, <2>3, <2>4
<1> QED
  BY <1>3, <1>4

LEMMA OneDefaultMeans ==
    ASSUME NEW ch, IsPanel(ch), NEW sh \in BOOLEAN, NEW d \in SUBSET Controls
    PROVE  (\A g \in GroupsIn(ch, sh) : Cardinality(Range(g) \cap d) <= 1)
             <=> AloneIn(ch, sh, d)
<1>1. CASE sh
  <2>1. GroupsIn(ch, sh) = {FlattenSeq(ch)} /\ Range(FlattenSeq(ch)) = Controls
    BY <1>1, AreaIs DEF GroupsIn
  <2>2. Controls \cap d = d
    OBVIOUS
  <2>3. Cardinality(d) <= 1 <=> \A x, y \in d : x = y
    BY AtMostOne
  <2>4. AloneIn(ch, sh, d) <=> \A x, y \in d : x = y
    BY <1>1 DEF AloneIn
  <2> QED
    BY <2>1, <2>2, <2>3, <2>4
<1>2. CASE ~sh
  <2>1. GroupsIn(ch, sh) = Range(ch)
    BY <1>2 DEF GroupsIn
  <2>2. \A g : g \in Range(ch) <=> \E p \in 1..Pages : ch[p] = g
    BY DEF Range, IsPanel
  <2>3. ASSUME NEW p \in 1..Pages
        PROVE  Cardinality(Range(ch[p]) \cap d) <= 1
                 <=> \A x, y \in d : PageIn(ch, x) = p /\ PageIn(ch, y) = p => x = y
    <3>1. PICK T \in SUBSET Controls : T = Range(ch[p]) \cap d
      OBVIOUS
    <3>2. Cardinality(T) <= 1 <=> \A x, y \in T : x = y
      BY AtMostOne
    <3>3. \A x \in d : x \in T <=> PageIn(ch, x) = p
      BY <3>1, PageIs
    <3>4. (\A x, y \in T : x = y)
            <=> \A x, y \in d : PageIn(ch, x) = p /\ PageIn(ch, y) = p => x = y
      BY <3>1, <3>3
    <3> QED
      BY <3>1, <3>2, <3>4
  <2>4. \A x \in d : PageIn(ch, x) \in 1..Pages
    BY PageIs
  <2>5. AloneIn(ch, sh, d) <=> \A p \in 1..Pages : \A x, y \in d :
                                   PageIn(ch, x) = p /\ PageIn(ch, y) = p => x = y
    BY <1>2, <2>4 DEF AloneIn
  <2>6. (\A g \in Range(ch) : Cardinality(Range(g) \cap d) <= 1)
          <=> \A p \in 1..Pages : Cardinality(Range(ch[p]) \cap d) <= 1
    BY <2>2
  <2> QED
    BY <2>1, <2>3, <2>5, <2>6
<1> QED
  BY <1>1, <1>2

LEMMA OneDefaultNow ==
    ASSUME PanelInv
    PROVE  OneDefaultPerGroup <=> AloneIn(children, shared, default)
<1>1. Groups = GroupsIn(children, shared)
  BY DEF Groups, GroupsIn
<1>2. (\A g \in GroupsIn(children, shared) : Cardinality(Range(g) \cap default) <= 1)
         <=> AloneIn(children, shared, default)
  BY OneDefaultMeans DEF PanelInv
<1> QED
  BY <1>1, <1>2 DEF OneDefaultPerGroup

LEMMA OneDefaultNext ==
    ASSUME PanelInv'
    PROVE  OneDefaultPerGroup' <=> AloneIn(children', shared', default')
<1>1. Groups' = GroupsIn(children', shared')
  BY DEF Groups, GroupsIn
<1>2. (\A g \in GroupsIn(children', shared') : Cardinality(Range(g) \cap default') <= 1)
         <=> AloneIn(children', shared', default')
  BY OneDefaultMeans DEF PanelInv
<1> QED
  BY <1>1, <1>2 DEF OneDefaultPerGroup

-----------------------------------------------------------------------------
(* Form.bin.                                                               *)

\* The row that is stored on the page p.
Stored(p) == IF shared THEN IF p = 1 THEN FlattenSeq(children) ELSE <<>>
             ELSE children[p]

LEMMA StoredIs ==
    ASSUME PanelInv, NEW p \in 1..Pages
    PROVE  /\ IsRow(Stored(p))
           /\ {c \in Controls : StoredPage(c) = p} = Range(Stored(p))
           /\ \A c \in Range(Stored(p)) : Group(c) = Stored(p)
<1>1. CASE shared /\ p = 1
  <2>1. Stored(p) = FlattenSeq(children)
    BY <1>1 DEF Stored
  <2>2. IsRow(FlattenSeq(children)) /\ Range(FlattenSeq(children)) = Controls
    BY AreaIs DEF PanelInv
  <2>3. \A c \in Controls : StoredPage(c) = p /\ Group(c) = FlattenSeq(children)
    BY <1>1 DEF StoredPage, Group
  <2> QED
    BY <2>1, <2>2, <2>3
<1>2. CASE shared /\ p # 1
  <2>1. Stored(p) = <<>>
    BY <1>2 DEF Stored
  <2>2. IsRow(<<>>) /\ Range(<<>>) = {}
    BY DEF IsRow, Range
  <2>3. \A c \in Controls : StoredPage(c) # p
    BY <1>2 DEF StoredPage
  <2> QED
    BY <2>1, <2>2, <2>3
<1>3. CASE ~shared
  <2>1. Stored(p) = children[p]
    BY <1>3 DEF Stored
  <2>2. IsRow(children[p]) /\ Range(children[p]) \subseteq Controls
    BY RowIs DEF PanelInv, IsPanel
  <2>3. \A c \in Controls : StoredPage(c) = PageIn(children, c)
    BY <1>3, PanelNow DEF StoredPage
  <2>4. \A c \in Controls : c \in Range(children[p]) <=> PageIn(children, c) = p
    BY PageIs DEF PanelInv
  <2>5. \A c \in Controls : Group(c) = children[PageIn(children, c)]
    BY <1>3, PanelNow DEF Group
  <2> QED
    BY <2>1, <2>2, <2>3, <2>4, <2>5
<1> QED
  BY <1>1, <1>2, <1>3

\* The rows that are stored are ordered when the encoder accepts the panel.
LEMMA StoredIsOrdered ==
    ASSUME PanelInv, Encodable, NEW p \in 1..Pages, Range(Stored(p)) # {}
    PROVE  OrderedIn(tab, Stored(p))
<1>1. Stored(p) \in Groups
  <2>1. CASE shared
    <3>1. Range(<<>>) = {}
      BY DEF Range
    <3> QED
      BY <2>1, <3>1 DEF Stored, Groups
  <2>2. CASE ~shared
    <3>1. p \in DOMAIN children
      BY DEF PanelInv, IsPanel
    <3> QED
      BY <2>2, <3>1, Zenon DEF Stored, Groups, Range
  <2> QED
    BY <2>1, <2>2
<1> QED
  BY <1>1, RowNow DEF Encodable

\* What the encoder accepts, the decoder does.
LEMMA EncodableIsDecodable == PanelInv => (Encodable => Decodable)
<1> SUFFICES ASSUME PanelInv, Encodable, NEW p \in 1..Pages
             PROVE  LET on == {c \in Controls : StoredPage(c) = p}
                    IN  /\ {StoredPlace(c) : c \in on} = 1..Cardinality(on)
                        /\ {TabOrder(c) : c \in on} = 1..Cardinality(on)
  BY DEF Decodable
<1>1. PICK s : s = Stored(p) /\ IsRow(s)
  BY StoredIs
<1>2. PICK on : on = {c \in Controls : StoredPage(c) = p} /\ on = Range(s)
  BY <1>1, StoredIs
<1>3. PICK n \in Nat : n = Len(s) /\ DOMAIN s = 1..n /\ Cardinality(on) = n
  BY <1>1, <1>2, RowIs, RowCount
<1>4. \A c \in on : StoredPlace(c) = Place(s, c) /\ TabOrder(c) = OrderIn(tab, s, c)
  BY <1>1, <1>2, StoredIs, PanelNow DEF StoredPlace
<1>5. {StoredPlace(c) : c \in on} = 1..n
  <2>1. \A c \in on : StoredPlace(c) \in 1..n
    BY <1>1, <1>2, <1>3, <1>4, RowIs
  <2>2. \A i \in 1..n : s[i] \in on /\ StoredPlace(s[i]) = i
    BY <1>1, <1>2, <1>3, <1>4, RowIs
  <2> QED
    BY <2>1, <2>2
<1>6. {TabOrder(c) : c \in on} = 1..n
  <2>1. CASE on = {}
    <3>1. 1..n = {}
      BY <1>1, <1>2, <1>3, <2>1, RowIs
    <3> QED
      BY <2>1, <3>1
  <2>2. CASE on # {}
    <3>1. OrderedIn(tab, s)
      BY <1>1, <1>2, <2>2, StoredIsOrdered
    <3>2. \A c \in on : TabOrder(c) \in 1..n
      BY <1>1, <1>2, <1>3, <1>4, <3>1, OrderIs
    <3>3. ASSUME NEW v \in 1..n PROVE \E c \in on : TabOrder(c) = v
      <4>1. v \in DOMAIN s
        BY <1>3
      <4>2. PICK c \in Range(s) : OrderIn(tab, s, c) = v
        BY <1>1, <3>1, <4>1, OrdersDiffer
      <4> QED
        BY <1>2, <1>4, <4>2
    <3> QED
      BY <3>2, <3>3
  <2> QED
    BY <2>1, <2>2
<1> QED
  BY <1>2, <1>3, <1>5, <1>6

\* Saving and loading gives every page what was stored on it.
LEMMA SaveGivesChildren ==
    ASSUME PanelInv, SaveAndLoad
    PROVE  /\ shared' = shared /\ IsPanel(children')
           /\ shared => children' = OnlyPage(1, FlattenSeq(children))
           /\ ~shared => children' = children
<1>1. /\ Encodable /\ shared' = shared
      /\ children' = [p \in 1..Pages |->
          LET on == {c \in Controls : StoredPage(c) = p}
          IN  [i \in 1..Cardinality(on) |-> CHOOSE c \in on : StoredPlace(c) = i]]
  BY DEF SaveAndLoad
<1>2. ASSUME NEW p \in 1..Pages PROVE children'[p] = Stored(p)
  <2>1. PICK s : s = Stored(p) /\ IsRow(s)
    BY StoredIs
  <2>2. PICK on : on = {c \in Controls : StoredPage(c) = p} /\ on = Range(s)
    BY <2>1, StoredIs
  <2>3. PICK n \in Nat : n = Len(s) /\ DOMAIN s = 1..n /\ Cardinality(on) = n
    BY <2>1, <2>2, RowIs, RowCount
  <2>4. \A c \in on : StoredPlace(c) = Place(s, c)
    BY <2>1, <2>2, StoredIs DEF StoredPlace
  <2>5. ASSUME NEW i \in 1..n PROVE (CHOOSE c \in on : StoredPlace(c) = i) = s[i]
    <3>1. s[i] \in on /\ StoredPlace(s[i]) = i
      BY <2>1, <2>2, <2>3, <2>4, RowIs
    <3>2. \A c \in on : StoredPlace(c) = i => c = s[i]
      BY <2>1, <2>2, <2>4, RowIs
    <3> QED
      BY <3>1, <3>2
  <2>6. children'[p] = [i \in 1..n |-> CHOOSE c \in on : StoredPlace(c) = i]
    BY <1>1, <2>2, <2>3
  <2>7. s = [i \in 1..n |-> s[i]]
    BY <2>1, <2>3 DEF IsRow
  <2> QED
    BY <2>1, <2>5, <2>6, <2>7
<1>3. children' = [p \in 1..Pages |-> children'[p]]
  BY <1>1
<1>4. CASE shared
  <2>1. IsRow(FlattenSeq(children)) /\ Range(FlattenSeq(children)) = Controls
    BY AreaIs DEF PanelInv
  <2>2. children' = OnlyPage(1, FlattenSeq(children))
    BY <1>2, <1>3, <1>4 DEF OnlyPage, Stored
  <2>3. 1 \in 1..Pages
    BY PlacementAssumption
  <2> QED
    BY <1>1, <1>4, <2>1, <2>2, <2>3, OnlyPageIs
<1>5. CASE ~shared
  <2>1. children = [p \in 1..Pages |-> children[p]]
    BY DEF PanelInv, IsPanel
  <2>2. children' = children
    BY <1>2, <1>3, <1>5, <2>1 DEF Stored
  <2> QED
    BY <1>1, <1>5, <2>2 DEF PanelInv
<1> QED
  BY <1>4, <1>5

\* The default controls come back: there was one on each stored page at most.
LEMMA SaveKeepsDefault ==
    ASSUME PanelInv, SaveAndLoad
    PROVE  default' = default
<1>1. Encodable /\ default' = Range(Focus) \ {NoControl}
  BY DEF SaveAndLoad
<1> DEFINE areas == 1..(IF shared THEN 1 ELSE Pages)
           on(a) == {c \in default : StoredPage(c) = a}
<1>2. AloneIn(children, shared, default)
  BY <1>1, OneDefaultNow DEF Encodable
<1>3. \A c \in default : \A d \in default : StoredPage(c) = StoredPage(d) => c = d
  BY <1>2, PanelNow DEF StoredPage, AloneIn
<1>4. ASSUME NEW c \in default PROVE c # NoControl /\ StoredPage(c) \in areas
  <2>1. c \in Controls
    BY DEF PanelInv
  <2>2. StoredPage(c) \in areas
    BY <2>1, PageIs, PanelNow DEF PanelInv, StoredPage
  <2> QED
    BY <2>1, <2>2, PlacementAssumption
<1>5. Focus = [a \in areas |-> IF on(a) = {} THEN NoControl ELSE CHOOSE c \in on(a) : TRUE]
  BY DEF Focus
<1>6. ASSUME NEW c \in default PROVE c \in Range(Focus)
  <2>1. PICK a \in areas : a = StoredPage(c)
    BY <1>4, <1>6
  <2>2. c \in on(a) /\ \A d \in on(a) : d = c
    BY <1>3, <1>6, <2>1
  <2>3. Focus[a] = c
    BY <1>5, <2>2
  <2>4. a \in DOMAIN Focus
    BY <1>5
  <2> QED
    BY <2>3, <2>4, Zenon DEF Range
<1>7. ASSUME NEW c \in Range(Focus), c # NoControl PROVE c \in default
  <2>1. PICK a \in areas : c = Focus[a]
    <3>1. PICK a \in DOMAIN Focus : c = Focus[a]
      BY Zenon DEF Range
    <3> QED
      BY <1>5, <3>1
  <2>2. on(a) # {} /\ c = CHOOSE d \in on(a) : TRUE
    BY <1>5, <1>7, <2>1
  <2>3. c \in on(a)
    BY <2>2
  <2> QED
    BY <2>3
<1> QED
  BY <1>1, <1>4, <1>6, <1>7

LEMMA SaveKeepsOrders ==
    ASSUME PanelInv, SaveAndLoad, NEW c \in Controls
    PROVE  Group(c)' = Group(c) /\ TabOrder(c)' = TabOrder(c)
<1>1. /\ shared' = shared
      /\ shared => children' = OnlyPage(1, FlattenSeq(children))
      /\ ~shared => children' = children
  BY SaveGivesChildren
<1>2. Group(c)' = Group(c)
  <2>1. CASE shared
    <3>1. IsRow(FlattenSeq(children)) /\ Range(FlattenSeq(children)) = Controls
      BY AreaIs DEF PanelInv
    <3>2. 1 \in 1..Pages
      BY PlacementAssumption
    <3>3. FlattenSeq(children') = FlattenSeq(children)
      BY <1>1, <2>1, <3>1, <3>2, OnlyPageIs
    <3> QED
      BY <1>1, <2>1, <3>3 DEF Group
  <2>2. CASE ~shared
    BY <1>1, <2>2 DEF Group, PageOf
  <2> QED
    BY <2>1, <2>2
<1>3. PICK g : g = Group(c) /\ IsRow(g) /\ c \in Range(g)
  BY GroupNow
<1>4. StoredPlace(c) = Place(g, c)
  BY <1>3 DEF StoredPlace
<1>5. tab'[c] = IF TabOrder(c) = StoredPlace(c) THEN Implicit ELSE TabOrder(c)
  BY DEF SaveAndLoad
<1>6. TabOrder(c) = IF tab[c] = Implicit THEN Place(g, c) ELSE tab[c]
  BY <1>3, PanelNow, OrderIs
<1>7. TabOrder(c)' = IF tab'[c] = Implicit THEN Place(g, c) ELSE tab'[c]
  BY <1>2, <1>3, PanelNow, OrderIs
<1> QED
  BY <1>2, <1>4, <1>5, <1>6, <1>7

-----------------------------------------------------------------------------
(* The invariant.                                                          *)

LEMMA PanelStarts == Init => PanelInv
<1> SUFFICES ASSUME Init PROVE IsPanel(children)
  BY DEF Init, PanelInv
<1>1. /\ children \in [1..Pages -> SetToAllKPermutations(Controls)]
      /\ \A c \in Controls : Cardinality({p \in 1..Pages : c \in Range(children[p])}) = 1
  BY DEF Init
<1>2. ASSUME NEW p \in 1..Pages PROVE IsRow(children[p])
  <2>1. PICK T \in SUBSET Controls : children[p] \in SetToSeqs(T)
    BY <1>1 DEF SetToAllKPermutations
  <2> QED
    BY <2>1, EnumerationIs
<1>3. children \in [1..Pages -> Seq(Controls)]
  BY <1>1, <1>2 DEF IsRow
<1>4. ASSUME NEW c \in Controls
      PROVE  \E q \in 1..Pages : \A p \in 1..Pages : c \in Range(children[p]) <=> p = q
  <2>1. PICK on : on = {p \in 1..Pages : c \in Range(children[p])} /\ Cardinality(on) = 1
    BY <1>1
  <2>2. IsFiniteSet(on)
    <3>1. IsFiniteSet(1..Pages) /\ on \in SUBSET (1..Pages)
      BY <2>1, PlacementAssumption, FS_Interval
    <3> QED
      BY <3>1, FS_Subset
  <2>3. PICK q : on = {q}
    BY <2>1, <2>2, FS_Singleton
  <2> QED
    BY <2>1, <2>3
<1>5. \A p \in 1..Pages : Range(children[p]) \subseteq Controls
  BY <1>2, RowIs
<1> QED
  BY <1>2, <1>3, <1>4, <1>5 DEF IsPanel

LEMMA PanelStep == PanelInv /\ [Next]_vars => PanelInv'
<1> SUFFICES ASSUME PanelInv, [Next]_vars PROVE PanelInv'
  OBVIOUS
<1>1. ASSUME NEW c \in Controls, Arrange(c) PROVE PanelInv'
  <2>1. CASE \E n \in 0..(N + 1) : SetTabOrder(c, n)
    BY <2>1, SetTabOrderIs DEF PanelInv
  <2>2. CASE ResetTabOrder(c)
    BY <2>2, SetTabOrderIs DEF PanelInv, ResetTabOrder
  <2>3. CASE \E n \in 0..(N + 1) : SetZOrder(c, n)
    BY <2>3, SetZOrderIs DEF PanelInv
  <2> QED
    BY <1>1, <2>1, <2>2, <2>3 DEF Arrange
<1>2. ASSUME NEW c \in Controls, Select(c) PROVE PanelInv'
  BY <1>2 DEF Select, SetDefaultControl, ResetDefaultControl, PanelInv
<1>3. ASSUME NEW separate \in BOOLEAN, SetSeparateByPage(separate) PROVE PanelInv'
  BY <1>3 DEF SetSeparateByPage, PanelInv
<1>4. CASE Read
  BY <1>4, ReadIs DEF PanelInv
<1>5. CASE SaveAndLoad
  BY <1>5, SaveGivesChildren, SaveKeepsDefault DEF PanelInv
<1>6. CASE SaveFails
  BY <1>6 DEF SaveFails, Unchanged, PanelInv
<1>7. CASE UNCHANGED vars
  BY <1>7 DEF vars, PanelInv
<1> QED
  BY <1>1, <1>2, <1>3, <1>4, <1>5, <1>6, <1>7 DEF Next

LEMMA PanelInvHolds == Spec => []PanelInv
BY PanelStarts, PanelStep, PTL DEF Spec

-----------------------------------------------------------------------------
(* The properties.                                                         *)

\* While SeparateByPage stays what it is, no operation, no reading and no saving
\* gives a group a second default control, for any number of controls and pages.
THEOREM DefaultsStayUnique == Spec => DefaultStaysUnique
<1>1. PanelInv /\ PanelInv' /\ [Next]_vars =>
         [OneDefaultPerGroup /\ shared' = shared => OneDefaultPerGroup']_vars
  <2> SUFFICES ASSUME PanelInv, PanelInv', Next, AloneIn(children, shared, default),
                      shared' = shared
               PROVE  AloneIn(children', shared', default')
    BY OneDefaultNow, OneDefaultNext
  <2>1. ASSUME \A x \in Controls : ~shared => PageOf(x)' = PageOf(x), default' \subseteq default
        PROVE  AloneIn(children', shared', default')
    BY <2>1, PanelNow DEF AloneIn, PanelInv
  <2>2. ASSUME NEW c \in Controls, Arrange(c) PROVE AloneIn(children', shared', default')
    <3>1. CASE (\E n \in 0..(N + 1) : SetTabOrder(c, n)) \/ ResetTabOrder(c)
      <4>1. children' = children /\ default' = default
        BY <3>1, SetTabOrderIs DEF ResetTabOrder
      <4> QED
        BY <2>1, <4>1, PanelNow
    <3>2. CASE \E n \in 0..(N + 1) : SetZOrder(c, n)
      BY <2>1, <3>2, SetZOrderIs
    <3> QED
      BY <2>2, <3>1, <3>2 DEF Arrange
  <2>3. ASSUME NEW c \in Controls, Select(c) PROVE AloneIn(children', shared', default')
    <3>1. children' = children /\ \A x \in Controls : PageOf(x)' = PageOf(x)
      BY <2>3, PanelNow DEF Select, SetDefaultControl, ResetDefaultControl
    <3>2. CASE default' \subseteq default
      BY <2>1, <3>1, <3>2
    <3>3. CASE default' = (default \ Range(Group(c))) \cup {c}
      <4>1. ASSUME NEW x \in default', NEW y \in default',
                   shared \/ PageOf(x) = PageOf(y)
            PROVE  x = y
        <5>1. x \in Controls /\ y \in Controls
          BY <3>3 DEF PanelInv
        <5>2. x \in Range(Group(c)) <=> y \in Range(Group(c))
          BY <4>1, <5>1, GroupNow
        <5>3. c \in Range(Group(c))
          BY GroupNow
        <5>4. CASE x = c \/ y = c
          BY <3>3, <5>2, <5>3, <5>4
        <5>5. CASE x # c /\ y # c
          <6>1. x \in default /\ y \in default
            BY <3>3, <5>5
          <6> QED
            BY <4>1, <6>1, PanelNow DEF AloneIn
        <5> QED
          BY <5>4, <5>5
      <4> QED
        BY <3>1, <4>1, PanelNow DEF AloneIn
    <3> QED
      BY <2>3, <3>2, <3>3 DEF Select, SetDefaultControl, ResetDefaultControl
  <2>4. ASSUME NEW separate \in BOOLEAN, SetSeparateByPage(separate)
        PROVE  AloneIn(children', shared', default')
    BY <2>4 DEF SetSeparateByPage
  <2>5. CASE Read
    BY <2>1, <2>5, ReadIs
  <2>6. CASE SaveAndLoad
    <3>1. ~shared => children' = children
      BY <2>6, SaveGivesChildren
    <3>2. \A x \in Controls : ~shared => PageOf(x)' = PageOf(x)
      BY <3>1, PanelNow
    <3> QED
      BY <2>1, <2>6, <3>2, SaveKeepsDefault
  <2>7. CASE SaveFails
    BY <2>7 DEF SaveFails, Unchanged
  <2> QED
    BY <2>2, <2>3, <2>4, <2>5, <2>6, <2>7 DEF Next
<1> QED
  BY <1>1, PanelInvHolds, PTL DEF Spec, DefaultStaysUnique

\* What the encoder accepts the decoder does, and from Form.bin the places, the tab
\* orders and the default controls of every group come back as they were saved.
THEOREM PlacementIsSaved == Spec => SavingKeepsPlacement
<1>1. PanelInv =>
        (SaveAndLoad =>
          /\ \A c \in Controls : Group(c)' = Group(c) /\ TabOrder(c)' = TabOrder(c)
          /\ default' = default)
  BY SaveKeepsOrders, SaveKeepsDefault
<1>2. PanelInv' => (Encodable' => Decodable')
  BY EncodableIsDecodable, PTL
<1>3. PanelInv /\ PanelInv' /\ [Next]_vars =>
        [/\ Encodable' => Decodable'
         /\ SaveAndLoad =>
            /\ \A c \in Controls : Group(c)' = Group(c) /\ TabOrder(c)' = TabOrder(c)
            /\ default' = default]_vars
  BY <1>1, <1>2
<1> QED
  BY <1>3, PanelInvHolds, PTL DEF Spec, SavingKeepsPlacement

LEMMA PanelIsPlaced ==
    ASSUME PanelInv'
    PROVE  Placed'
<1>1. IsRow(FlattenSeq(children')) /\ Range(FlattenSeq(children')) = Controls
  BY AreaIs DEF PanelInv
<1>2. Len(FlattenSeq(children')) = N
  BY <1>1, RowCount DEF N
<1> QED
  BY <1>1, <1>2 DEF Placed

\* What an operation on c leaves of a control outside its group.
LEMMA OthersStay ==
    ASSUME PanelInv, PanelInv', NEW c \in Controls, Arrange(c) \/ Select(c),
           NEW x \in Controls \ Range(Group(c))
    PROVE  /\ Group(x)' = Group(x)
           /\ TabOrder(x)' = TabOrder(x)
           /\ (x \in default') <=> (x \in default)
<1>1. ~shared /\ PageOf(x) # PageOf(c)
  BY GroupNow DEF PanelInv
<1>2. c \in Range(Group(c)) /\ PageOf(x) \in 1..Pages /\ x \in Range(children[PageOf(x)])
  BY GroupNow, PageIs, PanelNow DEF PanelInv
<1>3. /\ shared' = shared /\ tab'[x] = tab[x]
      /\ children'[PageOf(x)] = children[PageOf(x)]
      /\ (x \in default') <=> (x \in default)
  <2>1. CASE (\E n \in 0..(N + 1) : SetTabOrder(c, n)) \/ ResetTabOrder(c)
    BY <2>1, SetTabOrderIs DEF ResetTabOrder
  <2>2. CASE \E n \in 0..(N + 1) : SetZOrder(c, n)
    BY <1>1, <1>2, <2>2, SetZOrderIs
  <2>3. CASE Select(c)
    BY <1>2, <2>3 DEF Select, SetDefaultControl, ResetDefaultControl
  <2> QED
    BY <2>1, <2>2, <2>3 DEF Arrange
<1>4. PageIn(children', x) = PageOf(x)
  BY <1>2, <1>3, PageIs DEF PanelInv
<1>5. PICK g : g = children[PageOf(x)] /\ g = Group(x) /\ IsRow(g) /\ x \in Range(g)
  BY <1>1, <1>2, GroupNow DEF Group
<1>6. Group(x)' = g
  BY <1>1, <1>3, <1>4, <1>5, PanelNow DEF GroupIn
<1>7. TabOrder(x)' = TabOrder(x)
  <2>1. TabOrder(x) = OrderIn(tab, g, x) /\ TabOrder(x)' = OrderIn(tab', g, x)
    BY <1>5, <1>6, PanelNow
  <2> QED
    BY <1>3, <1>5, <2>1, OrderIs
<1> QED
  BY <1>3, <1>5, <1>6, <1>7

LEMMA DisplayOrderKeepsTabOrder ==
    ASSUME PanelInv, PanelInv', NEW c \in Controls, NEW n \in 0..(N + 1), SetZOrder(c, n),
           NEW x \in Controls
    PROVE  TabOrder(x)' = TabOrder(x)
<1>1. CASE x \notin Range(Group(c))
  BY <1>1, OthersStay DEF Arrange
<1>2. CASE x \in Range(Group(c))
  <2>1. PICK g : g = Group(c) /\ IsRow(g) /\ x \in Range(g) /\ g = Group(x)
    BY <1>2, GroupNow
  <2>2. TabOrder(x) = OrderIn(tab, g, x)
    BY <2>1, PanelNow
  <2>3. CASE children' = children /\ tab' = tab
    <3>1. shared' = shared
      BY SetZOrderIs
    <3>2. Group(x)' = g
      BY <2>1, <2>3, <3>1, PanelNow
    <3> QED
      BY <2>2, <2>3, <3>2, PanelNow
  <2>4. CASE \E m : MovesTo(c, m)
    <3>1. PICK m : MovesTo(c, m)
      BY <2>4
    <3>2. /\ OrderedIn(tab, g) /\ IsRow(m) /\ Range(m) = Range(g) /\ DOMAIN m = DOMAIN g
          /\ Group(x)' = m
          /\ \A y \in Range(g) : tab'[y] = IF m[OrderIn(tab, g, y)] = y THEN Implicit
                                           ELSE OrderIn(tab, g, y)
      BY <2>1, <3>1, RowNow DEF MovesTo
    <3>3. OrderIn(tab', m, x) = OrderIn(tab, g, x)
      BY <2>1, <3>2, TabOrderStays
    <3> QED
      BY <2>2, <3>2, <3>3, PanelNow
  <2> QED
    BY <2>3, <2>4, SetZOrderIs
<1> QED
  BY <1>1, <1>2

LEMMA NewTabOrderMovesOne ==
    ASSUME PanelInv, NEW c \in Controls, NEW n \in DOMAIN Group(c), Ordered(Group(c)),
           SetTabOrder(c, n)
    PROVE  /\ TabOrder(c)' = n
           /\ Ordered(Group(c))'
           /\ \A x, y \in Range(Group(c)) \ {c} :
                (TabOrder(x) < TabOrder(y)) => (TabOrder(x) < TabOrder(y))'
<1>1. PICK g : g = Group(c) /\ IsRow(g) /\ c \in Range(g) /\ OrderedIn(tab, g) /\ n \in DOMAIN g
  BY GroupNow, RowNow
<1>2. shared' = shared /\ children' = children
  BY SetTabOrderIs
<1>3. \A x \in Range(g) : Group(x) = g /\ Group(x)' = g
  BY <1>1, <1>2, GroupNow, PanelNow
<1>4. \A x \in Range(g) : TabOrder(x) = OrderIn(tab, g, x) /\ TabOrder(x)' = OrderIn(tab', g, x)
  BY <1>3, PanelNow
<1>5. \A x \in Range(g) :
         tab'[x] = IF ShiftedOrder(tab, g, c, n, x) = OrderIn(tab, g, x) THEN tab[x]
                   ELSE IF ShiftedOrder(tab, g, c, n, x) = Place(g, x) THEN Implicit
                   ELSE ShiftedOrder(tab, g, c, n, x)
  BY <1>1, SetTabOrderIs
<1>6. /\ OrderedIn(tab', g) /\ OrderIn(tab', g, c) = n
      /\ \A x, y \in Range(g) \ {c} :
           OrderIn(tab, g, x) < OrderIn(tab, g, y) => OrderIn(tab', g, x) < OrderIn(tab', g, y)
  BY <1>1, <1>5, TabOrderMoves
<1>7. Ordered(Group(c))'
  <2>1. Ordered(Group(c))' <=> OrderedIn(tab', Group(c)')
    BY DEF Ordered, Orders, Shown, OrderedIn, ShownIn
  <2> QED
    BY <1>1, <1>3, <1>6, <2>1
<1> QED
  BY <1>1, <1>4, <1>6, <1>7

\* A change of the display order keeps the tab order of every control, a new tab
\* order moves one control among its group and leaves the others in their order,
\* and no operation on a control reaches a control of another group.
THEOREM OrdersStayIndependent == Spec => OrdersAreIndependent
<1>1. PanelInv /\ PanelInv' =>
        [/\ Placed'
         /\ OthersKept
         /\ \A c \in Controls, n \in 0..(N + 1) :
            (\A x \in Controls : TabOrder(x)' = TabOrder(x)) \/ ~SetZOrder(c, n)
         /\ \A c \in Controls, n \in 1..N :
            (Ordered(Group(c)) /\ n \in DOMAIN Group(c) /\ SetTabOrder(c, n)) =>
                /\ TabOrder(c)' = n
                /\ Ordered(Group(c))'
                /\ \A x, y \in Range(Group(c)) \ {c} :
                     (TabOrder(x) < TabOrder(y)) => (TabOrder(x) < TabOrder(y))']_vars
  <2> SUFFICES ASSUME PanelInv, PanelInv'
               PROVE  /\ Placed'
                      /\ OthersKept
                      /\ \A c \in Controls, n \in 0..(N + 1) :
                         (\A x \in Controls : TabOrder(x)' = TabOrder(x)) \/ ~SetZOrder(c, n)
                      /\ \A c \in Controls, n \in 1..N :
                         (Ordered(Group(c)) /\ n \in DOMAIN Group(c) /\ SetTabOrder(c, n)) =>
                           /\ TabOrder(c)' = n
                           /\ Ordered(Group(c))'
                           /\ \A x, y \in Range(Group(c)) \ {c} :
                                (TabOrder(x) < TabOrder(y)) => (TabOrder(x) < TabOrder(y))'
    OBVIOUS
  <2>1. Placed'
    BY PanelIsPlaced
  <2>2. OthersKept
    BY OthersStay DEF OthersKept
  <2>3. ASSUME NEW c \in Controls, NEW n \in 0..(N + 1), SetZOrder(c, n)
        PROVE  \A x \in Controls : TabOrder(x)' = TabOrder(x)
    BY <2>3, DisplayOrderKeepsTabOrder
  <2>4. ASSUME NEW c \in Controls, NEW n \in 1..N,
               Ordered(Group(c)) /\ n \in DOMAIN Group(c) /\ SetTabOrder(c, n)
        PROVE  /\ TabOrder(c)' = n
               /\ Ordered(Group(c))'
               /\ \A x, y \in Range(Group(c)) \ {c} :
                    (TabOrder(x) < TabOrder(y)) => (TabOrder(x) < TabOrder(y))'
    BY <2>4, NewTabOrderMovesOne
  <2> QED
    BY <2>1, <2>2, <2>3, <2>4
<1> QED
  BY <1>1, PanelInvHolds, PTL DEF Spec, OrdersAreIndependent
=============================================================================
