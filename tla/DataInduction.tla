---------------------------- MODULE DataInduction ----------------------------
(***************************************************************************)
(* Induction in the form the proofs of this project use: over a set of     *)
(* natural numbers or of finite sets, so that no operator is a parameter.  *)
(* And what follows for sums and for joined sequences of the community     *)
(* modules.                                                                *)
(***************************************************************************)
EXTENDS Integers, SequencesExt, FiniteSetTheorems, WellFoundedInduction, TLAPS

\* A nonempty set of natural numbers has a least element.
LEMMA Least ==
    ASSUME NEW T, T \subseteq Nat, T # {}
    PROVE  \E x \in T : \A y \in T : x <= y
<1>1. IsWellFoundedOn(OpToRel(<, Nat), Nat)
  BY NatLessThanWellFounded
<1>2. PICK x \in T : \A y \in T : ~ (<<y, x>> \in OpToRel(<, Nat))
  BY <1>1, WFMin
<1>3. \A y \in T : ~(y < x)
  BY <1>2 DEF OpToRel
<1> QED
  BY <1>3

\* A set with 0 that has n + 1 whenever it has n holds every natural number.
LEMMA Induct ==
    ASSUME NEW S, 0 \in S, \A n \in Nat : n \in S => n + 1 \in S
    PROVE  Nat \subseteq S
<1> SUFFICES ASSUME Nat \ S # {} PROVE FALSE
  OBVIOUS
<1>1. PICK x \in Nat \ S : \A y \in Nat \ S : x <= y
  BY Least
<1> QED
  BY <1>1, x - 1 \in Nat

\* A set with {} that has a set whenever it has what is left without one
\* element, holds every subset of a finite set.
LEMMA FiniteInduct ==
    ASSUME NEW D, IsFiniteSet(D), NEW C, {} \in C,
           \A s \in SUBSET D : s # {} /\ (\A x \in s : s \ {x} \in C) => s \in C
    PROVE  SUBSET D \subseteq C
<1> DEFINE S == {n \in Nat : \A s \in SUBSET D : Cardinality(s) = n => s \in C}
<1>1. \A s \in SUBSET D : IsFiniteSet(s) /\ Cardinality(s) \in Nat
  BY FS_Subset, FS_CardinalityType
<1>2. 0 \in S
  BY <1>1, FS_EmptySet
<1>3. ASSUME NEW n \in Nat, n \in S PROVE n + 1 \in S
  <2> SUFFICES ASSUME NEW s \in SUBSET D, Cardinality(s) = n + 1 PROVE s \in C
    OBVIOUS
  <2>1. s # {}
    BY FS_EmptySet, n + 1 # 0
  <2>2. ASSUME NEW x \in s PROVE s \ {x} \in C
    <3>1. Cardinality(s \ {x}) = n
      BY <1>1, FS_RemoveElement
    <3> QED
      BY <3>1, <1>3
  <2> QED
    BY <2>1, <2>2
<1> HIDE DEF S
<1>4. Nat \subseteq S
  BY <1>2, <1>3, Induct
<1> QED
  BY <1>1, <1>4 DEF S

\* g starts with start and goes on by step.
Follows(g, V, start, step) ==
    g \in [Nat -> V] /\ g[0] = start /\ \A k \in Nat : g[k + 1] = step[k][g[k]]

\* A recursive function on the natural numbers exists: its value at 0 and the
\* step from each number to the next determine one.
LEMMA RecursionExists ==
    ASSUME NEW V, NEW start \in V, NEW step \in [Nat -> [V -> V]]
    PROVE  \E g : Follows(g, V, start, step)
<1> DEFINE IsPart(n, p) == /\ p \in [0..n -> V] /\ p[0] = start
                           /\ \A k \in Nat : k < n => p[k + 1] = step[k][p[k]]
           S == {n \in Nat : \E p : IsPart(n, p)}
<1>1. 0 \in S
  <2>1. IsPart(0, [k \in 0..0 |-> start])
    OBVIOUS
  <2> QED
    BY <2>1
<1>2. ASSUME NEW n \in Nat, n \in S PROVE n + 1 \in S
  <2>1. PICK p : IsPart(n, p)
    BY <1>2
  <2> DEFINE q == [k \in 0..(n + 1) |-> IF k <= n THEN p[k] ELSE step[n][p[n]]]
  <2>2. q \in [0..(n + 1) -> V]
    <3>1. \A k \in 0..(n + 1) : k <= n => p[k] \in V
      BY <2>1
    <3>2. step[n][p[n]] \in V
      BY <2>1
    <3> QED
      BY <3>1, <3>2
  <2>3. \A k \in Nat : k <= n => q[k] = p[k]
    OBVIOUS
  <2>4. q[n + 1] = step[n][p[n]]
    OBVIOUS
  <2> HIDE DEF q
  <2>5. \A k \in Nat : k < n + 1 => q[k + 1] = step[k][q[k]]
    <3> SUFFICES ASSUME NEW k \in Nat, k < n + 1 PROVE q[k + 1] = step[k][q[k]]
      OBVIOUS
    <3>1. CASE k = n
      BY <2>3, <2>4, <3>1
    <3>2. CASE k < n
      BY <2>1, <2>3, <3>2
    <3> QED
      BY <3>1, <3>2
  <2>6. IsPart(n + 1, q)
    BY <2>1, <2>2, <2>3, <2>5
  <2> HIDE DEF IsPart
  <2> QED
    BY <2>6
<1> HIDE DEF S
<1>3. Nat \subseteq S
  BY <1>1, <1>2, Induct
<1> DEFINE part == [n \in Nat |-> CHOOSE p : IsPart(n, p)]
<1>4. \A n \in Nat : IsPart(n, part[n])
  <2> HIDE DEF IsPart
  <2> QED
    BY <1>3 DEF S
<1> HIDE DEF part
<1>5. ASSUME NEW n \in Nat PROVE part[n + 1][n] = part[n][n]
  <2> DEFINE T == {k \in Nat : k <= n => part[n + 1][k] = part[n][k]}
  <2>1. 0 \in T
    BY <1>4
  <2>2. ASSUME NEW k \in Nat, k \in T PROVE k + 1 \in T
    <3> SUFFICES ASSUME k + 1 <= n PROVE part[n + 1][k + 1] = part[n][k + 1]
      OBVIOUS
    <3>1. part[n + 1][k] = part[n][k]
      BY <2>2
    <3>2. part[n][k + 1] = step[k][part[n][k]]
      BY <1>4
    <3>3. part[n + 1][k + 1] = step[k][part[n + 1][k]]
      BY <1>4
    <3> QED
      BY <3>1, <3>2, <3>3
  <2> HIDE DEF T
  <2>3. Nat \subseteq T
    BY <2>1, <2>2, Induct
  <2> QED
    BY <2>3 DEF T
<1> DEFINE g == [n \in Nat |-> part[n][n]]
<1>6. g \in [Nat -> V]
  BY <1>4
<1>7. g[0] = start
  BY <1>4
<1>8. ASSUME NEW k \in Nat PROVE g[k + 1] = step[k][g[k]]
  <2>1. part[k + 1][k + 1] = step[k][part[k + 1][k]]
    BY <1>4
  <2> QED
    BY <1>5, <2>1
<1> HIDE DEF g
<1> QED
  BY <1>6, <1>7, <1>8 DEF Follows

\* The same for a function on the numbers up to n.
LEMMA BoundedRecursionExists ==
    ASSUME NEW V, NEW start \in V, NEW n \in Nat, NEW step \in [1..n -> [V -> V]]
    PROVE  \E g \in [0..n -> V] : g[0] = start /\ \A k \in 1..n : g[k] = step[k][g[k - 1]]
<1> DEFINE on == [k \in Nat |-> IF k < n THEN step[k + 1] ELSE [v \in V |-> v]]
<1>1. on \in [Nat -> [V -> V]]
  <2>1. \A k \in Nat : k < n => k + 1 \in 1..n
    OBVIOUS
  <2> QED
    BY <2>1
<1>2. \A k \in Nat : k < n => on[k] = step[k + 1]
  OBVIOUS
<1> HIDE DEF on
<1>3. PICK f : Follows(f, V, start, on)
  BY <1>1, RecursionExists
<1>4. f \in [Nat -> V] /\ f[0] = start /\ \A k \in Nat : f[k + 1] = on[k][f[k]]
  BY <1>3 DEF Follows
<1> DEFINE g == [k \in 0..n |-> f[k]]
<1>5. g \in [0..n -> V] /\ g[0] = start
  BY <1>4
<1>6. ASSUME NEW k \in 1..n PROVE g[k] = step[k][g[k - 1]]
  <2>1. PICK j \in Nat : k = j + 1 /\ j < n
    BY k - 1 \in Nat
  <2>2. f[j + 1] = on[j][f[j]] /\ on[j] = step[j + 1]
    BY <1>2, <1>4, <2>1
  <2>3. g[k] = f[j + 1] /\ g[k - 1] = f[j]
    BY <2>1
  <2> QED
    BY <2>1, <2>2, <2>3
<1> HIDE DEF g
<1> QED
  BY <1>5, <1>6

-----------------------------------------------------------------------------
(* Sums.  A fold is the recursive function that a sum is defined by.       *)

Picked(s) == CHOOSE x \in s : TRUE

Folded(f, D, g) ==
    [s \in SUBSET D |-> IF s = {} THEN 0 ELSE f[Picked(s)] + g[s \ {Picked(s)}]]

IsFold(f, D, g) == g \in [SUBSET D -> Nat] /\ g = Folded(f, D, g)

LEMMA SumIsFold ==
    ASSUME NEW f, NEW D
    PROVE  SumFunctionOnSet(f, D) = (CHOOSE g : g = Folded(f, D, g))[D]
BY DEF SumFunctionOnSet, FoldFunctionOnSet, MapThenFoldSet, Folded, Picked

LEMMA PickedIsIn == ASSUME NEW s, s # {} PROVE Picked(s) \in s
BY DEF Picked

\* What a fold gives for a set does not depend on what it is a fold over.
LEMMA FoldUnique ==
    ASSUME NEW f, NEW D, NEW E, IsFiniteSet(D), NEW g, g = Folded(f, D, g),
           NEW h, h = Folded(f, E, h)
    PROVE  \A s \in SUBSET D : s \in SUBSET E => g[s] = h[s]
<1> DEFINE C == {s \in SUBSET D : s \in SUBSET E => g[s] = h[s]}
<1>1. \A s \in SUBSET D : g[s] = IF s = {} THEN 0 ELSE f[Picked(s)] + g[s \ {Picked(s)}]
  BY DEF Folded
<1>2. \A s \in SUBSET E : h[s] = IF s = {} THEN 0 ELSE f[Picked(s)] + h[s \ {Picked(s)}]
  BY DEF Folded
<1>3. {} \in C
  BY <1>1, <1>2
<1>4. ASSUME NEW s \in SUBSET D, s # {}, \A x \in s : s \ {x} \in C PROVE s \in C
  BY <1>1, <1>2, <1>4, PickedIsIn
<1> HIDE DEF C
<1>5. SUBSET D \subseteq C
  BY <1>3, <1>4, FiniteInduct
<1> QED
  BY <1>5 DEF C

LEMMA FoldExists ==
    ASSUME NEW D, IsFiniteSet(D), NEW f, \A x \in D : f[x] \in Nat
    PROVE  \E g : IsFold(f, D, g)
<1> DEFINE C == {E \in SUBSET D : \E g : IsFold(f, E, g)}
<1> USE DEF IsFold
<1>1. {} \in C
  <2>1. IsFold(f, {}, [s \in SUBSET {} |-> 0])
    BY DEF Folded
  <2> QED
    BY <2>1
<1>2. ASSUME NEW E \in SUBSET D, E # {}, \A x \in E : E \ {x} \in C PROVE E \in C
  <2> DEFINE part == [x \in E |-> CHOOSE g : IsFold(f, E \ {x}, g)]
             whole == [s \in SUBSET E |->
                         IF s = {} THEN 0 ELSE f[Picked(s)] + part[Picked(s)][s \ {Picked(s)}]]
  <2>1. ASSUME NEW x \in E PROVE IsFold(f, E \ {x}, part[x])
    BY <1>2
  <2>2. ASSUME NEW s \in SUBSET E, s # {} PROVE part[Picked(s)][s \ {Picked(s)}] \in Nat
    BY <2>1, <2>2, PickedIsIn
  <2>3. whole \in [SUBSET E -> Nat]
    <3> SUFFICES ASSUME NEW s \in SUBSET E PROVE whole[s] \in Nat
      OBVIOUS
    <3>1. CASE s = {}
      BY <3>1
    <3>2. CASE s # {}
      <4>1. whole[s] = f[Picked(s)] + part[Picked(s)][s \ {Picked(s)}]
        BY <3>2
      <4>2. f[Picked(s)] \in Nat /\ part[Picked(s)][s \ {Picked(s)}] \in Nat
        BY <2>2, <3>2, PickedIsIn
      <4> HIDE DEF whole, part
      <4> QED
        BY <4>1, <4>2
    <3> QED
      BY <3>1, <3>2
  <2>4. ASSUME NEW s \in SUBSET E, s # {}
        PROVE  whole[s \ {Picked(s)}] = part[Picked(s)][s \ {Picked(s)}]
    <3> DEFINE x == Picked(s)  t == s \ {x}  y == Picked(t)
    <3>1. x \in E /\ t \in SUBSET E /\ t \in SUBSET (E \ {x})
      BY <2>4, PickedIsIn
    <3>2. part[x] = Folded(f, E \ {x}, part[x])
      BY <2>1, <3>1
    <3>3. part[x][t] = IF t = {} THEN 0 ELSE f[y] + part[x][t \ {y}]
      BY <3>1, <3>2 DEF Folded
    <3>4. CASE t = {}
      BY <3>1, <3>3, <3>4
    <3>5. CASE t # {}
      <4>1. y \in t /\ y \in E
        BY <3>1, <3>5, PickedIsIn
      <4>2. part[y] = Folded(f, E \ {y}, part[y])
        BY <2>1, <4>1
      <4>3. IsFiniteSet(E \ {x})
        BY FS_Subset
      <4>4. t \ {y} \in SUBSET (E \ {x}) /\ t \ {y} \in SUBSET (E \ {y})
        BY <3>1
      <4> HIDE DEF part, t, x, y
      <4>5. part[x][t \ {y}] = part[y][t \ {y}]
        BY <3>2, <4>2, <4>3, <4>4, FoldUnique
      <4>6. whole[t] = f[y] + part[y][t \ {y}]
        BY <3>1, <3>5 DEF y
      <4> QED
        BY <3>3, <3>5, <4>5, <4>6 DEF t, x
    <3> QED
      BY <3>4, <3>5
  <2>5. whole = Folded(f, E, whole)
    <3>1. \A s \in SUBSET E :
            whole[s] = IF s = {} THEN 0 ELSE f[Picked(s)] + whole[s \ {Picked(s)}]
      <4>1. whole[{}] = 0
        OBVIOUS
      <4>2. ASSUME NEW s \in SUBSET E, s # {}
            PROVE  whole[s] = f[Picked(s)] + whole[s \ {Picked(s)}]
        <5>1. whole[s] = f[Picked(s)] + part[Picked(s)][s \ {Picked(s)}]
          BY <4>2
        <5>2. whole[s \ {Picked(s)}] = part[Picked(s)][s \ {Picked(s)}]
          BY <2>4, <4>2
        <5> HIDE DEF whole, part
        <5> QED
          BY <5>1, <5>2
      <4> HIDE DEF whole, part
      <4> QED
        BY <4>1, <4>2
    <3> HIDE DEF whole
    <3> QED
      BY <2>3, <3>1 DEF Folded
  <2>6. IsFold(f, E, whole)
    BY <2>3, <2>5
  <2> HIDE DEF whole, IsFold
  <2> QED
    BY <2>6
<1> HIDE DEF C
<1>3. SUBSET D \subseteq C
  BY <1>1, <1>2, FiniteInduct
<1> QED
  BY <1>3 DEF C

\* The order in which elements are picked does not matter.
LEMMA FoldStep ==
    ASSUME NEW D, IsFiniteSet(D), NEW f, \A x \in D : f[x] \in Nat,
           NEW g, IsFold(f, D, g), NEW s \in SUBSET D, NEW y \in s
    PROVE  g[s] = f[y] + g[s \ {y}]
<1> DEFINE C == {t \in SUBSET D : \A x \in t : g[t] = f[x] + g[t \ {x}]}
<1>1. \A t \in SUBSET D : g[t] = IF t = {} THEN 0 ELSE f[Picked(t)] + g[t \ {Picked(t)}]
  BY DEF IsFold, Folded
<1>2. {} \in C
  OBVIOUS
<1>3. ASSUME NEW t \in SUBSET D, t # {}, \A x \in t : t \ {x} \in C PROVE t \in C
  <2> SUFFICES ASSUME NEW x \in t PROVE g[t] = f[x] + g[t \ {x}]
    OBVIOUS
  <2>1. PICK z : z = Picked(t)
    OBVIOUS
  <2>2. z \in t /\ g[t] = f[z] + g[t \ {z}]
    BY <1>1, <1>3, <2>1, PickedIsIn
  <2>3. CASE x = z
    BY <2>2, <2>3
  <2>4. CASE x # z
    <3>1. g[t \ {z}] = f[x] + g[(t \ {z}) \ {x}]
      BY <1>3, <2>2, <2>4
    <3>2. g[t \ {x}] = f[z] + g[(t \ {x}) \ {z}]
      BY <1>3, <2>2, <2>4
    <3>3. (t \ {z}) \ {x} = (t \ {x}) \ {z}
      OBVIOUS
    <3>4. PICK a \in Nat : a = f[x]
      BY <2>2
    <3>5. PICK b \in Nat : b = f[z]
      BY <2>2
    <3>6. PICK rest \in Nat : rest = g[(t \ {x}) \ {z}]
      BY DEF IsFold
    <3>7. g[t] = b + (a + rest) /\ g[t \ {x}] = b + rest
      BY <2>2, <3>1, <3>2, <3>3, <3>4, <3>5, <3>6
    <3>8. b + (a + rest) = a + (b + rest)
      OBVIOUS
    <3> QED
      BY <3>4, <3>7, <3>8
  <2> QED
    BY <2>3, <2>4
<1> HIDE DEF C
<1>4. SUBSET D \subseteq C
  BY <1>2, <1>3, FiniteInduct
<1> QED
  BY <1>4 DEF C

\* A sum is what it is without one element, and that element.
LEMMA SumStep ==
    ASSUME NEW D, IsFiniteSet(D), NEW f, \A x \in D : f[x] \in Nat
    PROVE  /\ SumFunctionOnSet(f, D) \in Nat
           /\ \A x \in D : SumFunctionOnSet(f, D) = f[x] + SumFunctionOnSet(f, D \ {x})
<1> DEFINE fold(E) == CHOOSE g : g = Folded(f, E, g)
<1>1. ASSUME NEW E \in SUBSET D
      PROVE  IsFold(f, E, fold(E))
  <2>1. IsFiniteSet(E)
    BY FS_Subset
  <2>2. PICK g : IsFold(f, E, g)
    BY <2>1, FoldExists
  <2>3. fold(E) = Folded(f, E, fold(E))
    BY <2>2 DEF IsFold
  <2>4. \A s \in SUBSET E : fold(E)[s] = g[s]
    BY <2>1, <2>2, <2>3, FoldUnique DEF IsFold
  <2>5. fold(E) = [s \in SUBSET E |-> fold(E)[s]]
    BY <2>3 DEF Folded
  <2> QED
    BY <2>2, <2>3, <2>4, <2>5 DEF IsFold
<1>2. \A E : SumFunctionOnSet(f, E) = fold(E)[E]
  BY SumIsFold
<1> HIDE DEF fold
<1>3. ASSUME NEW x \in D PROVE fold(D)[D] = f[x] + fold(D \ {x})[D \ {x}]
  <2>1. fold(D)[D] = f[x] + fold(D)[D \ {x}]
    <3>1. IsFold(f, D, fold(D))
      BY <1>1
    <3> QED
      BY <3>1, FoldStep
  <2>2. fold(D)[D \ {x}] = fold(D \ {x})[D \ {x}]
    <3>1. fold(D) = Folded(f, D, fold(D))
      BY <1>1 DEF IsFold
    <3>2. fold(D \ {x}) = Folded(f, D \ {x}, fold(D \ {x}))
      BY <1>1 DEF IsFold
    <3> QED
      BY <3>1, <3>2, FoldUnique
  <2> QED
    BY <2>1, <2>2
<1>4. fold(D)[D] \in Nat
  <2>1. fold(D) \in [SUBSET D -> Nat]
    BY <1>1 DEF IsFold
  <2> QED
    BY <2>1
<1> QED
  BY <1>2, <1>3, <1>4

\* Sums of the same numbers are the same.
LEMMA SumAgree ==
    ASSUME NEW f, NEW h, NEW D, \A x \in D : f[x] = h[x]
    PROVE  SumFunctionOnSet(f, D) = SumFunctionOnSet(h, D)
<1>1. ASSUME NEW g PROVE Folded(f, D, g) = Folded(h, D, g)
  BY PickedIsIn DEF Folded
<1> QED
  BY <1>1, SumIsFold

LEMMA SumOfNothing == ASSUME NEW f PROVE SumFunctionOnSet(f, {}) = 0
<1> DEFINE fold == CHOOSE g : g = Folded(f, {}, g)
<1>1. IsFiniteSet({}) /\ \A x \in {} : f[x] \in Nat
  BY FS_EmptySet
<1>2. PICK g : IsFold(f, {}, g)
  BY <1>1, FoldExists
<1>3. fold = Folded(f, {}, fold)
  BY <1>2 DEF IsFold
<1> HIDE DEF fold
<1>4. fold[{}] = 0
  BY <1>3 DEF Folded
<1> QED
  BY <1>4, SumIsFold DEF fold

-----------------------------------------------------------------------------
(* The joining of a sequence of sequences.                                 *)

\* g[k] is what the first k sequences give, joined one after the other.
Joins(g, seqs, V) ==
    /\ g \in [0..Len(seqs) -> Seq(V)]
    /\ g[0] = <<>>
    /\ \A k \in 1..Len(seqs) : g[k] = g[k - 1] \o seqs[k]
    /\ FlattenSeq(seqs) = g[Len(seqs)]

LEMMA Concatenation ==
    ASSUME NEW V, NEW a \in Seq(V), NEW b \in Seq(V)
    PROVE  /\ a \o b \in Seq(V) /\ Len(a) \in Nat /\ Len(b) \in Nat
           /\ Len(a \o b) = Len(a) + Len(b)
           /\ \A p \in 1..Len(a) : (a \o b)[p] = a[p]
           /\ \A p \in 1..Len(b) : (a \o b)[Len(a) + p] = b[p]
OBVIOUS

LEMMA EmptyIsNeutral ==
    ASSUME NEW V, NEW a \in Seq(V)
    PROVE  <<>> \o a = a /\ a \o <<>> = a /\ Len(<<>>) = 0 /\ <<>> \in Seq(V)
OBVIOUS

LEMMA JoiningExists ==
    ASSUME NEW V, NEW seqs \in Seq(Seq(V))
    PROVE  \E g : Joins(g, seqs, V)
<1>1. PICK n \in Nat : n = Len(seqs) /\ DOMAIN seqs = 1..n
  OBVIOUS
<1>2. \A k \in 1..n : seqs[k] \in Seq(V)
  BY <1>1
<1> DEFINE step == [k \in Nat |-> [p \in Seq(V) |->
                      IF k + 1 \in 1..n THEN p \o seqs[k + 1] ELSE p]]
<1>3. <<>> \in Seq(V) /\ step \in [Nat -> [Seq(V) -> Seq(V)]]
  BY <1>2
<1>4. \A k \in 1..n : \A p \in Seq(V) : step[k - 1][p] = p \o seqs[k]
  OBVIOUS
<1> HIDE DEF step
<1>5. PICK h : Follows(h, Seq(V), <<>>, step)
  BY ONLY <1>3, RecursionExists
<1>6. h \in [Nat -> Seq(V)] /\ h[0] = <<>> /\ \A k \in Nat : h[k + 1] = step[k][h[k]]
  BY <1>5 DEF Follows
<1>7. ASSUME NEW k \in 1..n PROVE h[k] = h[k - 1] \o seqs[k] /\ h[k - 1] \in Seq(V)
  <2>1. k - 1 \in Nat /\ (k - 1) + 1 = k
    OBVIOUS
  <2> QED
    BY <1>4, <1>6, <2>1
<1>0. n # 0 => h[1] = seqs[1]
  <2> SUFFICES ASSUME n # 0 PROVE h[1] = seqs[1]
    OBVIOUS
  <2>1. PICK k \in 1..n : k = 1 /\ k - 1 = 0
    OBVIOUS
  <2>2. h[k] = h[k - 1] \o seqs[k] /\ seqs[k] \in Seq(V)
    BY <1>2, <1>7
  <2>3. PICK a \in Seq(V) : a = seqs[k]
    BY <2>2
  <2>4. h[k] = <<>> \o a
    BY <1>6, <2>1, <2>2, <2>3
  <2> QED
    BY <2>1, <2>3, <2>4, EmptyIsNeutral
<1> DEFINE IsFlat(f) == f = [i \in 1..n |-> IF i = 1 THEN seqs[i] ELSE f[i - 1] \o seqs[i]]
<1>8. CASE n = 0
  <2>1. seqs = <<>>
    BY <1>1, <1>8
  <2>2. FlattenSeq(seqs) = <<>>
    BY <2>1 DEF FlattenSeq
  <2>3. Joins([k \in 0..n |-> h[k]], seqs, V)
    BY <1>1, <1>6, <1>8, <2>2 DEF Joins
  <2> QED
    BY <2>3
<1>9. CASE n # 0
  <2>1. IsFlat([i \in 1..n |-> h[i]])
    <3>1. ASSUME NEW i \in 1..n, i # 1 PROVE i - 1 \in 1..n
      BY <3>1
    <3>2. h[1] = seqs[1]
      BY <1>0, <1>9
    <3> QED
      BY <1>7, <3>1, <3>2
  <2> DEFINE flat == CHOOSE f : IsFlat(f)
  <2>2. IsFlat(flat)
    <3> HIDE DEF IsFlat
    <3> QED
      BY <2>1
  <2>3. FlattenSeq(seqs) = flat[n]
    BY <1>1, <1>9 DEF FlattenSeq
  <2> HIDE DEF flat
  <2> DEFINE S == {m \in Nat : m + 1 \in 1..n => flat[m + 1] = h[m + 1]}
  <2>4. 0 \in S
    <3>1. flat[1] = seqs[1]
      BY <1>9, <2>2
    <3> QED
      BY <1>0, <1>9, <3>1
  <2>5. ASSUME NEW m \in Nat, m \in S PROVE m + 1 \in S
    <3> SUFFICES ASSUME (m + 1) + 1 \in 1..n PROVE flat[(m + 1) + 1] = h[(m + 1) + 1]
      OBVIOUS
    <3>1. PICK i \in 1..n : i = (m + 1) + 1 /\ i # 1 /\ i - 1 = m + 1 /\ i - 1 \in 1..n
      OBVIOUS
    <3>2. flat[i] = flat[i - 1] \o seqs[i]
      BY <2>2, <3>1
    <3>3. flat[i - 1] = h[i - 1]
      BY <2>5, <3>1
    <3> HIDE DEF IsFlat, S
    <3> QED
      BY <1>7, <3>1, <3>2, <3>3
  <2> HIDE DEF S
  <2>6. Nat \subseteq S
    BY <2>4, <2>5, Induct
  <2>7. flat[n] = h[n]
    <3>1. n - 1 \in Nat /\ (n - 1) + 1 = n /\ n \in 1..n
      BY <1>9
    <3> QED
      BY <2>6, <3>1 DEF S
  <2> DEFINE g == [k \in 0..n |-> h[k]]
  <2>8. g \in [0..n -> Seq(V)] /\ g[0] = <<>> /\ g[n] = h[n]
    BY <1>6
  <2>9. ASSUME NEW k \in 1..n PROVE g[k] = g[k - 1] \o seqs[k]
    <3>1. k \in 0..n /\ k - 1 \in 0..n
      OBVIOUS
    <3> QED
      BY <1>7, <3>1
  <2> HIDE DEF g
  <2>10. Joins(g, seqs, V)
    BY <1>1, <2>3, <2>7, <2>8, <2>9 DEF Joins
  <2> QED
    BY <2>10
<1> QED
  BY <1>8, <1>9

\* What has been joined stays where it is.
LEMMA JoinedStays ==
    ASSUME NEW V, NEW seqs \in Seq(Seq(V)), NEW g, Joins(g, seqs, V)
    PROVE  \A k \in 0..Len(seqs) : \A j \in 0..k :
             /\ Len(g[j]) <= Len(g[k])
             /\ \A p \in 1..Len(g[j]) : g[k][p] = g[j][p]
<1>1. PICK n \in Nat : n = Len(seqs) /\ DOMAIN seqs = 1..n
  OBVIOUS
<1>2. /\ \A k \in 0..n : g[k] \in Seq(V) /\ Len(g[k]) \in Nat
      /\ \A k \in 1..n : seqs[k] \in Seq(V) /\ g[k] = g[k - 1] \o seqs[k]
  <2>1. \A k \in 0..n : g[k] \in Seq(V)
    BY <1>1 DEF Joins
  <2>2. \A k \in 1..n : g[k] = g[k - 1] \o seqs[k]
    BY <1>1 DEF Joins
  <2>3. \A k \in 1..n : seqs[k] \in Seq(V)
    BY <1>1
  <2>4. \A k \in 0..n : Len(g[k]) \in Nat
    BY <2>1
  <2> QED
    BY <2>1, <2>2, <2>3, <2>4
<1> DEFINE Stays(j, k) == /\ Len(g[j]) <= Len(g[k])
                          /\ \A p \in 1..Len(g[j]) : g[k][p] = g[j][p]
           S == {k \in Nat : k <= n => \A j \in 0..k : Stays(j, k)}
<1>3. 0 \in S
  BY <1>2
<1>4. ASSUME NEW m \in Nat, m \in S PROVE m + 1 \in S
  <2> SUFFICES ASSUME m + 1 <= n, NEW j \in 0..(m + 1) PROVE Stays(j, m + 1)
    OBVIOUS
  <2>1. PICK k \in 1..n : k = m + 1 /\ k - 1 = m /\ m \in 0..n /\ k \in 0..n
    OBVIOUS
  <2>2. CASE j = k
    BY <1>2, <2>1, <2>2
  <2>3. CASE j \in 0..m
    <3>1. Stays(j, m)
      BY <1>4, <2>1, <2>3
    <3>2. g[k] = g[m] \o seqs[k] /\ g[m] \in Seq(V) /\ seqs[k] \in Seq(V) /\ g[j] \in Seq(V)
      <4>1. g[k] = g[k - 1] \o seqs[k] /\ seqs[k] \in Seq(V)
        BY <1>2
      <4>2. j \in 0..n
        BY <2>1, <2>3
      <4> QED
        BY <1>2, <2>1, <4>1, <4>2
    <3>3. Len(g[k]) >= Len(g[m]) /\ \A p \in 1..Len(g[m]) : g[k][p] = g[m][p]
      <4>1. PICK a \in Seq(V), b \in Seq(V) : a = g[m] /\ b = seqs[k]
        BY <3>2
      <4>2. /\ Len(a) \in Nat /\ Len(b) \in Nat
            /\ Len(a \o b) = Len(a) + Len(b)
            /\ \A p \in 1..Len(a) : (a \o b)[p] = a[p]
        BY Concatenation
      <4>3. g[k] = a \o b
        BY <3>2, <4>1
      <4>4. PICK c \in Nat, d \in Nat : c = Len(a) /\ d = Len(b)
        BY <4>2
      <4>5. Len(g[k]) = c + d
        BY <4>2, <4>3, <4>4
      <4>6. Len(g[m]) <= Len(g[k])
        <5>1. Len(g[m]) = c
          BY <4>1, <4>4
        <5>2. c <= c + d
          OBVIOUS
        <5> QED
          BY <4>5, <5>1, <5>2
      <4> QED
        BY <4>1, <4>2, <4>3, <4>6
    <3>4. Len(g[j]) \in Nat /\ Len(g[m]) \in Nat /\ Len(g[k]) \in Nat
      BY <1>2, <2>1, <2>3
    <3> QED
      BY <2>1, <3>1, <3>3, <3>4
  <2> QED
    BY <2>1, <2>2, <2>3
<1> HIDE DEF S
<1>5. Nat \subseteq S
  BY <1>3, <1>4, Induct
<1> QED
  BY <1>1, <1>5 DEF S

\* Where the elements of the k-th sequence are.
JoinsAt(g, seqs, V, k) ==
    /\ seqs[k] \in Seq(V) /\ g[k] \in Seq(V) /\ g[k - 1] \in Seq(V)
    /\ Len(g[k]) = Len(g[k - 1]) + Len(seqs[k])
    /\ Len(g[k]) <= Len(FlattenSeq(seqs))
    /\ FlattenSeq(seqs) \in Seq(V)
    /\ \A p \in 1..Len(seqs[k]) : FlattenSeq(seqs)[Len(g[k - 1]) + p] = seqs[k][p]

LEMMA JoinedAt ==
    ASSUME NEW V, NEW seqs \in Seq(Seq(V)), NEW g, Joins(g, seqs, V),
           NEW k \in 1..Len(seqs)
    PROVE  JoinsAt(g, seqs, V, k)
<1>1. PICK n \in Nat : n = Len(seqs) /\ DOMAIN seqs = 1..n
  OBVIOUS
<1>2. k - 1 \in 0..n /\ k \in 0..n /\ n \in 0..n /\ k \in 1..n
  BY <1>1
<1>3. /\ seqs[k] \in Seq(V) /\ g[k] \in Seq(V) /\ g[k - 1] \in Seq(V) /\ g[n] \in Seq(V)
      /\ g[k] = g[k - 1] \o seqs[k]
      /\ FlattenSeq(seqs) = g[n]
  <2>1. \A i \in 0..n : g[i] \in Seq(V)
    BY <1>1 DEF Joins
  <2>2. g[k] = g[k - 1] \o seqs[k] /\ FlattenSeq(seqs) = g[n]
    BY <1>1, <1>2 DEF Joins
  <2>3. seqs[k] \in Seq(V)
    BY <1>1, <1>2
  <2> QED
    BY <1>2, <2>1, <2>2, <2>3
<1>4. Len(g[k]) <= Len(g[n]) /\ \A p \in 1..Len(g[k]) : g[n][p] = g[k][p]
  <2>1. \A i \in 0..n : \A j \in 0..i :
           Len(g[j]) <= Len(g[i]) /\ \A p \in 1..Len(g[j]) : g[i][p] = g[j][p]
    BY <1>1, JoinedStays
  <2>2. k \in 0..n /\ n \in 0..n
    BY <1>2
  <2> QED
    BY <2>1, <2>2
<1>5. /\ Len(g[k]) = Len(g[k - 1]) + Len(seqs[k])
      /\ \A p \in 1..Len(seqs[k]) : g[k][Len(g[k - 1]) + p] = seqs[k][p]
  <2>1. PICK a \in Seq(V), b \in Seq(V) : a = g[k - 1] /\ b = seqs[k]
    BY <1>3
  <2>2. /\ Len(a \o b) = Len(a) + Len(b)
        /\ \A p \in 1..Len(b) : (a \o b)[Len(a) + p] = b[p]
    BY Concatenation
  <2>3. g[k] = a \o b
    BY <1>3, <2>1
  <2> QED
    BY <2>1, <2>2, <2>3
<1>6. PICK a \in Nat, b \in Nat : a = Len(g[k - 1]) /\ b = Len(seqs[k])
  BY <1>3
<1>7. \A p \in 1..b : a + p \in 1..(a + b)
  OBVIOUS
<1> QED
  BY <1>3, <1>4, <1>5, <1>6, <1>7 DEF JoinsAt

\* The first of the sequences, joined, are what the joining had reached there.
LEMMA JoiningOfPrefix ==
    ASSUME NEW V, NEW seqs \in Seq(Seq(V)), NEW g, Joins(g, seqs, V), NEW k \in 0..Len(seqs)
    PROVE  /\ SubSeq(seqs, 1, k) \in Seq(Seq(V))
           /\ FlattenSeq(SubSeq(seqs, 1, k)) = g[k]
<1>1. PICK n \in Nat : n = Len(seqs) /\ DOMAIN seqs = 1..n /\ k \in 0..n
  OBVIOUS
<1> DEFINE part == SubSeq(seqs, 1, k)
<1>2. part = [i \in 1..k |-> seqs[i]]
  BY <1>1
<1>10. \A i \in 1..k : seqs[i] \in Seq(V)
  BY <1>1
<1> HIDE DEF part
<1>3. part \in Seq(Seq(V)) /\ Len(part) = k /\ \A i \in 1..k : part[i] = seqs[i]
  BY <1>1, <1>2, <1>10
<1>4. PICK h : Joins(h, part, V)
  BY <1>3, JoiningExists
<1>5. h[0] = <<>> /\ (\A i \in 1..k : h[i] = h[i - 1] \o part[i]) /\ FlattenSeq(part) = h[k]
  BY <1>3, <1>4 DEF Joins
<1>6. g[0] = <<>> /\ \A i \in 1..n : g[i] = g[i - 1] \o seqs[i]
  BY <1>1 DEF Joins
<1> DEFINE S == {m \in Nat : m <= k => h[m] = g[m]}
<1>7. 0 \in S
  BY <1>5, <1>6
<1>8. ASSUME NEW m \in Nat, m \in S PROVE m + 1 \in S
  <2> SUFFICES ASSUME m + 1 <= k PROVE h[m + 1] = g[m + 1]
    OBVIOUS
  <2>1. PICK i \in 1..k : i = m + 1 /\ i - 1 = m /\ i \in 1..n
    BY <1>1
  <2>2. h[m] = g[m]
    BY <1>8
  <2>3. h[i] = h[m] \o seqs[i] /\ g[i] = g[m] \o seqs[i]
    BY <1>3, <1>5, <1>6, <2>1
  <2> QED
    BY <2>1, <2>2, <2>3
<1> HIDE DEF S
<1>9. Nat \subseteq S
  BY <1>7, <1>8, Induct
<1> QED
  BY <1>1, <1>3, <1>5, <1>9 DEF S, part

\* Joining one sequence more, and where its elements are in the whole.
LEMMA JoiningStep ==
    ASSUME NEW V, NEW seqs \in Seq(Seq(V)), NEW k \in 1..Len(seqs)
    PROVE  LET before == FlattenSeq(SubSeq(seqs, 1, k - 1))
               after == FlattenSeq(SubSeq(seqs, 1, k))
           IN  /\ before \in Seq(V) /\ after \in Seq(V) /\ seqs[k] \in Seq(V)
               /\ FlattenSeq(seqs) \in Seq(V)
               /\ after = before \o seqs[k]
               /\ Len(after) = Len(before) + Len(seqs[k])
               /\ Len(after) <= Len(FlattenSeq(seqs))
               /\ \A p \in 1..Len(seqs[k]) :
                    FlattenSeq(seqs)[Len(before) + p] = seqs[k][p]
<1>1. PICK g : Joins(g, seqs, V)
  BY JoiningExists
<1>2. k \in 0..Len(seqs) /\ k - 1 \in 0..Len(seqs)
  OBVIOUS
<1>3. FlattenSeq(SubSeq(seqs, 1, k - 1)) = g[k - 1] /\ FlattenSeq(SubSeq(seqs, 1, k)) = g[k]
  BY <1>1, <1>2, JoiningOfPrefix
<1>4. g[k] = g[k - 1] \o seqs[k]
  BY <1>1 DEF Joins
<1>5. JoinsAt(g, seqs, V, k)
  BY <1>1, JoinedAt
<1> QED
  BY <1>3, <1>4, <1>5 DEF JoinsAt

LEMMA JoiningWhole ==
    ASSUME NEW V, NEW seqs \in Seq(Seq(V))
    PROVE  /\ FlattenSeq(seqs) \in Seq(V)
           /\ FlattenSeq(SubSeq(seqs, 1, Len(seqs))) = FlattenSeq(seqs)
           /\ FlattenSeq(SubSeq(seqs, 1, 0)) = <<>>
<1>1. PICK g : Joins(g, seqs, V)
  BY JoiningExists
<1>2. PICK n \in Nat : n = Len(seqs) /\ 0 \in 0..n /\ n \in 0..n
  OBVIOUS
<1>3. g[n] \in Seq(V) /\ FlattenSeq(seqs) = g[n] /\ g[0] = <<>>
  BY <1>1, <1>2 DEF Joins
<1>4. FlattenSeq(SubSeq(seqs, 1, n)) = g[n] /\ FlattenSeq(SubSeq(seqs, 1, 0)) = g[0]
  BY <1>1, <1>2, JoiningOfPrefix
<1> QED
  BY <1>2, <1>3, <1>4

\* The x-th element of the whole is an element of one of the sequences.
IsFrom(x, g, seqs) ==
    \E k \in 1..Len(seqs) : \E p \in 1..Len(seqs[k]) : x = Len(g[k - 1]) + p

LEMMA JoinedFrom ==
    ASSUME NEW V, NEW seqs \in Seq(Seq(V)), NEW g, Joins(g, seqs, V),
           NEW x \in 1..Len(FlattenSeq(seqs))
    PROVE  IsFrom(x, g, seqs)
<1>1. PICK n \in Nat : n = Len(seqs)
  OBVIOUS
<1>2. g[0] = <<>> /\ FlattenSeq(seqs) = g[n] /\ \A i \in 0..n : g[i] \in Seq(V)
  BY <1>1 DEF Joins
<1> DEFINE S == {m \in Nat : (m <= n /\ x <= Len(g[m])) =>
                  \E k \in 1..n : \E p \in 1..Len(seqs[k]) : x = Len(g[k - 1]) + p}
<1>3. x \in Nat /\ x >= 1 /\ x <= Len(g[n])
  <2>1. g[n] \in Seq(V)
    BY <1>1, <1>2
  <2> QED
    BY <1>2, <2>1
<1>4. 0 \in S
  <2>1. Len(g[0]) = 0
    BY <1>2
  <2> QED
    BY <1>3, <2>1
<1>5. ASSUME NEW m \in Nat, m \in S PROVE m + 1 \in S
  <2> SUFFICES ASSUME m + 1 <= n, x <= Len(g[m + 1])
               PROVE \E k \in 1..n : \E p \in 1..Len(seqs[k]) : x = Len(g[k - 1]) + p
    OBVIOUS
  <2>1. CASE x <= Len(g[m])
    <3>1. m <= n
      BY <1>1
    <3> QED
      BY <1>5, <2>1, <3>1
  <2>2. CASE ~(x <= Len(g[m]))
    <3>1. PICK k \in 1..n : k = m + 1 /\ k - 1 = m
      BY <1>1
    <3>2. JoinsAt(g, seqs, V, k)
      BY <1>1, JoinedAt
    <3>3. PICK a \in Nat, b \in Nat : a = Len(g[k - 1]) /\ b = Len(seqs[k])
      BY <3>2 DEF JoinsAt
    <3>4. Len(g[k]) = a + b
      BY <3>2, <3>3 DEF JoinsAt
    <3>5. PICK p \in 1..b : x = a + p
      <4>3. Len(g[m]) = a /\ Len(g[m + 1]) = a + b
        BY <3>1, <3>3, <3>4
      <4>1. x <= a + b /\ x > a
        BY <1>3, <2>2, <4>3
      <4>2. x - a \in 1..b /\ x = a + (x - a)
        BY <1>3, <4>1
      <4> QED
        BY <4>2
    <3> QED
      BY <3>3, <3>5
  <2> QED
    BY <2>1, <2>2
<1> HIDE DEF S
<1>6. Nat \subseteq S
  BY <1>4, <1>5, Induct
<1> QED
  BY <1>1, <1>3, <1>6 DEF S, IsFrom
=============================================================================
