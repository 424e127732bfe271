--------------------------- MODULE Container_proofs ---------------------------
(***************************************************************************)
(* Proof that the reader of a 1C container accepts a file exactly when it  *)
(* is a container, returns its documents and never holds more bytes than   *)
(* the file has, whatever the headers of the file say; and that it gives   *)
(* back what the writer wrote.                                             *)
(***************************************************************************)
EXTENDS ContainerRoundTrip, DataInduction

-----------------------------------------------------------------------------
(* Sums over the documents.                                                *)

\* The sum of the first c values of a function on the numbers from 0.
UpTo(f, c) == SumFunctionOnSet(f, 0..(c - 1))

LEMMA SumOfNone == ASSUME NEW f PROVE UpTo(f, 0) = 0
<1>1. 0..(0 - 1) = {}
  OBVIOUS
<1> QED
  BY <1>1, SumOfNothing DEF UpTo

LEMMA SumOfNext ==
    ASSUME NEW f, NEW c \in Nat, \A d \in 0..c : f[d] \in Nat
    PROVE  UpTo(f, c) \in Nat /\ UpTo(f, c + 1) = UpTo(f, c) + f[c]
<1>1. c + 1 - 1 = c /\ 0..(c - 1) = (0..c) \ {c} /\ c \in 0..c
  OBVIOUS
<1>2. IsFiniteSet(0..c)
  BY FS_Interval
<1>3. SumFunctionOnSet(f, 0..c) = f[c] + SumFunctionOnSet(f, (0..c) \ {c})
  BY <1>1, <1>2, SumStep
<1>4. IsFiniteSet((0..c) \ {c})
  BY <1>2, FS_Subset
<1>5. SumFunctionOnSet(f, (0..c) \ {c}) \in Nat
  <2> DEFINE D == (0..c) \ {c}
  <2>1. \A d \in D : f[d] \in Nat
    OBVIOUS
  <2> HIDE DEF D
  <2> QED
    BY <1>4, <2>1, SumStep DEF D
<1>6. PICK a \in Nat : a = f[c]
  BY <1>1
<1>7. PICK b \in Nat : b = SumFunctionOnSet(f, (0..c) \ {c})
  BY <1>5
<1>8. UpTo(f, c) = b
  BY <1>1, <1>7 DEF UpTo
<1>9. UpTo(f, c + 1) = a + b
  BY <1>1, <1>3, <1>6, <1>7 DEF UpTo
<1>10. UpTo(f, c + 1) = b + a
  BY <1>9
<1> QED
  BY <1>6, <1>8, <1>10

LEMMA SumGrows ==
    ASSUME NEW f, NEW n \in Nat, \A d \in 0..(n - 1) : f[d] \in Nat
    PROVE  \A c \in 0..n : UpTo(f, c) \in Nat /\ UpTo(f, c) <= UpTo(f, n)
<1> DEFINE S == {c \in Nat : c <= n => UpTo(f, c) \in Nat
                                       /\ \A b \in 0..c : UpTo(f, b) <= UpTo(f, c)}
<1>1. 0 \in S
  <2>1. \A b \in 0..0 : b = 0
    OBVIOUS
  <2>2. 0 \in Nat /\ 0 <= 0
    OBVIOUS
  <2> QED
    BY <2>1, <2>2, SumOfNone
<1>2. ASSUME NEW c \in Nat, c \in S PROVE c + 1 \in S
  <2> SUFFICES ASSUME c + 1 <= n
               PROVE  /\ UpTo(f, c + 1) \in Nat
                      /\ \A b \in 0..(c + 1) : UpTo(f, b) <= UpTo(f, c + 1)
    OBVIOUS
  <2>1. f[c] \in Nat /\ UpTo(f, c + 1) = UpTo(f, c) + f[c]
    <3>1. \A d \in 0..c : f[d] \in Nat
      OBVIOUS
    <3> QED
      BY <3>1, SumOfNext
  <2>2. PICK a \in Nat : a = f[c]
    BY <2>1
  <2>3. PICK s \in Nat : s = UpTo(f, c)
    BY <1>2
  <2>4. UpTo(f, c + 1) = s + a
    BY <2>1, <2>2, <2>3
  <2>5. ASSUME NEW b \in 0..(c + 1) PROVE UpTo(f, b) <= UpTo(f, c + 1)
    <3>1. CASE b = c + 1
      BY <2>4, <3>1
    <3>2. CASE b # c + 1
      <4>1. b \in 0..c
        BY <3>2
      <4>2. UpTo(f, b) <= s
        BY <1>2, <2>3, <4>1
      <4>3. b \in Nat
        OBVIOUS
      <4>4. UpTo(f, b) \in Nat
        <5>1. \A d \in 0..b : f[d] \in Nat
          BY <4>1
        <5> QED
          BY <4>3, <5>1, SumOfNext
      <4> QED
        BY <2>4, <4>2, <4>4
    <3> QED
      BY <3>1, <3>2
  <2> QED
    BY <2>4, <2>5
<1> HIDE DEF S
<1>3. Nat \subseteq S
  BY <1>1, <1>2, Induct
<1>4. \A b \in 0..n : UpTo(f, b) <= UpTo(f, n)
  BY <1>3 DEF S
<1>5. \A b \in 0..n : UpTo(f, b) \in Nat
  BY <1>3 DEF S
<1> QED
  BY <1>4, <1>5

-----------------------------------------------------------------------------
(* Prefixes of sequences.                                                  *)

\* The first d elements, of fewer if there are no more.
Prefix(s, d) == SubSeq(s, 1, SmallerOf(d, Len(s)))

LEMMA SmallerIs ==
    ASSUME NEW a \in Nat, NEW b \in Nat
    PROVE  /\ SmallerOf(a, b) \in Nat /\ SmallerOf(a, b) <= a /\ SmallerOf(a, b) <= b
           /\ SmallerOf(a, b) \in {a, b}
BY DEF SmallerOf

LEMMA PositionsAre ==
    ASSUME NEW first \in Nat, NEW n \in Nat
    PROVE  /\ Positions(first, n) \in Seq(Nat) /\ Len(Positions(first, n)) = n
           /\ \A k \in 1..n : Positions(first, n)[k] = first + k - 1
BY DEF Positions

LEMMA Joined ==
    ASSUME NEW s \in Seq(Nat), NEW t \in Seq(Nat)
    PROVE  /\ s \o t \in Seq(Nat) /\ Len(s \o t) = Len(s) + Len(t)
           /\ \A k \in 1..Len(s) : (s \o t)[k] = s[k]
           /\ \A k \in 1..Len(t) : (s \o t)[Len(s) + k] = t[k]
OBVIOUS

LEMMA SameElements ==
    ASSUME NEW s \in Seq(Nat), NEW t \in Seq(Nat), Len(s) = Len(t),
           \A k \in 1..Len(s) : s[k] = t[k]
    PROVE  s = t
OBVIOUS

LEMMA PrefixIs ==
    ASSUME NEW s \in Seq(Nat), NEW d \in Nat
    PROVE  /\ Prefix(s, d) \in Seq(Nat)
           /\ Len(Prefix(s, d)) = SmallerOf(d, Len(s))
           /\ \A k \in 1..SmallerOf(d, Len(s)) : Prefix(s, d)[k] = s[k]
<1>1. PICK n \in Nat : n = SmallerOf(d, Len(s)) /\ n <= Len(s)
  BY SmallerIs
<1>2. SubSeq(s, 1, n) \in Seq(Nat) /\ Len(SubSeq(s, 1, n)) = n
      /\ \A k \in 1..n : SubSeq(s, 1, n)[k] = s[k]
  BY <1>1
<1> QED
  BY <1>1, <1>2 DEF Prefix

\* Copying what is still missing of a block extends the prefix by the block.
LEMMA PrefixGrows ==
    ASSUME NEW s \in Seq(Nat), NEW d \in Nat, NEW first \in Nat, NEW n \in Nat
    PROVE  Prefix(s, d) \o Positions(first, SmallerOf(n, d - Len(Prefix(s, d))))
             = Prefix(s \o Positions(first, n), d)
<1>1. PICK l \in Nat : l = Len(s)
  OBVIOUS
<1>2. PICK p \in Nat : p = SmallerOf(d, l) /\ p <= d /\ p <= l /\ p \in {d, l}
  BY SmallerIs
<1>3. Len(Prefix(s, d)) = p /\ Prefix(s, d) \in Seq(Nat)
      /\ \A k \in 1..p : Prefix(s, d)[k] = s[k]
  BY <1>1, <1>2, PrefixIs
<1>4. PICK c \in Nat : c = SmallerOf(n, d - p) /\ c <= n /\ c <= d - p /\ c \in {n, d - p}
  <2>1. d - p \in Nat
    BY <1>2
  <2> QED
    BY <2>1, SmallerIs
<1> DEFINE all == s \o Positions(first, n)
           copied == Prefix(s, d) \o Positions(first, c)
<1>5. all \in Seq(Nat) /\ Len(all) = l + n
      /\ (\A k \in 1..l : all[k] = s[k])
      /\ \A k \in 1..n : all[l + k] = first + k - 1
  <2>1. PICK t \in Seq(Nat) : t = Positions(first, n) /\ Len(t) = n
                              /\ \A k \in 1..n : t[k] = first + k - 1
    BY PositionsAre
  <2>2. Len(t) = n
    BY <2>1
  <2>3. s \o t \in Seq(Nat) /\ Len(s \o t) = l + n
        /\ (\A k \in 1..l : (s \o t)[k] = s[k])
        /\ \A k \in 1..n : (s \o t)[l + k] = t[k]
    BY <1>1, <2>2, Joined
  <2> QED
    BY <2>1, <2>3
<1>6. copied \in Seq(Nat) /\ Len(copied) = p + c
      /\ (\A k \in 1..p : copied[k] = s[k])
      /\ \A k \in 1..c : copied[p + k] = first + k - 1
  <2>1. PICK t \in Seq(Nat) : t = Positions(first, c) /\ Len(t) = c
                              /\ \A k \in 1..c : t[k] = first + k - 1
    BY PositionsAre
  <2>2. PICK r \in Seq(Nat) : r = Prefix(s, d) /\ Len(r) = p /\ \A k \in 1..p : r[k] = s[k]
    BY <1>3
  <2>3. Len(r) = p /\ Len(t) = c
    BY <2>1, <2>2
  <2>4. r \o t \in Seq(Nat) /\ Len(r \o t) = p + c
        /\ (\A k \in 1..p : (r \o t)[k] = r[k])
        /\ \A k \in 1..c : (r \o t)[p + k] = t[k]
    BY ONLY <2>3, Joined
  <2> QED
    BY <2>1, <2>2, <2>4
<1> HIDE DEF all, copied
<1>7. SmallerOf(d, l + n) = p + c
  <2>1. p = IF d < l THEN d ELSE l
    BY <1>2 DEF SmallerOf
  <2>2. c = IF n < d - p THEN n ELSE d - p
    BY <1>4 DEF SmallerOf
  <2> QED
    BY <2>1, <2>2 DEF SmallerOf
<1>8. Len(Prefix(all, d)) = p + c /\ Prefix(all, d) \in Seq(Nat)
      /\ \A k \in 1..(p + c) : Prefix(all, d)[k] = all[k]
  <2>1. all \in Seq(Nat) /\ SmallerOf(d, Len(all)) = p + c
    BY <1>5, <1>7
  <2> QED
    BY ONLY <2>1, d \in Nat, PrefixIs
<1>9. ASSUME NEW k \in 1..(p + c) PROVE copied[k] = all[k]
  <2>1. CASE k <= p
    BY <1>2, <1>5, <1>6, <2>1
  <2>2. CASE k > p
    <3>1. p = l
      BY <1>2, <1>4, <2>2
    <3>2. PICK i \in 1..c : k = p + i
      BY <2>2, k - p \in 1..c
    <3>3. copied[k] = first + i - 1
      BY <1>6, <3>2
    <3>4. all[k] = first + i - 1
      BY <1>4, <1>5, <3>1, <3>2
    <3> QED
      BY <3>3, <3>4
  <2> QED
    BY <2>1, <2>2
<1>10. copied = Prefix(all, d)
  <2>1. \A k \in 1..(p + c) : Prefix(all, d)[k] = copied[k]
    BY <1>8, <1>9
  <2> QED
    BY ONLY <1>6, <1>8, <2>1, SameElements
<1> QED
  BY <1>3, <1>4, <1>10 DEF all, copied

-----------------------------------------------------------------------------
(* Chains.                                                                 *)

\* What follows in a chain after offset v.
Hop(f, v) == IF v \in DOMAIN f.headers THEN f.headers[v].next ELSE f.size

LEMMA HeaderIs ==
    ASSUME NEW f, IsImage(f), NEW o \in DOMAIN f.headers
    PROVE  /\ o \in Nat /\ o < f.size /\ f.size \in Nat
           /\ f.headers[o].doc \in Nat /\ f.headers[o].cur \in Nat
           /\ f.headers[o].body \in Nat /\ f.headers[o].body <= f.size
           /\ f.headers[o].next \in Nat \cup {End}
<1>1. f.headers[o] \in Headers(f.size)
  BY DEF IsImage
<1>2. f.size \in Nat
  BY DEF IsImage
<1> QED
  BY <1>1, <1>2 DEF IsImage, Headers

LEMMA ChainHops ==
    ASSUME NEW f, IsImage(f), NEW o \in Nat
    PROVE  /\ Chain(f, o) \in [Nat -> Nat \cup {End}]
           /\ Chain(f, o)[0] = o
           /\ \A k \in Nat : Chain(f, o)[k + 1] = Hop(f, Chain(f, o)[k])
<1> DEFINE V == Nat \cup {End}
           Rec(h) == [k \in Nat |->
                        IF k = 0 THEN o
                        ELSE IF h[k - 1] \in DOMAIN f.headers THEN f.headers[h[k - 1]].next
                        ELSE f.size]
           step == [k \in Nat |-> [v \in V |-> Hop(f, v)]]
<1>1. \A v \in V : Hop(f, v) \in V
  BY HeaderIs DEF Hop, IsImage
<1>2. step \in [Nat -> [V -> V]]
  BY <1>1
<1>3. \A k \in Nat : \A v \in V : step[k][v] = Hop(f, v)
  OBVIOUS
<1>4. o \in V
  OBVIOUS
<1> HIDE DEF V, step
<1>5. PICK g : Follows(g, V, o, step)
  BY ONLY <1>2, <1>4, RecursionExists
<1>6. \A k \in Nat : g[k + 1] = Hop(f, g[k])
  BY <1>3, <1>5 DEF Follows
<1>7. \A k \in Nat : k # 0 => k - 1 \in Nat /\ (k - 1) + 1 = k
  OBVIOUS
<1>8. ASSUME NEW h PROVE \A k \in Nat : Rec(h)[k] = IF k = 0 THEN o ELSE Hop(f, h[k - 1])
  BY DEF Hop
<1>9. Rec(g) = g
  <2>1. ASSUME NEW k \in Nat PROVE Rec(g)[k] = g[k]
    <3>1. CASE k = 0
      BY <1>5, <1>8, <3>1 DEF Follows
    <3>2. CASE k # 0
      BY ONLY <1>6, <1>7, <1>8, <3>2
    <3> QED
      BY <3>1, <3>2
  <2> QED
    BY <1>5, <2>1 DEF Follows, Rec
<1>10. Chain(f, o) = CHOOSE h : h = Rec(h)
  BY DEF Chain
<1> HIDE DEF Rec
<1>11. Chain(f, o) = Rec(Chain(f, o))
  BY <1>9, <1>10
<1> DEFINE c == Chain(f, o)
<1>12. c = [k \in Nat |-> c[k]]
  BY <1>11 DEF Rec
<1>13. c[0] = o /\ \A k \in Nat : c[k + 1] = Hop(f, c[k])
  <2>1. \A k \in Nat : c[k] = IF k = 0 THEN o ELSE Hop(f, c[k - 1])
    BY <1>8, <1>11
  <2>2. \A k \in Nat : k + 1 \in Nat /\ k + 1 # 0 /\ k + 1 - 1 = k
    OBVIOUS
  <2> HIDE DEF c
  <2> QED
    BY <2>1, <2>2
<1> HIDE DEF c
<1> DEFINE S == {k \in Nat : c[k] \in V}
<1>14. 0 \in S
  BY <1>4, <1>13
<1>15. \A k \in Nat : k \in S => k + 1 \in S
  BY <1>1, <1>13
<1>16. Nat \subseteq S
  <2> HIDE DEF S
  <2> QED
    BY <1>14, <1>15, Induct
<1> QED
  BY <1>12, <1>13, <1>16 DEF c, V

LEMMA BlockBytesAre ==
    ASSUME NEW f, IsImage(f), NEW v PROVE BlockBytes(f, v) \in Seq(Nat)
<1>1. CASE v \in DOMAIN f.headers
  <2>1. Positions(f.headers[v].body, f.headers[v].cur) \in Seq(Nat)
    BY <1>1, HeaderIs, PositionsAre
  <2> QED
    BY <1>1, <2>1 DEF BlockBytes
<1>2. CASE v \notin DOMAIN f.headers
  BY <1>2 DEF BlockBytes
<1> QED
  BY <1>1, <1>2

LEMMA ChainBytesGrow ==
    ASSUME NEW f, IsImage(f), NEW o \in Nat
    PROVE  /\ ChainBytes(f, o)[0] = <<>>
           /\ \A k \in Nat :
                /\ ChainBytes(f, o)[k] \in Seq(Nat)
                /\ ChainBytes(f, o)[k + 1]
                     = ChainBytes(f, o)[k] \o BlockBytes(f, Chain(f, o)[k])
<1> DEFINE V == Seq(Nat)
           At(k) == BlockBytes(f, Chain(f, o)[k])
           Rec(h) == [k \in Nat |-> IF k = 0 THEN <<>> ELSE h[k - 1] \o At(k - 1)]
           step == [k \in Nat |-> [v \in V |-> v \o At(k)]]
<1>1. \A k \in Nat : At(k) \in Seq(Nat)
  BY BlockBytesAre
<1> HIDE DEF At
<1>2. step \in [Nat -> [V -> V]]
  BY <1>1, Joined
<1>3. \A k \in Nat : \A v \in V : step[k][v] = v \o At(k)
  OBVIOUS
<1>4. <<>> \in V
  OBVIOUS
<1> HIDE DEF V, step
<1>5. PICK g : Follows(g, V, <<>>, step)
  BY ONLY <1>2, <1>4, RecursionExists
<1>6. \A k \in Nat : g[k + 1] = g[k] \o At(k)
  BY <1>3, <1>5 DEF Follows
<1>7. \A k \in Nat : k # 0 => k - 1 \in Nat /\ (k - 1) + 1 = k
  OBVIOUS
<1>8. ASSUME NEW h PROVE \A k \in Nat : Rec(h)[k] = IF k = 0 THEN <<>> ELSE h[k - 1] \o At(k - 1)
  OBVIOUS
<1>9. Rec(g) = g
  <2>1. ASSUME NEW k \in Nat PROVE Rec(g)[k] = g[k]
    <3>1. CASE k = 0
      BY <1>5, <1>8, <3>1 DEF Follows
    <3>2. CASE k # 0
      BY ONLY <1>6, <1>7, <1>8, <3>2
    <3> QED
      BY <3>1, <3>2
  <2> QED
    BY <1>5, <2>1 DEF Follows, Rec
<1>10. ChainBytes(f, o) = CHOOSE h : h = Rec(h)
  BY DEF ChainBytes, At
<1> HIDE DEF Rec
<1> DEFINE c == ChainBytes(f, o)
<1>11. c = Rec(c)
  BY <1>9, <1>10
<1>12. c[0] = <<>> /\ \A k \in Nat : c[k + 1] = c[k] \o At(k)
  <2>1. \A k \in Nat : c[k] = IF k = 0 THEN <<>> ELSE c[k - 1] \o At(k - 1)
    BY <1>8, <1>11
  <2> HIDE DEF c
  <2>2. c[0] = <<>>
    BY <2>1
  <2>3. ASSUME NEW k \in Nat PROVE c[k + 1] = c[k] \o At(k)
    <3>1. PICK j \in Nat : j = k + 1 /\ j # 0 /\ j - 1 = k
      OBVIOUS
    <3>2. c[j] = c[j - 1] \o At(j - 1)
      BY ONLY <2>1, <3>1, j \in Nat
    <3> QED
      BY ONLY <3>1, <3>2
  <2> QED
    BY ONLY <2>2, <2>3
<1> HIDE DEF c
<1> DEFINE S == {k \in Nat : c[k] \in V}
<1>13. 0 \in S
  BY <1>4, <1>12
<1>14. \A k \in Nat : k \in S => k + 1 \in S
  <2> SUFFICES ASSUME NEW k \in Nat, c[k] \in Seq(Nat) PROVE c[k + 1] \in Seq(Nat)
    BY DEF V
  <2>1. PICK s \in Seq(Nat) : s = c[k]
    OBVIOUS
  <2>2. PICK t \in Seq(Nat) : t = At(k)
    BY <1>1
  <2>3. s \o t \in Seq(Nat)
    OBVIOUS
  <2> QED
    BY <1>12, <2>1, <2>2, <2>3
<1>15. Nat \subseteq S
  <2> HIDE DEF S
  <2> QED
    BY <1>13, <1>14, Induct
<1> QED
  BY <1>12, <1>15 DEF c, V, At

\* The offsets of a chain that ends are offsets of headers up to its end only.
LEMMA EndsOnce ==
    ASSUME NEW f, IsImage(f), NEW o \in Nat, NEW n \in Nat, ChainEnds(f, o, n),
           NEW m \in Nat, ChainEnds(f, o, m)
    PROVE  m = n
<1>1. \A k \in Nat : k < n => Chain(f, o)[k] \in DOMAIN f.headers
  BY DEF ChainEnds
<1>2. \A k \in Nat : k < m => Chain(f, o)[k] \in DOMAIN f.headers
  BY DEF ChainEnds
<1>3. End \notin DOMAIN f.headers
  BY ContainerAssumption DEF IsImage
<1>4. Chain(f, o)[n] = End /\ Chain(f, o)[m] = End
  BY DEF ChainEnds
<1>5. ~(n < m)
  BY <1>2, <1>3, <1>4
<1>6. ~(m < n)
  BY <1>1, <1>3, <1>4
<1> QED
  BY <1>5, <1>6

LEMMA LengthIs ==
    ASSUME NEW f, IsImage(f), NEW o \in Nat, NEW most \in Nat, NEW n \in 1..most,
           ChainEnds(f, o, n)
    PROVE  IsChain(f, o, most) /\ Length(f, o, most) = n
<1>1. IsChain(f, o, most)
  BY DEF IsChain
<1>2. Length(f, o, most) \in 1..most /\ ChainEnds(f, o, Length(f, o, most))
  BY DEF Length
<1> QED
  BY <1>1, <1>2, EndsOnce

\* A chain that ends comes to no offset twice.
LEMMA NoReturn ==
    ASSUME NEW f, IsImage(f), NEW o \in Nat, NEW n \in Nat, ChainEnds(f, o, n),
           NEW j \in Nat, NEW m \in Nat, j < m, m < n
    PROVE  Chain(f, o)[j] # Chain(f, o)[m]
<1> SUFFICES ASSUME Chain(f, o)[j] = Chain(f, o)[m] PROVE FALSE
  OBVIOUS
<1> DEFINE S == {i \in Nat : Chain(f, o)[j + i] = Chain(f, o)[m + i]}
<1>1. 0 \in S
  OBVIOUS
<1>2. ASSUME NEW i \in Nat, i \in S PROVE i + 1 \in S
  <2>1. Chain(f, o)[j + i + 1] = Hop(f, Chain(f, o)[j + i])
    BY ChainHops, j + i \in Nat
  <2>2. Chain(f, o)[m + i + 1] = Hop(f, Chain(f, o)[m + i])
    BY ChainHops, m + i \in Nat
  <2>3. j + (i + 1) = j + i + 1 /\ m + (i + 1) = m + i + 1
    OBVIOUS
  <2> QED
    BY <1>2, <2>1, <2>2, <2>3
<1>3. Nat \subseteq S
  <2> HIDE DEF S
  <2> QED
    BY <1>1, <1>2, Induct
<1>4. n - m \in Nat /\ m + (n - m) = n /\ j + (n - m) \in Nat /\ j + (n - m) < n
  OBVIOUS
<1>5. Chain(f, o)[j + (n - m)] = Chain(f, o)[n]
  BY <1>3, <1>4
<1>6. Chain(f, o)[n] = End /\ \A k \in Nat : k < n => Chain(f, o)[k] \in DOMAIN f.headers
  BY DEF ChainEnds
<1>7. End \notin DOMAIN f.headers
  BY ContainerAssumption DEF IsImage
<1> QED
  BY <1>4, <1>5, <1>6, <1>7

-----------------------------------------------------------------------------
(* The inductive invariant.                                                *)

At(d) == DocumentAt(image, d)
LastDocument == 2 * image.count
EntryOf(d) == image.entries[(d + 1) \div 2]
Allowed == SmallerOf(image.size, MaxVisits)
Read == UpTo(Blocks(image, image.size), current)

\* The first m blocks of the chain from o: seen are their offsets, decl is the
\* declared size of the document, held its bytes as far as the blocks go.
Walked(f, o, m, seen, decl, held) ==
    /\ \A k \in 0..(m - 1) :
         /\ Chain(f, o)[k] \in DOMAIN f.headers
         /\ f.headers[Chain(f, o)[k]].body + f.headers[Chain(f, o)[k]].cur <= f.size
    /\ seen = {Chain(f, o)[k] : k \in 0..(m - 1)}
    /\ m = 0 => decl = 0 /\ held = <<>>
    /\ m > 0 => /\ decl = f.headers[o].doc /\ decl <= f.size
                /\ held = Prefix(ChainBytes(f, o)[m], decl)

RTypes ==
    /\ image \in Images
    /\ pc \in {"start", "open", "block", "document", "done", "failed"}
    /\ current \in Nat
    /\ budget \in Nat /\ total \in Nat /\ remaining \in Nat /\ kept \in Nat
    /\ payload \in Seq(Nat)
    /\ files \in Seq(Seq(Nat))
    /\ pc = "start" => current = 0
    /\ pc = "open" => current \in 1..LastDocument
    /\ pc \in {"block", "document"} => current \in 0..LastDocument
    /\ pc = "done" => current = LastDocument + 1

\* Document d has been read and what parse_container asks of it holds.
Behind(d) ==
    /\ IsDocument(image, At(d), image.size)
    /\ d = 0 => image.headers[TocOffset].doc = image.count * EntrySize
    /\ d % 2 = 1 => /\ EntryOf(d).marker /\ EntryOf(d).clean
                    /\ image.headers[EntryOf(d).descriptor].doc >= MinDescriptor

RBehind ==
    /\ pc \notin {"start", "failed"} => image.magic
    /\ \A d \in 0..(current - 1) : Behind(d)

RFiles ==
    /\ Len(files) = IF current = 0 THEN 0 ELSE (current - 1) \div 2
    /\ \A i \in 1..Len(files) :
         files[i] = Document(image, image.entries[i].payload, image.size)

RAccounts ==
    /\ kept = UpTo(Declared(image), current)
    /\ kept <= image.size
    /\ pc \in {"open", "done"} =>
         /\ remaining + kept = image.size
         /\ Read + budget = Allowed

\* Between two blocks: the next one is the next of the chain, or the chain has
\* ended.
RWalk ==
    pc \in {"block", "document"} =>
        /\ current > 0 =>
             /\ At(current) \in DOMAIN image.headers
             /\ remaining + kept + image.headers[At(current)].doc = image.size
             /\ current % 2 = 1 => EntryOf(current).marker
        /\ \E m \in 0..image.size :
             /\ Walked(image, At(current), m, visited, total, payload)
             /\ Read + m + budget = Allowed
             /\ pc = "block" =>
                  offset = Chain(image, At(current))[m] /\ offset \in Nat
             /\ pc = "document" =>
                  /\ m > 0 /\ Chain(image, At(current))[m] = End
                  /\ Len(payload) >= total

RFailed == pc = "failed" => ~WellFormed(image, image.size)

RInv == RTypes /\ RBehind /\ RFiles /\ RAccounts /\ RWalk /\ RFailed

-----------------------------------------------------------------------------
(* Walking a chain.                                                        *)

LEMMA PrefixOfNone == ASSUME NEW d \in Nat PROVE Prefix(<<>>, d) = <<>>
<1>1. SmallerOf(d, 0) = 0
  BY DEF SmallerOf
<1>2. Len(<<>>) = 0
  OBVIOUS
<1> QED
  BY <1>1, <1>2 DEF Prefix

\* No more is held than the document declares.
LEMMA HeldAtMost ==
    ASSUME NEW f, IsImage(f), NEW o \in Nat, NEW m \in Nat,
           NEW seen, NEW decl \in Nat, NEW held \in Seq(Nat),
           Walked(f, o, m, seen, decl, held)
    PROVE  Len(held) <= decl
<1>1. CASE m = 0
  BY <1>1 DEF Walked
<1>2. CASE m > 0
  <2>1. PICK bytes \in Seq(Nat) : bytes = ChainBytes(f, o)[m]
    BY ChainBytesGrow
  <2>2. Len(Prefix(bytes, decl)) = SmallerOf(decl, Len(bytes))
    BY PrefixIs
  <2>3. SmallerOf(decl, Len(bytes)) <= decl
    BY SmallerIs
  <2> QED
    BY <1>2, <2>1, <2>2, <2>3 DEF Walked
<1> QED
  BY <1>1, <1>2

\* One turn of read_document's loop goes one block on.
LEMMA WalkStep ==
    ASSUME NEW f, IsImage(f), NEW o \in Nat, NEW m \in Nat,
           NEW seen, NEW decl \in Nat, NEW held \in Seq(Nat),
           Walked(f, o, m, seen, decl, held),
           NEW v, v = Chain(f, o)[m], v \in DOMAIN f.headers,
           f.headers[v].cur <= f.size - f.headers[v].body,
           NEW d, d = (IF seen = {} THEN f.headers[v].doc ELSE decl), d <= f.size
    PROVE  LET next == held \o Positions(f.headers[v].body,
                                 SmallerOf(f.headers[v].cur, d - Len(held)))
           IN  Walked(f, o, m + 1, seen \cup {v}, d, next)
<1>1. Chain(f, o)[0] = o
  BY ChainHops
<1>2. PICK body \in Nat : body = f.headers[v].body
  BY HeaderIs
<1>3. PICK cur \in Nat : cur = f.headers[v].cur
  BY HeaderIs
<1>4. PICK bytes \in Seq(Nat) : bytes = ChainBytes(f, o)[m]
  BY ChainBytesGrow
<1>5. ASSUME m = 0
      PROVE  d = f.headers[o].doc /\ d \in Nat /\ held = Prefix(bytes, d)
  <2>1. seen = {} /\ held = <<>>
    BY <1>5 DEF Walked
  <2>2. d = f.headers[o].doc /\ v = o
    BY <1>1, <1>5, <2>1
  <2>3. d \in Nat
    BY <2>2, HeaderIs
  <2>4. bytes = <<>>
    BY <1>4, <1>5, ChainBytesGrow
  <2> QED
    BY <2>1, <2>2, <2>3, <2>4, PrefixOfNone
<1>6. ASSUME m > 0
      PROVE  d = f.headers[o].doc /\ d \in Nat /\ held = Prefix(bytes, d)
  <2>1. seen # {}
    BY <1>6, 0 \in 0..(m - 1) DEF Walked
  <2> QED
    BY <1>4, <1>6, <2>1 DEF Walked
<1>7. d = f.headers[o].doc /\ d \in Nat /\ held = Prefix(bytes, d)
  BY <1>5, <1>6
<1>8. ChainBytes(f, o)[m + 1] = bytes \o Positions(body, cur)
  BY <1>2, <1>3, <1>4, ChainBytesGrow DEF BlockBytes
<1>9. held \o Positions(body, SmallerOf(cur, d - Len(held))) = Prefix(ChainBytes(f, o)[m + 1], d)
  <2>1. Prefix(bytes, d) \o Positions(body, SmallerOf(cur, d - Len(Prefix(bytes, d))))
          = Prefix(bytes \o Positions(body, cur), d)
    <3>1. d \in Nat
      BY <1>7
    <3> QED
      BY ONLY <3>1, PrefixGrows
  <2> QED
    BY ONLY <1>7, <1>8, <2>1
<1>10. 0..((m + 1) - 1) = (0..(m - 1)) \cup {m}
  OBVIOUS
<1>11. \A k \in 0..((m + 1) - 1) :
         /\ Chain(f, o)[k] \in DOMAIN f.headers
         /\ f.headers[Chain(f, o)[k]].body + f.headers[Chain(f, o)[k]].cur <= f.size
  <2>1. body + cur <= f.size
    <3>1. PICK size \in Nat : size = f.size
      BY HeaderIs
    <3> QED
      BY <1>2, <1>3, <3>1
  <2>2. \A k \in 0..((m + 1) - 1) : k = m \/ k \in 0..(m - 1)
    OBVIOUS
  <2> QED
    BY <1>2, <1>3, <2>1, <2>2 DEF Walked
<1>12. seen \cup {v} = {Chain(f, o)[k] : k \in 0..((m + 1) - 1)}
  BY <1>10 DEF Walked
<1>13. Walked(f, o, m + 1, seen \cup {v}, d,
              held \o Positions(body, SmallerOf(cur, d - Len(held))))
  <2>1. d = f.headers[o].doc /\ d <= f.size
    BY <1>7
  <2>2. m + 1 # 0
    OBVIOUS
  <2>3. PICK all : all = held \o Positions(body, SmallerOf(cur, d - Len(held)))
    OBVIOUS
  <2>4. all = Prefix(ChainBytes(f, o)[m + 1], d)
    BY ONLY <1>9, <2>3
  <2>5. Walked(f, o, m + 1, seen \cup {v}, d, all)
    BY ONLY <1>11, <1>12, <2>1, <2>2, <2>4 DEF Walked
  <2> QED
    BY ONLY <2>3, <2>5
<1> QED
  BY <1>2, <1>3, <1>13

\* A chain that has been walked to its end is a document, and what is held is it.
LEMMA WalkEnds ==
    ASSUME NEW f, IsImage(f), NEW o \in Nat, NEW m \in 1..f.size,
           NEW seen, NEW decl \in Nat, NEW held \in Seq(Nat),
           Walked(f, o, m, seen, decl, held),
           Chain(f, o)[m] = End, Len(held) >= decl
    PROVE  /\ IsDocument(f, o, f.size) /\ Length(f, o, f.size) = m
           /\ held = Document(f, o, f.size)
           /\ o \in DOMAIN f.headers /\ Len(held) = f.headers[o].doc
<1>1. ChainEnds(f, o, m)
  BY DEF ChainEnds, Walked
<1>2. f.size \in Nat
  BY DEF IsImage
<1>3. IsChain(f, o, f.size) /\ Length(f, o, f.size) = m
  BY <1>1, <1>2, LengthIs
<1>4. o \in DOMAIN f.headers
  <2>1. Chain(f, o)[0] \in DOMAIN f.headers
    BY 0 \in 0..(m - 1) DEF Walked
  <2> QED
    BY <2>1, ChainHops
<1>5. m \in Nat /\ m > 0
  BY <1>2
<1>6. PICK bytes \in Seq(Nat) : bytes = ChainBytes(f, o)[m]
  BY <1>5, ChainBytesGrow
<1>7. held = Prefix(bytes, decl) /\ decl = f.headers[o].doc
  BY <1>5, <1>6 DEF Walked
<1>8. PICK l \in Nat : l = Len(bytes)
  OBVIOUS
<1>9. Len(held) = SmallerOf(decl, l)
  BY <1>7, <1>8, PrefixIs
<1>10. SmallerOf(decl, l) = decl /\ decl <= l
  BY <1>8, <1>9 DEF SmallerOf
<1>11. held = SubSeq(bytes, 1, decl)
  BY <1>7, <1>8, <1>10 DEF Prefix
<1> QED
  BY <1>3, <1>4, <1>6, <1>7, <1>8, <1>9, <1>10, <1>11 DEF IsDocument, Document

\* A document's chain is never refused: while it has not ended, its next block
\* is a new one inside the file, and the last one brings what was missing.
LEMMA WalkGoesOn ==
    ASSUME NEW f, IsImage(f), NEW o \in Nat, NEW m \in Nat,
           NEW seen, NEW decl, NEW held, Walked(f, o, m, seen, decl, held),
           IsDocument(f, o, f.size), Chain(f, o)[m] # End
    PROVE  LET v == Chain(f, o)[m]
           IN  /\ m < Length(f, o, f.size)
               /\ v \in DOMAIN f.headers /\ v \notin seen
               /\ f.headers[v].body + f.headers[v].cur <= f.size
               /\ f.headers[v].next # End => f.headers[v].next < f.size
               /\ f.headers[v].next = End =>
                    f.headers[o].doc <= Len(ChainBytes(f, o)[m + 1])
<1> DEFINE n == Length(f, o, f.size)
           h == Chain(f, o)
<1>1. n \in 1..f.size /\ ChainEnds(f, o, n)
  BY DEF IsDocument, IsChain, Length
<1>2. n \in Nat /\ n > 0
  BY <1>1 DEF IsImage
<1>3. f.headers[o].doc <= Len(ChainBytes(f, o)[n])
  BY DEF IsDocument
<1> HIDE DEF n
<1>4. h[n] = End /\ \A k \in Nat : k < n =>
        /\ h[k] \in DOMAIN f.headers
        /\ f.headers[h[k]].body + f.headers[h[k]].cur <= f.size
  BY <1>1, <1>2 DEF ChainEnds
<1>5. \A k \in Nat : k < m => h[k] \in DOMAIN f.headers
  BY DEF Walked
<1>6. End \notin DOMAIN f.headers
  BY ContainerAssumption DEF IsImage
<1>7. m < n
  BY <1>2, <1>4, <1>5, <1>6
<1>8. h[m] \in DOMAIN f.headers /\ f.headers[h[m]].body + f.headers[h[m]].cur <= f.size
  BY <1>4, <1>7
<1>9. h[m] \notin seen
  <2>1. ASSUME NEW k \in 0..(m - 1) PROVE h[k] # h[m]
    BY <1>1, <1>2, <1>7, NoReturn
  <2> QED
    BY <2>1 DEF Walked
<1>10. f.headers[h[m]].next = h[m + 1]
  BY <1>8, ChainHops DEF Hop
<1>11. CASE m + 1 = n
  BY <1>3, <1>4, <1>7, <1>8, <1>9, <1>10, <1>11 DEF n
<1>12. CASE m + 1 < n
  <2>1. h[m + 1] \in DOMAIN f.headers
    BY <1>4, <1>12
  <2>2. h[m + 1] < f.size /\ h[m + 1] # End
    BY <1>6, <2>1, HeaderIs
  <2> QED
    BY <1>7, <1>8, <1>9, <1>10, <2>2 DEF n
<1> QED
  BY <1>2, <1>7, <1>11, <1>12

-----------------------------------------------------------------------------
(* What the invariant says of the file.                                    *)

LEMMA ImageIs ==
    ASSUME RTypes
    PROVE  /\ IsImage(image) /\ image.size \in Nat /\ image.count \in Nat
           /\ LastDocument \in Nat /\ Allowed \in Nat /\ Allowed <= image.size
           /\ Allowed = SmallerOf(image.size, MaxVisits)
<1>1. IsImage(image)
  BY ContainerAssumption DEF RTypes
<1>2. image.size \in Nat /\ image.count \in Nat
  BY <1>1 DEF IsImage
<1>3. MaxVisits \in Nat
  BY ContainerAssumption
<1>4. LastDocument \in Nat
  BY <1>2 DEF LastDocument
<1> QED
  BY <1>1, <1>2, <1>3, <1>4, SmallerIs DEF Allowed

LEMMA OffsetsAre ==
    ASSUME RTypes, NEW d \in 0..LastDocument
    PROVE  /\ At(d) \in Nat
           /\ d > 0 => (d + 1) \div 2 \in 1..image.count /\ EntryOf(d) \in Entries
           /\ d > 0 => At(d) = IF d % 2 = 1 THEN EntryOf(d).descriptor ELSE EntryOf(d).payload
<1>1. CASE d = 0
  BY <1>1, ContainerAssumption DEF At, DocumentAt
<1>2. CASE d # 0
  <2>1. PICK c \in Nat : c = image.count
    BY ImageIs
  <2>2. d \in 1..(2 * c)
    BY <1>2, <2>1 DEF LastDocument
  <2>3. (d + 1) \div 2 \in 1..c
    BY <2>2
  <2>4. image.entries \in Seq(Entries) /\ Len(image.entries) = c
    BY <2>1, ImageIs DEF IsImage
  <2>5. EntryOf(d) \in Entries
    BY <2>3, <2>4 DEF EntryOf
  <2>6. At(d) = IF d % 2 = 1 THEN EntryOf(d).descriptor ELSE EntryOf(d).payload
    BY <1>2 DEF At, DocumentAt, EntryOf
  <2>7. EntryOf(d).descriptor \in Nat /\ EntryOf(d).payload \in Nat
    BY <2>5 DEF Entries
  <2> QED
    BY <2>1, <2>3, <2>5, <2>6, <2>7
<1> QED
  BY <1>1, <1>2

\* A document has a first header and a number of blocks.
LEMMA DocumentIs ==
    ASSUME NEW f, IsImage(f), NEW o \in Nat, IsDocument(f, o, f.size)
    PROVE  /\ o \in DOMAIN f.headers /\ f.headers[o].doc \in Nat
           /\ Length(f, o, f.size) \in 1..f.size
<1>1. Length(f, o, f.size) \in 1..f.size /\ ChainEnds(f, o, Length(f, o, f.size))
  BY DEF IsDocument, IsChain, Length
<1>2. f.size \in Nat
  BY DEF IsImage
<1>3. 0 \in 0..(Length(f, o, f.size) - 1)
  BY <1>1, <1>2
<1>4. Chain(f, o)[0] \in DOMAIN f.headers
  BY <1>1, <1>3 DEF ChainEnds
<1>5. o \in DOMAIN f.headers
  BY <1>4, ChainHops
<1> QED
  BY <1>1, <1>5, HeaderIs

LEMMA SummandsAre ==
    ASSUME RTypes, NEW d \in 0..LastDocument, IsDocument(image, At(d), image.size)
    PROVE  /\ Declared(image)[d] = image.headers[At(d)].doc
           /\ Declared(image)[d] \in Nat
           /\ Blocks(image, image.size)[d] = Length(image, At(d), image.size)
           /\ Blocks(image, image.size)[d] \in Nat
<1>1. At(d) \in Nat /\ IsImage(image) /\ image.size \in Nat
  BY ImageIs, OffsetsAre
<1>2. image.headers[At(d)].doc \in Nat /\ Length(image, At(d), image.size) \in 1..image.size
  BY <1>1, DocumentIs
<1>3. d \in 0..(2 * image.count)
  BY DEF LastDocument
<1>4. Declared(image)[d] = image.headers[At(d)].doc
  BY <1>3 DEF Declared, At
<1>5. Blocks(image, image.size)[d] = Length(image, At(d), image.size)
  BY <1>3 DEF Blocks, At
<1> QED
  BY <1>1, <1>2, <1>4, <1>5

\* What the documents of a container need of the file and of the budget.
LEMMA Needed ==
    ASSUME RTypes, WellFormed(image, image.size), NEW c \in 0..LastDocument
    PROVE  /\ IsDocument(image, At(c), image.size)
           /\ UpTo(Declared(image), c) \in Nat
           /\ UpTo(Declared(image), c) + image.headers[At(c)].doc <= image.size
           /\ UpTo(Blocks(image, image.size), c) \in Nat
           /\ UpTo(Blocks(image, image.size), c) + Length(image, At(c), image.size) <= Allowed
<1>1. LastDocument \in Nat /\ LastDocument = 2 * image.count
  BY ImageIs DEF LastDocument
<1>2. \A d \in 0..LastDocument : IsDocument(image, At(d), image.size)
  BY <1>1 DEF WellFormed, At
<1> DEFINE D == Declared(image)
           B == Blocks(image, image.size)
           n == LastDocument + 1
<1>3. \A d \in 0..LastDocument : D[d] \in Nat /\ B[d] \in Nat
  BY <1>2, SummandsAre
<1>4. D[c] = image.headers[At(c)].doc /\ B[c] = Length(image, At(c), image.size)
  BY <1>2, SummandsAre
<1>5. DOMAIN D = 0..(n - 1) /\ DOMAIN B = 0..(n - 1)
  BY <1>1 DEF Declared, Blocks
<1>6. SumFunction(D) <= image.size /\ SumFunction(B) <= Allowed
  BY DEF WellFormed, Allowed
<1>7. UpTo(D, n) <= image.size /\ UpTo(B, n) <= Allowed
  BY <1>5, <1>6 DEF SumFunction, UpTo
<1> HIDE DEF D, B
<1>8. n \in Nat /\ c \in Nat /\ c + 1 \in 0..n /\ n - 1 = LastDocument
  BY <1>1
<1>9. UpTo(D, c) \in Nat /\ UpTo(D, c + 1) = UpTo(D, c) + D[c]
  <2>1. \A d \in 0..c : D[d] \in Nat
    BY <1>1, <1>3
  <2> QED
    BY <1>8, <2>1, SumOfNext
<1>10. UpTo(B, c) \in Nat /\ UpTo(B, c + 1) = UpTo(B, c) + B[c]
  <2>1. \A d \in 0..c : B[d] \in Nat
    BY <1>1, <1>3
  <2> QED
    BY <1>8, <2>1, SumOfNext
<1>11. UpTo(D, c + 1) <= UpTo(D, n) /\ UpTo(D, n) \in Nat /\ UpTo(D, c + 1) \in Nat
  <2>1. \A d \in 0..(n - 1) : D[d] \in Nat
    BY <1>3, <1>8
  <2> QED
    BY <1>8, n \in 0..n, <2>1, SumGrows
<1>12. UpTo(B, c + 1) <= UpTo(B, n) /\ UpTo(B, n) \in Nat /\ UpTo(B, c + 1) \in Nat
  <2>1. \A d \in 0..(n - 1) : B[d] \in Nat
    BY <1>3, <1>8
  <2> QED
    BY <1>8, n \in 0..n, <2>1, SumGrows
<1>13. UpTo(D, c + 1) <= image.size /\ UpTo(B, c + 1) <= Allowed
  BY <1>7, <1>11, <1>12, ImageIs
<1> QED
  BY <1>2, <1>4, <1>9, <1>10, <1>13 DEF D, B

-----------------------------------------------------------------------------
(* The steps.                                                              *)

LEMMA NothingWalked ==
    ASSUME NEW f, IsImage(f), NEW o PROVE Walked(f, o, 0, {}, 0, <<>>)
<1>1. 0..(0 - 1) = {}
  OBVIOUS
<1> QED
  BY <1>1 DEF Walked

LEMMA InitHolds == Init => RInv
<1> SUFFICES ASSUME Init PROVE RInv
  OBVIOUS
<1> USE DEF Init
<1>1. RTypes
  BY DEF RTypes
<1>2. RBehind
  BY DEF RBehind
<1>3. RFiles
  BY DEF RFiles
<1>4. RAccounts
  <2>1. image.size \in Nat
    BY <1>1, ImageIs
  <2> QED
    BY <2>1, SumOfNone DEF RAccounts
<1>5. RWalk /\ RFailed
  BY DEF RWalk, RFailed
<1> QED
  BY <1>1, <1>2, <1>3, <1>4, <1>5 DEF RInv

LEMMA FailStep ==
    ASSUME RInv, Fail, ~WellFormed(image, image.size) PROVE RInv'
<1>1. /\ pc' = "failed" /\ image' = image /\ current' = current /\ budget' = budget
      /\ total' = total /\ payload' = payload /\ remaining' = remaining
      /\ files' = files /\ kept' = kept
  BY DEF Fail, reading
<1>2. RTypes'
  BY <1>1 DEF RInv, RTypes
<1>3. RBehind'
  BY <1>1 DEF RInv, RBehind, Behind, At, EntryOf
<1>4. RFiles'
  BY <1>1 DEF RInv, RFiles
<1>5. RAccounts'
  BY <1>1 DEF RInv, RAccounts
<1>6. RWalk' /\ RFailed'
  BY <1>1 DEF RWalk, RFailed
<1> QED
  BY <1>2, <1>3, <1>4, <1>5, <1>6 DEF RInv

LEMMA StartStep == ASSUME RInv, Start PROVE RInv'
<1>1. RTypes /\ pc = "start" /\ current = 0
  BY DEF RInv, RTypes, Start
<1>2. /\ pc' = "block" /\ image' = image /\ current' = 0 /\ budget' = Allowed
      /\ offset' = TocOffset /\ visited' = {} /\ total' = 0 /\ payload' = <<>>
      /\ remaining' = remaining /\ files' = files /\ kept' = kept /\ image.magic
  BY <1>1 DEF Start, BeginDocument, Allowed
<1>3. IsImage(image) /\ image.size \in Nat /\ Allowed \in Nat /\ LastDocument \in Nat
  BY <1>1, ImageIs
<1>4. RTypes'
  <2>1. LastDocument' = LastDocument
    BY <1>2 DEF LastDocument
  <2> QED
    BY <1>1, <1>2, <1>3, <2>1 DEF RTypes
<1>5. RBehind'
  BY <1>2 DEF RBehind
<1>6. RFiles'
  BY <1>1, <1>2 DEF RInv, RFiles
<1>7. RAccounts'
  BY <1>1, <1>2 DEF RInv, RAccounts
<1>8. RWalk'
  <2>1. Read' = 0 /\ Allowed' = Allowed
    BY <1>2, SumOfNone DEF Read, Allowed
  <2>2. At(current)' = TocOffset /\ TocOffset \in Nat
    BY <1>2, ContainerAssumption DEF At, DocumentAt
  <2>3. Walked(image, TocOffset, 0, {}, 0, <<>>)
    BY <1>3, NothingWalked
  <2>4. offset' = Chain(image, TocOffset)[0]
    BY <1>2, <1>3, <2>2, ChainHops
  <2>5. 0 \in 0..image.size /\ 0 + 0 + Allowed = Allowed
    BY <1>3
  <2> DEFINE W(m) == /\ Walked(image, At(current), m, visited, total, payload)'
                     /\ (Read + m + budget = Allowed)'
                     /\ (offset = Chain(image, At(current))[m] /\ offset \in Nat)'
  <2>6. W(0)
    BY <1>2, <2>1, <2>2, <2>3, <2>4, <2>5
  <2> QED
    BY <1>2, <2>5, <2>6 DEF RWalk
<1>9. RFailed'
  BY <1>2 DEF RFailed
<1> QED
  BY <1>4, <1>5, <1>6, <1>7, <1>8, <1>9 DEF RInv

LEMMA StartFailsStep == ASSUME RInv, StartFails PROVE RInv'
<1>1. ~WellFormed(image, image.size) /\ Fail
  BY DEF StartFails, WellFormed
<1> QED
  BY <1>1, FailStep

-----------------------------------------------------------------------------
(* Blocks.                                                                 *)

\* The blocks of the documents that have been read.
LEMMA ReadIs ==
    ASSUME RTypes, RBehind, current \in 0..LastDocument PROVE Read \in Nat
<1> DEFINE B == Blocks(image, image.size)
<1>1. current \in Nat /\ LastDocument \in Nat
  BY ImageIs
<1>2. ASSUME NEW d \in 0..(current - 1) PROVE B[d] \in Nat
  <2>1. d \in 0..LastDocument
    BY <1>1
  <2>2. IsDocument(image, At(d), image.size)
    BY DEF RBehind, Behind
  <2> QED
    BY <2>1, <2>2, SummandsAre
<1> HIDE DEF B
<1>3. UpTo(B, current) \in Nat
  BY ONLY <1>1, <1>2, current \in 0..current, SumGrows
<1> QED
  BY <1>3 DEF Read, B

\* While a document is read, its chain, the sums before it and the budget.
LEMMA Reading ==
    ASSUME RInv, pc \in {"block", "document"}
    PROVE  /\ IsImage(image) /\ image.size \in Nat /\ Allowed \in Nat
           /\ Allowed <= image.size
           /\ current \in 0..LastDocument /\ At(current) \in Nat
           /\ total \in Nat /\ payload \in Seq(Nat) /\ budget \in Nat
           /\ Read \in Nat
<1>1. RTypes /\ RBehind
  BY DEF RInv
<1>2. current \in 0..LastDocument /\ current \in Nat /\ LastDocument \in Nat
  BY <1>1, ImageIs DEF RTypes
<1>3. At(current) \in Nat
  BY <1>1, <1>2, OffsetsAre
<1>4. Read \in Nat
  BY <1>1, <1>2, ReadIs
<1> QED
  BY <1>1, <1>2, <1>3, <1>4, ImageIs DEF RTypes

LEMMA ReadBlockStep == ASSUME RInv, ReadBlock PROVE RInv'
<1> DEFINE o == At(current)
<1>1. pc = "block" /\ BlockAccepted /\ BlockAdmitted /\ BlockInside
  BY DEF ReadBlock, BlockAccepted
<1>2. /\ image' = image /\ current' = current /\ remaining' = remaining
      /\ files' = files /\ kept' = kept
      /\ budget' = budget - 1 /\ visited' = visited \cup {offset}
      /\ total' = DeclaredTotal
      /\ payload' = payload \o Positions(Header.body, CopySize)
  BY DEF ReadBlock
<1>3. IF Header.next = End THEN pc' = "document" /\ offset' = offset
      ELSE pc' = "block" /\ offset' = Header.next
  BY DEF ReadBlock
<1>4. pc' \in {"block", "document"}
  BY <1>3
<1>5. /\ IsImage(image) /\ image.size \in Nat /\ Allowed \in Nat /\ Allowed <= image.size
      /\ current \in 0..LastDocument /\ o \in Nat
      /\ total \in Nat /\ payload \in Seq(Nat) /\ budget \in Nat /\ Read \in Nat
  BY <1>1, Reading
<1>6. PICK m \in 0..image.size :
             /\ Walked(image, o, m, visited, total, payload)
             /\ Read + m + budget = Allowed
             /\ offset = Chain(image, o)[m] /\ offset \in Nat
  BY <1>1 DEF RInv, RWalk
<1>7. offset \in DOMAIN image.headers /\ Header = image.headers[offset] /\ budget > 0
  BY <1>1 DEF BlockAdmitted, Header
<1>8. m \in Nat /\ m + 1 \in 0..image.size /\ m + 1 > 0
  BY <1>5, <1>6, <1>7
<1>9. Walked(image, o, m + 1, visited', total', payload')
  <2>1. Header.cur <= image.size - Header.body /\ DeclaredTotal <= image.size
    BY <1>1 DEF BlockInside, BlockAccepted
  <2>2. Walked(image, o, m + 1, visited \cup {offset}, DeclaredTotal,
               payload \o Positions(Header.body,
                            SmallerOf(Header.cur, DeclaredTotal - Len(payload))))
    BY <1>5, <1>6, <1>7, <1>8, <2>1, WalkStep DEF DeclaredTotal
  <2> QED
    BY <1>2, <2>2 DEF CopySize
<1>10. Chain(image, o)[m + 1] = Header.next
  BY <1>5, <1>6, <1>7, <1>8, ChainHops DEF Hop
<1>11. Read' = Read /\ Allowed' = Allowed /\ LastDocument' = LastDocument /\ o' = o
  BY <1>2 DEF Read, Allowed, LastDocument, At
<1>12. Read' + (m + 1) + budget' = Allowed' /\ budget' \in Nat
  BY <1>2, <1>5, <1>6, <1>7, <1>8, <1>11
<1>13. total' \in Nat /\ payload' \in Seq(Nat)
  <2>1. total' = image.headers[o].doc /\ payload' = Prefix(ChainBytes(image, o)[m + 1], total')
    BY <1>8, <1>9 DEF Walked
  <2>2. o \in DOMAIN image.headers
    <3>1. 0 \in 0..((m + 1) - 1)
      BY <1>8
    <3>2. Chain(image, o)[0] \in DOMAIN image.headers
      BY <1>9, <3>1 DEF Walked
    <3> QED
      BY <1>5, <3>2, ChainHops
  <2>3. total' \in Nat
    BY <1>5, <2>1, <2>2, HeaderIs
  <2>4. ChainBytes(image, o)[m + 1] \in Seq(Nat)
    BY <1>5, m + 1 \in Nat, ChainBytesGrow
  <2> QED
    BY <2>1, <2>3, <2>4, PrefixIs
<1>14. RTypes'
  BY <1>1, <1>2, <1>4, <1>5, <1>11, <1>12, <1>13 DEF RInv, RTypes
<1>15. RBehind'
  BY <1>1, <1>2, <1>4 DEF RInv, RBehind, Behind, At, EntryOf
<1>16. RFiles'
  BY <1>2 DEF RInv, RFiles
<1>17. RAccounts'
  BY <1>2, <1>4 DEF RInv, RAccounts
<1>18. RWalk'
  <2>1. (current > 0 =>
             /\ At(current) \in DOMAIN image.headers
             /\ remaining + kept + image.headers[At(current)].doc = image.size
             /\ current % 2 = 1 => EntryOf(current).marker)'
    BY <1>1, <1>2, <1>11 DEF RInv, RWalk, EntryOf
  <2>2. pc' = "block" => offset' = Chain(image, o)[m + 1] /\ offset' \in Nat
    BY <1>3, <1>5, <1>7, <1>10, HeaderIs
  <2>3. pc' = "document" => Chain(image, o)[m + 1] = End /\ Len(payload') >= total'
    <3> SUFFICES ASSUME pc' = "document"
                 PROVE  Chain(image, o)[m + 1] = End /\ Len(payload') >= total'
      OBVIOUS
    <3>1. Header.next = End
      BY <1>3
    <3>2. Len(payload) + CopySize >= total'
      BY <1>1, <1>2, <3>1 DEF BlockAccepted
    <3>3. Len(payload') = Len(payload) + CopySize
      <4>1. PICK body \in Nat : body = Header.body
        BY <1>5, <1>7, HeaderIs
      <4>2. CopySize \in Nat
        <5>1. PICK cur \in Nat : cur = Header.cur
          BY <1>5, <1>7, HeaderIs
        <5>2. PICK t \in Nat : t = DeclaredTotal
          BY <1>2, <1>13
        <5>3. PICK l \in Nat : l = Len(payload) /\ l <= t
          <6>1. CASE m = 0
            BY <1>5, <1>6, <5>2, <6>1 DEF Walked
          <6>2. CASE m > 0
            <7>1. total = DeclaredTotal
              BY <1>6, <6>2, 0 \in 0..(m - 1) DEF Walked, DeclaredTotal
            <7>2. Len(payload) <= total
              BY <1>5, <1>6, <1>8, HeldAtMost
            <7> QED
              BY <1>5, <5>2, <7>1, <7>2
          <6> QED
            BY <1>8, <6>1, <6>2
        <5>4. t - l \in Nat
          BY <5>3
        <5> QED
          BY <5>1, <5>2, <5>3, <5>4, SmallerIs DEF CopySize
      <4>3. PICK s \in Seq(Nat) : s = Positions(body, CopySize) /\ Len(s) = CopySize
        BY <4>2, PositionsAre
      <4> QED
        BY <1>2, <1>5, <4>1, <4>3
    <3> QED
      BY <1>10, <3>1, <3>2, <3>3
  <2> DEFINE W(n) == /\ Walked(image, At(current), n, visited, total, payload)'
                     /\ (Read + n + budget = Allowed)'
                     /\ (pc = "block" =>
                           offset = Chain(image, At(current))[n] /\ offset \in Nat)'
                     /\ (pc = "document" =>
                           /\ n > 0 /\ Chain(image, At(current))[n] = End
                           /\ Len(payload) >= total)'
  <2>4. W(m + 1)
    BY <1>2, <1>8, <1>9, <1>11, <1>12, <2>2, <2>3
  <2> HIDE DEF W
  <2>5. \E n \in 0..image'.size : W(n)
    BY <1>2, <1>8, <2>4
  <2> QED
    BY <2>1, <2>5 DEF RWalk, W
<1>19. RFailed'
  BY <1>4 DEF RFailed
<1> QED
  BY <1>14, <1>15, <1>16, <1>17, <1>18, <1>19 DEF RInv

LEMMA BlockFailsStep == ASSUME RInv, BlockFails PROVE RInv'
<1> DEFINE o == At(current)
<1>1. pc = "block" /\ ~BlockAccepted /\ Fail
  BY DEF BlockFails
<1> SUFFICES ASSUME WellFormed(image, image.size) PROVE FALSE
  BY <1>1, FailStep
<1>2. /\ IsImage(image) /\ image.size \in Nat /\ Allowed \in Nat
      /\ current \in 0..LastDocument /\ o \in Nat
      /\ total \in Nat /\ payload \in Seq(Nat) /\ budget \in Nat /\ Read \in Nat
  BY <1>1, Reading
<1>3. PICK m \in 0..image.size :
             /\ Walked(image, o, m, visited, total, payload)
             /\ Read + m + budget = Allowed
             /\ offset = Chain(image, o)[m] /\ offset \in Nat
  BY <1>1 DEF RInv, RWalk
<1>4. m \in Nat
  BY <1>2
<1>5. /\ IsDocument(image, o, image.size)
      /\ UpTo(Declared(image), current) + image.headers[o].doc <= image.size
      /\ UpTo(Declared(image), current) \in Nat
      /\ Read + Length(image, o, image.size) <= Allowed
  BY <1>2, Needed DEF RInv, Read
<1>6. offset # End
  BY <1>3, ContainerAssumption
<1>7. /\ m < Length(image, o, image.size)
      /\ offset \in DOMAIN image.headers /\ offset \notin visited
      /\ Header.body + Header.cur <= image.size
      /\ Header.next # End => Header.next < image.size
      /\ Header.next = End => image.headers[o].doc <= Len(ChainBytes(image, o)[m + 1])
  BY <1>2, <1>3, <1>4, <1>5, <1>6, WalkGoesOn DEF Header
<1>8. o \in DOMAIN image.headers /\ Length(image, o, image.size) \in 1..image.size
  BY <1>2, <1>5, DocumentIs
<1>9. PICK doc \in Nat : doc = image.headers[o].doc /\ doc <= image.size
  BY <1>2, <1>5, <1>8, HeaderIs
<1>10. budget > 0
  BY <1>2, <1>3, <1>4, <1>5, <1>7, <1>8
<1>11. BlockAdmitted
  BY <1>2, <1>7, <1>10, HeaderIs DEF BlockAdmitted
<1>12. PICK body \in Nat : body = Header.body
  BY <1>2, <1>7, HeaderIs DEF Header
<1>13. PICK cur \in Nat : cur = Header.cur
  BY <1>2, <1>7, HeaderIs DEF Header
<1>14. BlockInside
  BY <1>2, <1>7, <1>12, <1>13 DEF BlockInside
<1>15. DeclaredTotal = doc
  <2>1. CASE m = 0
    <3>1. visited = {} /\ offset = o
      BY <1>2, <1>3, <2>1, ChainHops DEF Walked
    <3> QED
      BY <1>9, <3>1 DEF DeclaredTotal, Header
  <2>2. CASE m > 0
    BY <1>3, <1>9, <2>2, 0 \in 0..(m - 1) DEF Walked, DeclaredTotal
  <2> QED
    BY <1>4, <2>1, <2>2
<1>16. ASSUME Header.next = End PROVE Len(payload) + CopySize >= DeclaredTotal
  <2> DEFINE next == payload \o Positions(body, CopySize)
  <2>1. Header.cur <= image.size - Header.body
    BY <1>14 DEF BlockInside
  <2>2. Walked(image, o, m + 1, visited \cup {offset}, DeclaredTotal,
               payload \o Positions(Header.body,
                            SmallerOf(Header.cur, DeclaredTotal - Len(payload))))
    BY <1>2, <1>3, <1>4, <1>7, <1>9, <1>15, <2>1, WalkStep DEF DeclaredTotal, Header
  <2>3. next = Prefix(ChainBytes(image, o)[m + 1], doc)
    BY <1>4, <1>12, <1>15, <2>2 DEF Walked, CopySize
  <2>4. PICK bytes \in Seq(Nat) : bytes = ChainBytes(image, o)[m + 1]
    BY <1>2, <1>4, m + 1 \in Nat, ChainBytesGrow
  <2>5. PICK l \in Nat : l = Len(bytes) /\ doc <= l
    BY <1>7, <1>9, <1>16, <2>4
  <2>6. SmallerOf(doc, l) = doc
    BY <2>5 DEF SmallerOf
  <2>7. Len(next) = doc
    <3>1. Len(Prefix(bytes, doc)) = SmallerOf(doc, Len(bytes))
      BY PrefixIs
    <3> QED
      BY <2>3, <2>4, <2>5, <2>6, <3>1
  <2>8. PICK p \in Nat : p = Len(payload) /\ p <= doc
    <3>1. PICK q \in Nat : q = Len(payload)
      BY <1>2
    <3>2. q <= total /\ total \in Nat
      BY <1>2, <1>3, <1>4, <3>1, HeldAtMost
    <3>3. total <= doc
      BY <1>2, <1>3, <1>9 DEF Walked
    <3>4. q <= doc
      BY <3>2, <3>3
    <3> QED
      BY <3>1, <3>4
  <2>9. CopySize \in Nat
    BY <1>13, <1>15, <2>8, doc - p \in Nat, SmallerIs DEF CopySize
  <2>10. PICK s \in Seq(Nat) : s = Positions(body, CopySize) /\ Len(s) = CopySize
    BY <2>9, PositionsAre
  <2>11. Len(payload \o s) = Len(payload) + CopySize
    BY <1>2, <2>10
  <2> QED
    BY <1>15, <2>7, <2>10, <2>11
<1>17. BlockAccepted
  BY <1>7, <1>9, <1>11, <1>14, <1>15, <1>16 DEF BlockAccepted
<1> QED
  BY <1>1, <1>17

-----------------------------------------------------------------------------
(* Documents.                                                              *)

\* A chain that has ended is a document, and the payload is it.
LEMMA AtEnd ==
    ASSUME RInv, pc = "document"
    PROVE  /\ IsDocument(image, At(current), image.size)
           /\ payload = Document(image, At(current), image.size)
           /\ At(current) \in DOMAIN image.headers
           /\ Len(payload) = image.headers[At(current)].doc
           /\ Len(payload) <= image.size
           /\ Read + Length(image, At(current), image.size) + budget = Allowed
<1> DEFINE o == At(current)
<1>1. /\ IsImage(image) /\ image.size \in Nat /\ o \in Nat
      /\ total \in Nat /\ payload \in Seq(Nat)
  BY Reading
<1>2. PICK m \in 0..image.size :
             /\ Walked(image, o, m, visited, total, payload)
             /\ Read + m + budget = Allowed
             /\ m > 0 /\ Chain(image, o)[m] = End
             /\ Len(payload) >= total
  BY DEF RInv, RWalk
<1>3. m \in 1..image.size
  BY <1>1, <1>2
<1>4. /\ IsDocument(image, o, image.size) /\ Length(image, o, image.size) = m
      /\ payload = Document(image, o, image.size)
      /\ o \in DOMAIN image.headers /\ Len(payload) = image.headers[o].doc
  BY <1>1, <1>2, <1>3, WalkEnds
<1>5. image.headers[o].doc <= image.size
  BY <1>2 DEF Walked
<1> QED
  BY <1>2, <1>4, <1>5

\* parse_container goes on to the next document.
LEMMA NextDocumentStep ==
    ASSUME RInv, pc = "document", NextDocument, Behind(current),
           remaining' = IF current = 0 THEN image.size - Len(payload) ELSE remaining,
           files' \in Seq(Seq(Nat)), RFiles'
    PROVE  RInv'
<1> DEFINE o == At(current)
<1>1. /\ image' = image /\ current' = current + 1 /\ kept' = kept + Len(payload)
      /\ offset' = offset /\ visited' = visited /\ budget' = budget
      /\ total' = total /\ payload' = payload
      /\ pc' = IF current = 2 * image.count THEN "done" ELSE "open"
  BY DEF NextDocument, reading
<1>2. /\ IsImage(image) /\ image.size \in Nat /\ Allowed \in Nat
      /\ current \in 0..LastDocument /\ o \in Nat
      /\ total \in Nat /\ payload \in Seq(Nat) /\ budget \in Nat /\ Read \in Nat
  BY Reading
<1>3. /\ IsDocument(image, o, image.size)
      /\ o \in DOMAIN image.headers /\ Len(payload) = image.headers[o].doc
      /\ Len(payload) <= image.size
      /\ Read + Length(image, o, image.size) + budget = Allowed
  BY AtEnd
<1>4. LastDocument' = LastDocument /\ LastDocument = 2 * image.count /\ LastDocument \in Nat /\ Allowed' = Allowed
  BY <1>1, ImageIs DEF LastDocument, Allowed, RInv
<1>5. pc' \in {"done", "open"} /\ (pc' = "done" <=> current = LastDocument)
  BY <1>1, <1>4
<1>6. \A d \in 0..current : d \in 0..LastDocument /\ Behind(d)
  <2>1. \A d \in 0..current : d = current \/ d \in 0..(current - 1)
    BY <1>2
  <2>2. \A d \in 0..current : d \in 0..LastDocument
    BY <1>2, <1>4
  <2> QED
    BY <2>1, <2>2 DEF RInv, RBehind
<1> DEFINE D == Declared(image)
           B == Blocks(image, image.size)
<1>7. \A d \in 0..current : D[d] \in Nat /\ B[d] \in Nat
  BY <1>6, SummandsAre DEF Behind, RInv
<1>8. D[current] = Len(payload) /\ B[current] = Length(image, o, image.size)
  BY <1>2, <1>3, SummandsAre DEF RInv
<1> HIDE DEF D, B
<1>9. current \in Nat /\ current + 1 \in Nat
  BY <1>2
<1>10. UpTo(D, current + 1) = UpTo(D, current) + D[current]
  <2>1. \A d \in 0..current : D[d] \in Nat
    BY <1>7
  <2> QED
    BY <1>9, <2>1, SumOfNext
<1>11. UpTo(B, current + 1) = UpTo(B, current) + B[current]
  <2>1. \A d \in 0..current : B[d] \in Nat
    BY <1>7
  <2> QED
    BY <1>9, <2>1, SumOfNext
<1>12. kept = UpTo(D, current) /\ kept \in Nat /\ Read = UpTo(B, current)
       /\ remaining \in Nat
  BY DEF RInv, RAccounts, RTypes, D, B, Read
<1>13. kept' = UpTo(D, current + 1) /\ Read' = Read + Length(image, o, image.size)
  BY <1>1, <1>8, <1>10, <1>11, <1>12 DEF Read, B
<1>14. remaining' + kept' = image.size /\ remaining' \in Nat /\ kept' \in Nat
  <2>1. CASE current = 0
    <3>1. kept = 0
      BY <1>12, <2>1, SumOfNone
    <3>2. PICK l \in Nat : l = Len(payload)
      BY <1>2
    <3>3. l <= image.size
      BY <1>3, <3>2
    <3>4. remaining' = image.size - l
      BY <1>1, <2>1, <3>2
    <3>5. kept' = l
      BY <1>1, <3>1, <3>2
    <3>6. PICK z \in Nat : z = image.size
      BY <1>2
    <3>7. l <= z /\ remaining' = z - l /\ kept' = l
      BY <3>3, <3>4, <3>5, <3>6
    <3>8. remaining' + kept' = z /\ remaining' \in Nat /\ kept' \in Nat
      BY ONLY <3>7, l \in Nat, z \in Nat
    <3> QED
      BY <3>6, <3>8
  <2>2. CASE current > 0
    <3>1. remaining + kept + image.headers[o].doc = image.size
      BY <2>2 DEF RInv, RWalk
    <3>2. PICK l \in Nat : l = Len(payload)
      BY <1>2
    <3>3. kept' = kept + l /\ remaining' = remaining /\ remaining + kept + l = image.size
      BY <1>1, <1>3, <2>2, <3>1, <3>2
    <3>4. remaining \in Nat /\ kept \in Nat
      BY <1>12
    <3> QED
      BY ONLY <3>3, <3>4
  <2> QED
    BY <1>9, <2>1, <2>2
<1>15. RTypes'
  <2>1. image \in Images
    BY DEF RInv, RTypes
  <2>2. pc' = "open" => current' \in 1..LastDocument'
    BY <1>1, <1>2, <1>4, <1>5
  <2>3. pc' = "done" => current' = LastDocument' + 1
    BY <1>1, <1>4, <1>5
  <2> QED
    BY <1>1, <1>2, <1>5, <1>9, <1>14, <2>1, <2>2, <2>3 DEF RTypes
<1>16. RBehind'
  <2>1. (current + 1) - 1 = current
    BY <1>9
  <2> QED
    BY <1>1, <1>5, <1>6, <2>1 DEF RInv, RBehind, Behind, At, EntryOf
<1>17. RAccounts'
  <2>1. kept' = UpTo(Declared(image'), current')
    BY <1>1, <1>13 DEF D
  <2>2. kept' <= image'.size /\ remaining' + kept' = image'.size
    BY <1>1, <1>2, <1>14
  <2>3. Read' + budget' = Allowed'
    BY <1>1, <1>3, <1>4, <1>13
  <2> QED
    BY <2>1, <2>2, <2>3 DEF RAccounts
<1>18. RWalk' /\ RFailed'
  BY <1>5 DEF RWalk, RFailed
<1> QED
  BY <1>15, <1>16, <1>17, <1>18 DEF RInv

LEMMA TocReadStep == ASSUME RInv, TocRead PROVE RInv'
<1>1. /\ pc = "document" /\ current = 0 /\ NextDocument
      /\ Len(payload) = image.count * EntrySize
      /\ remaining' = image.size - Len(payload) /\ files' = files
  BY DEF TocRead
<1>2. image' = image /\ current' = 1
  BY <1>1 DEF NextDocument
<1>3. Behind(current)
  <2>1. At(0) = TocOffset
    BY DEF At, DocumentAt
  <2> QED
    BY <1>1, <2>1, AtEnd DEF Behind
<1>4. files' \in Seq(Seq(Nat)) /\ RFiles'
  BY <1>1, <1>2 DEF RInv, RTypes, RFiles
<1> QED
  BY <1>1, <1>3, <1>4, NextDocumentStep

LEMMA TocFailsStep == ASSUME RInv, TocFails PROVE RInv'
<1>1. /\ pc = "document" /\ current = 0 /\ Fail
      /\ Len(payload) # image.count * EntrySize
  BY DEF TocFails
<1>2. At(0) = TocOffset
  BY DEF At, DocumentAt
<1>3. ~WellFormed(image, image.size)
  BY <1>1, <1>2, AtEnd DEF WellFormed
<1> QED
  BY <1>1, <1>3, FailStep

\* What a document of the entries is, and where it starts.
LEMMA EntryIs ==
    ASSUME RTypes, current \in 1..LastDocument
    PROVE  /\ Entry \in 1..image.count /\ image.entries[Entry] = EntryOf(current)
           /\ IsDescriptor <=> current % 2 = 1
           /\ At(current) = FirstOffset /\ At(current) \in Nat
           /\ IsDescriptor => FirstOffset = EntryOf(current).descriptor
           /\ ~IsDescriptor => FirstOffset = EntryOf(current).payload
<1>1. LastDocument \in Nat
  BY ImageIs
<1>2. current \in 0..LastDocument /\ current > 0
  BY <1>1
<1> QED
  BY <1>2, OffsetsAre DEF Entry, EntryOf, IsDescriptor, FirstOffset

LEMMA DescriptorReadStep == ASSUME RInv, DescriptorRead PROVE RInv'
<1>1. /\ pc = "document" /\ current > 0 /\ IsDescriptor /\ DescriptorAccepted
      /\ NextDocument /\ remaining' = remaining /\ files' = files
  BY DEF DescriptorRead
<1>2. image' = image /\ current' = current + 1
  BY <1>1 DEF NextDocument
<1>3. current \in 1..LastDocument /\ LastDocument \in Nat /\ RTypes
  BY <1>1, Reading, ImageIs DEF RInv
<1>4. /\ image.entries[Entry] = EntryOf(current) /\ current % 2 = 1
      /\ At(current) = EntryOf(current).descriptor
  BY <1>1, <1>3, EntryIs
<1>5. Behind(current)
  <2>1. EntryOf(current).marker
    BY <1>1, <1>4 DEF RInv, RWalk
  <2>2. EntryOf(current).clean /\ Len(payload) >= MinDescriptor
    BY <1>1, <1>4 DEF DescriptorAccepted
  <2> QED
    BY <1>1, <1>4, <2>1, <2>2, AtEnd DEF Behind
<1>6. files' \in Seq(Seq(Nat)) /\ RFiles'
  <2>1. current \in Nat
    BY <1>3
  <2>2. (current - 1) \div 2 = ((current + 1) - 1) \div 2
    BY <1>4, <2>1
  <2> QED
    BY <1>1, <1>2, <2>1, <2>2 DEF RInv, RTypes, RFiles
<1> QED
  BY <1>1, <1>5, <1>6, NextDocumentStep

LEMMA DescriptorFailsStep == ASSUME RInv, DescriptorFails PROVE RInv'
<1>1. /\ pc = "document" /\ current > 0 /\ IsDescriptor /\ ~DescriptorAccepted /\ Fail
  BY DEF DescriptorFails
<1>2. current \in 1..LastDocument /\ LastDocument \in Nat /\ RTypes
  BY <1>1, Reading, ImageIs DEF RInv
<1>3. /\ image.entries[Entry] = EntryOf(current) /\ Entry \in 1..image.count
      /\ At(current) = EntryOf(current).descriptor
  BY <1>1, <1>2, EntryIs
<1> SUFFICES ASSUME WellFormed(image, image.size) PROVE FALSE
  BY <1>1, FailStep
<1>4. /\ image.entries[Entry].clean
      /\ image.headers[image.entries[Entry].descriptor].doc >= MinDescriptor
  BY <1>3 DEF WellFormed
<1>5. Len(payload) = image.headers[At(current)].doc
  BY <1>1, AtEnd
<1> QED
  BY <1>1, <1>3, <1>4, <1>5 DEF DescriptorAccepted

LEMMA PayloadReadStep == ASSUME RInv, PayloadRead PROVE RInv'
<1>1. /\ pc = "document" /\ current > 0 /\ ~IsDescriptor
      /\ files' = Append(files, payload) /\ NextDocument /\ remaining' = remaining
  BY DEF PayloadRead
<1>2. image' = image /\ current' = current + 1
  BY <1>1 DEF NextDocument
<1>3. current \in 1..LastDocument /\ LastDocument \in Nat /\ RTypes /\ payload \in Seq(Nat)
  BY <1>1, Reading, ImageIs DEF RInv
<1>4. current % 2 # 1 /\ Entry \in 1..image.count /\ At(current) = image.entries[Entry].payload
  BY <1>1, <1>3, EntryIs
<1>5. Behind(current)
  BY <1>1, <1>4, AtEnd DEF Behind
<1>6. files \in Seq(Seq(Nat))
  BY <1>3 DEF RTypes
<1>7. files' \in Seq(Seq(Nat)) /\ Len(files') = Len(files) + 1
      /\ (\A i \in 1..Len(files) : files'[i] = files[i])
      /\ files'[Len(files) + 1] = payload
  BY <1>1, <1>3, <1>6
<1>8. Len(files) + 1 = Entry /\ Len(files') = ((current + 1) - 1) \div 2
  <2>1. current \in Nat /\ current > 0
    BY <1>3
  <2>2. Len(files) = (current - 1) \div 2
    BY <2>1 DEF RInv, RFiles
  <2>3. (current - 1) \div 2 + 1 = (current + 1) \div 2
    BY <2>1
  <2>4. ((current + 1) - 1) \div 2 = (current + 1) \div 2
    BY <1>4, <2>1
  <2> QED
    BY <1>7, <2>2, <2>3, <2>4 DEF Entry
<1>9. RFiles'
  <2>1. Len(files') = IF current' = 0 THEN 0 ELSE (current' - 1) \div 2
    BY <1>2, <1>3, <1>8
  <2>2. ASSUME NEW i \in 1..Len(files')
        PROVE  files'[i] = Document(image', image'.entries[i].payload, image'.size)
    <3>1. CASE i \in 1..Len(files)
      BY <1>2, <1>7, <3>1 DEF RInv, RFiles
    <3>2. CASE i = Len(files) + 1
      <4>1. payload = Document(image, image.entries[Entry].payload, image.size)
        BY <1>1, <1>4, AtEnd
      <4> QED
        BY <1>2, <1>7, <1>8, <3>2, <4>1
    <3>3. Len(files) \in Nat
      BY <1>6
    <3> QED
      BY <1>7, <3>1, <3>2, <3>3
  <2> QED
    BY <2>1, <2>2 DEF RFiles
<1> QED
  BY <1>1, <1>5, <1>7, <1>9, NextDocumentStep

LEMMA OpenDocumentStep == ASSUME RInv, OpenDocument PROVE RInv'
<1> DEFINE o == At(current)
<1>1. pc = "open" /\ OpenAccepted
  BY DEF OpenDocument
<1>2. /\ image' = image /\ current' = current /\ budget' = budget
      /\ files' = files /\ kept' = kept
      /\ remaining' = remaining - image.headers[FirstOffset].doc
      /\ pc' = "block" /\ offset' = FirstOffset /\ visited' = {} /\ total' = 0
      /\ payload' = <<>>
  BY DEF OpenDocument, BeginDocument
<1>3. RTypes /\ current \in 1..LastDocument /\ LastDocument \in Nat /\ IsImage(image) /\ image.size \in Nat
  BY <1>1, ImageIs DEF RInv, RTypes
<1>4. /\ o = FirstOffset /\ o \in Nat /\ (IsDescriptor <=> current % 2 = 1)
      /\ image.entries[Entry] = EntryOf(current)
  BY <1>3, EntryIs
<1>5. /\ o \in DOMAIN image.headers
      /\ IsDescriptor => image.entries[Entry].marker
      /\ image.headers[o].doc <= remaining
  BY <1>1, <1>4 DEF OpenAccepted
<1>6. PICK doc \in Nat : doc = image.headers[o].doc
  BY <1>3, <1>5, HeaderIs
<1>7. remaining \in Nat /\ kept \in Nat /\ budget \in Nat /\ remaining' = remaining - doc
      /\ doc <= remaining
  BY <1>2, <1>3, <1>4, <1>5, <1>6 DEF RTypes
<1>8. LastDocument' = LastDocument /\ Read' = Read /\ Allowed' = Allowed /\ o' = o
  BY <1>2 DEF LastDocument, Read, Allowed, At
<1>9. RTypes'
  BY <1>2, <1>3, <1>7, <1>8 DEF RTypes
<1>10. RBehind'
  BY <1>1, <1>2 DEF RInv, RBehind, Behind, At, EntryOf
<1>11. RFiles'
  BY <1>2 DEF RInv, RFiles
<1>12. RAccounts'
  BY <1>2 DEF RInv, RAccounts
<1>13. RWalk'
  <2>1. remaining + kept = image.size /\ Read + budget = Allowed
    BY <1>1 DEF RInv, RAccounts
  <2>2. remaining' + kept' + doc = image.size
    BY <1>2, <1>3, <1>7, <2>1
  <2>3. (/\ At(current) \in DOMAIN image.headers
         /\ remaining + kept + image.headers[At(current)].doc = image.size
         /\ current % 2 = 1 => EntryOf(current).marker)'
    BY <1>2, <1>4, <1>5, <1>6, <1>8, <2>2 DEF EntryOf
  <2>4. Walked(image, o, 0, {}, 0, <<>>)
    BY <1>3, NothingWalked
  <2>5. FirstOffset = Chain(image, o)[0]
    BY <1>3, <1>4, ChainHops
  <2>6. Read + 0 + budget = Allowed
    <3>1. Read \in Nat
      BY <1>3, current \in 0..LastDocument, ReadIs DEF RInv
    <3> QED
      BY <2>1, <3>1
  <2> DEFINE W(m) == /\ Walked(image, At(current), m, visited, total, payload)'
                     /\ (Read + m + budget = Allowed)'
                     /\ (offset = Chain(image, At(current))[m] /\ offset \in Nat)'
  <2>7. W(0)
    BY <1>2, <1>4, <1>8, <2>4, <2>5, <2>6
  <2> HIDE DEF W
  <2>8. \E m \in 0..image'.size : W(m)
    BY <1>2, <1>3, <2>7
  <2> QED
    BY <1>2, <2>3, <2>8 DEF RWalk, W
<1>14. RFailed'
  BY <1>2 DEF RFailed
<1> QED
  BY <1>9, <1>10, <1>11, <1>12, <1>13, <1>14 DEF RInv

LEMMA OpenFailsStep == ASSUME RInv, OpenFails PROVE RInv'
<1> DEFINE o == At(current)
<1>1. pc = "open" /\ ~OpenAccepted /\ Fail
  BY DEF OpenFails
<1>2. RTypes /\ current \in 1..LastDocument /\ LastDocument \in Nat /\ IsImage(image) /\ image.size \in Nat
  BY <1>1, ImageIs DEF RInv, RTypes
<1>3. /\ o = FirstOffset /\ o \in Nat /\ Entry \in 1..image.count
  BY <1>2, EntryIs
<1> SUFFICES ASSUME WellFormed(image, image.size) PROVE FALSE
  BY <1>1, FailStep
<1>4. image.entries[Entry].marker
  BY <1>3 DEF WellFormed
<1>5. /\ IsDocument(image, o, image.size)
      /\ UpTo(Declared(image), current) \in Nat
      /\ UpTo(Declared(image), current) + image.headers[o].doc <= image.size
  BY <1>2, current \in 0..LastDocument, Needed
<1>6. o \in DOMAIN image.headers /\ image.headers[o].doc \in Nat
  BY <1>2, <1>3, <1>5, DocumentIs
<1>7. remaining + kept = image.size /\ kept = UpTo(Declared(image), current)
      /\ remaining \in Nat
  BY <1>1 DEF RInv, RAccounts, RTypes
<1>8. image.headers[o].doc <= remaining
  BY <1>2, <1>5, <1>6, <1>7
<1> QED
  BY <1>1, <1>3, <1>4, <1>6, <1>8 DEF OpenAccepted

-----------------------------------------------------------------------------
(* The theorem.                                                            *)

LEMMA StepHolds == RInv /\ [Next]_vars => RInv'
<1> SUFFICES ASSUME RInv, [Next]_vars PROVE RInv'
  OBVIOUS
<1>1. CASE Start
  BY <1>1, StartStep
<1>2. CASE StartFails
  BY <1>2, StartFailsStep
<1>3. CASE ReadBlock
  BY <1>3, ReadBlockStep
<1>4. CASE BlockFails
  BY <1>4, BlockFailsStep
<1>5. CASE TocRead
  BY <1>5, TocReadStep
<1>6. CASE TocFails
  BY <1>6, TocFailsStep
<1>7. CASE OpenDocument
  BY <1>7, OpenDocumentStep
<1>8. CASE OpenFails
  BY <1>8, OpenFailsStep
<1>9. CASE DescriptorRead
  BY <1>9, DescriptorReadStep
<1>10. CASE DescriptorFails
  BY <1>10, DescriptorFailsStep
<1>11. CASE PayloadRead
  BY <1>11, PayloadReadStep
<1>12. CASE UNCHANGED vars
  <2>1. /\ image' = image /\ pc' = pc /\ current' = current /\ offset' = offset
        /\ visited' = visited /\ budget' = budget /\ total' = total
        /\ payload' = payload /\ remaining' = remaining /\ files' = files /\ kept' = kept
    BY <1>12 DEF vars, reading
  <2>2. RTypes'
    BY <2>1 DEF RInv, RTypes, LastDocument
  <2>3. RBehind' /\ RFiles'
    BY <2>1 DEF RInv, RBehind, RFiles, Behind, At, EntryOf
  <2>4. RAccounts' /\ RFailed'
    BY <2>1 DEF RInv, RAccounts, RFailed, Read, Allowed
  <2>5. RWalk'
    BY <2>1 DEF RInv, RWalk, Read, Allowed, At, EntryOf
  <2> QED
    BY <2>2, <2>3, <2>4, <2>5 DEF RInv
<1> QED
  BY <1>1, <1>2, <1>3, <1>4, <1>5, <1>6, <1>7, <1>8, <1>9, <1>10, <1>11, <1>12
     DEF Next

\* What has been read when parse_container returns is a container.
LEMMA DoneIsWellFormed ==
    ASSUME RInv, pc = "done"
    PROVE  /\ WellFormed(image, image.size)
           /\ files = [i \in 1..image.count |->
                         Document(image, image.entries[i].payload, image.size)]
<1>1. RTypes /\ current = LastDocument + 1 /\ budget \in Nat
  BY DEF RInv, RTypes
<1>2. PICK c \in Nat : c = image.count /\ LastDocument = 2 * c
  BY <1>1, ImageIs DEF LastDocument
<1>3. \A d \in 0..LastDocument : Behind(d)
  <2>1. (LastDocument + 1) - 1 = LastDocument
    BY <1>2
  <2> QED
    BY <1>1, <2>1 DEF RInv, RBehind
<1>4. image.magic
  BY DEF RInv, RBehind
<1>5. \A d \in 0..(2 * image.count) : IsDocument(image, DocumentAt(image, d), image.size)
  BY <1>2, <1>3 DEF Behind, At
<1>6. image.headers[TocOffset].doc = image.count * EntrySize
  BY <1>2, <1>3, 0 \in 0..LastDocument DEF Behind
<1>7. ASSUME NEW i \in 1..image.count
      PROVE  /\ image.entries[i].marker /\ image.entries[i].clean
             /\ image.headers[image.entries[i].descriptor].doc >= MinDescriptor
  <2> DEFINE d == 2 * i - 1
  <2>1. d \in 0..LastDocument /\ d % 2 = 1 /\ (d + 1) \div 2 = i
    BY <1>2
  <2>2. EntryOf(d) = image.entries[i]
    BY <2>1 DEF EntryOf
  <2> HIDE DEF d
  <2> QED
    BY <1>3, <2>1, <2>2 DEF Behind
<1>8. SumFunction(Declared(image)) <= image.size
  <2>1. DOMAIN Declared(image) = 0..((LastDocument + 1) - 1)
    BY <1>2 DEF Declared
  <2>2. kept = UpTo(Declared(image), LastDocument + 1) /\ kept <= image.size
    BY <1>1 DEF RInv, RAccounts
  <2> QED
    BY <2>1, <2>2 DEF SumFunction, UpTo
<1>9. SumFunction(Blocks(image, image.size)) <= SmallerOf(image.size, MaxVisits)
  <2> DEFINE B == Blocks(image, image.size)
  <2>1. DOMAIN B = 0..((LastDocument + 1) - 1)
    BY <1>2 DEF Blocks
  <2>2. UpTo(B, LastDocument + 1) + budget = Allowed
    BY <1>1 DEF RInv, RAccounts, Read
  <2>3. UpTo(B, LastDocument + 1) \in Nat
    <3>1. \A d \in 0..LastDocument : B[d] \in Nat
      BY <1>1, <1>3, SummandsAre DEF Behind
    <3>2. LastDocument + 1 \in Nat /\ (LastDocument + 1) - 1 = LastDocument /\ LastDocument + 1 \in 0..(LastDocument + 1)
      BY <1>2
    <3> HIDE DEF B
    <3>3. \A d \in 0..((LastDocument + 1) - 1) : B[d] \in Nat
      BY <3>1, <3>2
    <3> QED
      BY ONLY <3>2, <3>3, SumGrows
  <2>4. SumFunction(B) = UpTo(B, LastDocument + 1)
    BY <2>1 DEF SumFunction, UpTo
  <2> HIDE DEF B
  <2>5. UpTo(B, LastDocument + 1) <= Allowed
    BY <1>1, <2>2, <2>3, ImageIs
  <2> QED
    BY <2>4, <2>5 DEF B, Allowed
<1>10. WellFormed(image, image.size)
  BY <1>4, <1>5, <1>6, <1>7, <1>8, <1>9 DEF WellFormed
<1>11. files \in Seq(Seq(Nat)) /\ Len(files) = image.count
  <2>1. LastDocument + 1 # 0 /\ ((LastDocument + 1) - 1) \div 2 = c
    BY <1>2
  <2> QED
    BY <1>1, <1>2, <2>1 DEF RInv, RTypes, RFiles
<1>12. \A i \in 1..image.count :
         files[i] = Document(image, image.entries[i].payload, image.size)
  BY <1>11 DEF RInv, RFiles
<1> QED
  BY <1>10, <1>11, <1>12

LEMMA InvIsRight == RInv => ReadingIsRight
<1> SUFFICES ASSUME RInv PROVE ReadingIsRight
  OBVIOUS
<1>1. HeldNow <= image.size
  <2>1. kept \in Nat /\ kept <= image.size /\ image.size \in Nat
    BY ImageIs DEF RInv, RTypes, RAccounts
  <2>2. CASE pc \notin {"block", "document"}
    BY <2>1, <2>2 DEF HeldNow
  <2>3. CASE pc \in {"block", "document"}
    <3> DEFINE o == At(current)
    <3>1. /\ IsImage(image) /\ current \in Nat /\ o \in Nat
          /\ total \in Nat /\ payload \in Seq(Nat)
      BY <2>3, Reading
    <3>2. PICK m \in 0..image.size : Walked(image, o, m, visited, total, payload)
      BY <2>3 DEF RInv, RWalk
    <3>3. Len(payload) <= total
      BY <2>1, <3>1, <3>2, m \in Nat, HeldAtMost
    <3>4. kept + total <= image.size
      <4>1. CASE current = 0
        <5>1. kept = 0
          BY <4>1, SumOfNone DEF RInv, RAccounts
        <5>2. total <= image.size
          BY <2>1, <3>2 DEF Walked
        <5> QED
          BY <3>1, <5>1, <5>2
      <4>2. CASE current > 0
        <5>1. remaining \in Nat /\ remaining + kept + image.headers[o].doc = image.size
              /\ o \in DOMAIN image.headers
          BY <2>3, <4>2 DEF RInv, RTypes, RWalk
        <5>2. image.headers[o].doc \in Nat
          BY <3>1, <5>1, HeaderIs
        <5>3. total <= image.headers[o].doc
          BY <2>1, <3>2, <5>2 DEF Walked
        <5> QED
          BY <2>1, <3>1, <5>1, <5>2, <5>3
      <4> QED
        BY <3>1, <4>1, <4>2
    <3>5. HeldNow = kept + Len(payload)
      BY <2>3 DEF HeldNow
    <3>6. PICK l \in Nat : l = Len(payload)
      BY <3>1
    <3> QED
      BY <2>1, <3>1, <3>3, <3>4, <3>5, <3>6
  <2> QED
    BY <2>2, <2>3
<1>2. pc = "failed" => ~WellFormed(image, MostBlocks)
  BY DEF RInv, RFailed, MostBlocks
<1>3. pc = "done" =>
         /\ WellFormed(image, MostBlocks)
         /\ files = [i \in 1..image.count |->
                       Document(image, image.entries[i].payload, MostBlocks)]
  BY DoneIsWellFormed DEF MostBlocks
<1> QED
  BY <1>1, <1>2, <1>3 DEF ReadingIsRight

\* What parse_container and read_document keep between two blocks: the bytes
\* gathered are a prefix of the bytes of the chain, the documents behind are as
\* the file declares them, and bytes and block visits add up.
THEOREM ReaderInvariant == Spec => []RInv
BY InitHolds, StepHolds, PTL DEF Spec

\* parse_container and read_document: whatever the headers of a file say, the
\* file is accepted exactly when it is a container, its logical files are the
\* documents of their chains, and the documents held together are never longer
\* than the file.
THEOREM Reader == Spec => []ReadingIsRight
BY ReaderInvariant, InvIsRight, PTL

-----------------------------------------------------------------------------
(* What the writer has made so far.                                        *)

\* The bytes of documents, and what is of none.
CellValues == {"filler", "descriptor", "payload"} \X Nat \X Nat
BlockHeaders == [doc : Nat, cur : Nat, next : Nat \cup {End}, body : Nat]

\* What the writer has made so far: its blocks end inside of it.
Data ==
    {d \in [size : Nat, headers : UNION {[S -> BlockHeaders] : S \in SUBSET Nat},
            cells : UNION {[0..(m - 1) -> CellValues] : m \in Nat}] :
       /\ IsFiniteSet(DOMAIN d.headers)
       /\ DOMAIN d.cells = 0..(d.size - 1)
       /\ \A o \in DOMAIN d.headers :
            o < d.headers[o].body /\ d.headers[o].body + d.headers[o].cur <= d.size}

\* What is known of the data.
LEMMA DataIs ==
    ASSUME NEW d \in Data
    PROVE  /\ d.size \in Nat
           /\ DOMAIN d.headers \subseteq Nat /\ IsFiniteSet(DOMAIN d.headers)
           /\ d.headers \in [DOMAIN d.headers -> BlockHeaders]
           /\ \A o \in DOMAIN d.headers :
                /\ o \in Nat /\ o < d.size
                /\ d.headers[o] \in BlockHeaders
                /\ o < d.headers[o].body /\ d.headers[o].body + d.headers[o].cur <= d.size
           /\ d.cells \in [0..(d.size - 1) -> CellValues]
<1>1. /\ d.size \in Nat
      /\ d.headers \in UNION {[S -> BlockHeaders] : S \in SUBSET Nat}
      /\ d.cells \in UNION {[0..(m - 1) -> CellValues] : m \in Nat}
      /\ IsFiniteSet(DOMAIN d.headers)
      /\ DOMAIN d.cells = 0..(d.size - 1)
      /\ \A o \in DOMAIN d.headers :
            o < d.headers[o].body /\ d.headers[o].body + d.headers[o].cur <= d.size
  BY DEF Data
<1>2. PICK S \in SUBSET Nat : d.headers \in [S -> BlockHeaders]
  BY <1>1
<1>3. PICK m \in Nat : d.cells \in [0..(m - 1) -> CellValues]
  BY <1>1
<1>4. ASSUME NEW o \in DOMAIN d.headers PROVE o < d.size
  <2>1. d.headers[o] \in BlockHeaders /\ o \in Nat
    BY <1>2
  <2>2. PICK b \in Nat, c \in Nat : b = d.headers[o].body /\ c = d.headers[o].cur
    BY <2>1 DEF BlockHeaders
  <2>3. o < b /\ b + c <= d.size
    BY <1>1, <2>2
  <2> QED
    BY <1>1, <2>1, <2>2, <2>3
<1>5. d.cells \in [0..(d.size - 1) -> CellValues]
  BY <1>1, <1>3
<1> QED
  BY <1>1, <1>2, <1>4, <1>5

\* Data put together from its three parts.
LEMMA IsDataWhen ==
    ASSUME NEW size \in Nat, NEW H \in SUBSET Nat, IsFiniteSet(H),
           NEW headers \in [H -> BlockHeaders], NEW cells \in [0..(size - 1) -> CellValues],
           \A o \in H : o < headers[o].body /\ headers[o].body + headers[o].cur <= size
    PROVE  [size |-> size, headers |-> headers, cells |-> cells] \in Data
BY DEF Data

Filler == Writer!Filler

IsAppended(d, bytes, doc, next, e) ==
    /\ e \in Data
    /\ e.size = d.size + HeaderSize + Len(bytes)
    /\ DOMAIN e.headers = DOMAIN d.headers \cup {d.size} /\ d.size \notin DOMAIN d.headers
    /\ e.headers[d.size] =
         [doc |-> doc, cur |-> Len(bytes), next |-> next, body |-> d.size + HeaderSize]
    /\ \A o \in DOMAIN d.headers : e.headers[o] = d.headers[o]
    /\ \A p \in 0..(d.size - 1) : e.cells[p] = d.cells[p]
    /\ \A j \in 1..Len(bytes) : e.cells[d.size + HeaderSize + j - 1] = bytes[j]

\* append_block with a block of just its bytes.
LEMMA AppendBlockIs ==
    ASSUME NEW d \in Data, NEW bytes \in Seq(CellValues), NEW doc \in Nat,
           NEW next \in Nat \cup {End}
    PROVE  IsAppended(d, bytes, IF doc = 0 THEN Len(bytes) ELSE doc, next,
                      Writer!AppendBlock(d, bytes, 0, doc, next))
<1> DEFINE e == Writer!AppendBlock(d, bytes, 0, doc, next)
           told == IF doc = 0 THEN Len(bytes) ELSE doc
<1>1. PICK l \in Nat : l = Len(bytes)
  OBVIOUS
<1>2. PICK s \in Nat : s = d.size
  BY DataIs
<1>3. PICK h \in Nat : h = HeaderSize /\ h > 0
  BY RoundTripAssumption
<1>4. Writer!Larger(0, l) = l
  BY DEF Writer!Larger
<1>5. PICK header \in BlockHeaders :
        header = [doc |-> told, cur |-> l, next |-> next, body |-> s + h]
  <2>1. told \in Nat /\ s + h \in Nat
    BY <1>1
  <2> QED
    BY <2>1 DEF BlockHeaders
<1> DEFINE headers == [o \in DOMAIN d.headers \cup {s} |-> IF o = s THEN header ELSE d.headers[o]]
           cells == [p \in 0..(s + h + l - 1) |->
                      IF p < s THEN d.cells[p]
                      ELSE IF p < s + h \/ p - (s + h) >= l THEN Filler
                      ELSE bytes[p - (s + h) + 1]]
<1>6. e = [size |-> s + h + l, headers |-> headers, cells |-> cells]
  BY <1>1, <1>2, <1>3, <1>4, <1>5 DEF Writer!AppendBlock, Filler
<1>7. /\ DOMAIN d.headers \subseteq Nat /\ IsFiniteSet(DOMAIN d.headers)
      /\ \A o \in DOMAIN d.headers :
                /\ o \in Nat /\ o < s
                /\ d.headers[o] \in BlockHeaders
                /\ o < d.headers[o].body /\ d.headers[o].body + d.headers[o].cur <= s
      /\ d.cells \in [0..(s - 1) -> CellValues]
  BY <1>2, DataIs
<1>8. e \in Data
  <2>1. IsFiniteSet(DOMAIN d.headers \cup {s}) /\ DOMAIN d.headers \cup {s} \in SUBSET Nat
    BY <1>7, FS_AddElement
  <2>2. headers \in [DOMAIN d.headers \cup {s} -> BlockHeaders]
    BY <1>5, <1>7
  <2>3. cells \in [0..(s + h + l - 1) -> CellValues]
    <3>1. Filler \in CellValues
      BY DEF Filler, Writer!Filler, CellValues
    <3>2. ASSUME NEW p \in 0..(s + h + l - 1) PROVE cells[p] \in CellValues
      <4>1. CASE p < s
        <5>1. p \in 0..(s - 1)
          BY <4>1
        <5> QED
          BY <1>7, <4>1, <5>1
      <4>2. CASE p >= s /\ (p < s + h \/ p - (s + h) >= l)
        BY <3>1, <4>2
      <4>3. CASE p >= s /\ ~(p < s + h \/ p - (s + h) >= l)
        <5>1. p - (s + h) + 1 \in 1..l /\ cells[p] = bytes[p - (s + h) + 1]
          BY <4>3
        <5> QED
          BY <1>1, <5>1
      <4> QED
        BY <4>1, <4>2, <4>3
    <3> QED
      BY <3>2
  <2>4. ASSUME NEW o \in DOMAIN d.headers \cup {s}
        PROVE  o < headers[o].body /\ headers[o].body + headers[o].cur <= s + h + l
    <3>1. CASE o = s
      BY <1>3, <1>5, <3>1
    <3>2. CASE o # s
      <4>1. headers[o] = d.headers[o] /\ o \in DOMAIN d.headers
        BY <3>2
      <4>2. PICK b \in Nat : b = d.headers[o].body
        BY <1>7, <4>1 DEF BlockHeaders
      <4>3. PICK c \in Nat : c = d.headers[o].cur
        BY <1>7, <4>1 DEF BlockHeaders
      <4>4. o < b /\ b + c <= s
        BY <1>7, <4>1, <4>2, <4>3
      <4> QED
        BY <4>1, <4>2, <4>3, <4>4
    <3> QED
      BY <3>1, <3>2
  <2> HIDE DEF e, headers, cells
  <2>5. PICK z \in Nat : z = s + h + l
    OBVIOUS
  <2>6. PICK H \in SUBSET Nat : H = DOMAIN d.headers \cup {s}
    BY <2>1
  <2>7. /\ IsFiniteSet(H) /\ headers \in [H -> BlockHeaders]
        /\ cells \in [0..(z - 1) -> CellValues]
        /\ \A o \in H : o < headers[o].body /\ headers[o].body + headers[o].cur <= z
    BY <2>1, <2>2, <2>3, <2>4, <2>5, <2>6
  <2>8. [size |-> z, headers |-> headers, cells |-> cells] \in Data
    BY ONLY <2>7, z \in Nat, H \in SUBSET Nat, IsDataWhen
  <2> QED
    BY <1>6, <2>5, <2>8
<1>9. /\ e.size = s + h + l /\ DOMAIN e.headers = DOMAIN d.headers \cup {s} /\ s \notin DOMAIN d.headers
      /\ e.headers[s] = header /\ \A o \in DOMAIN d.headers : e.headers[o] = d.headers[o]
  BY <1>6, <1>7
<1>10. \A p \in 0..(s - 1) : e.cells[p] = d.cells[p]
  <2>1. \A p \in 0..(s - 1) : p \in 0..(s + h + l - 1) /\ p < s
    OBVIOUS
  <2> QED
    BY <1>6, <2>1
<1>12. ASSUME NEW j \in 1..l PROVE e.cells[s + h + j - 1] = bytes[j]
  <2>1. PICK p \in 0..(s + h + l - 1) : p = s + h + j - 1
    OBVIOUS
  <2>2. ~(p < s) /\ ~(p < s + h \/ p - (s + h) >= l) /\ p - (s + h) + 1 = j
    BY <1>3, <2>1
  <2> QED
    BY <1>6, <2>1, <2>2
<1> HIDE DEF e
<1>13. /\ e.size = d.size + HeaderSize + Len(bytes)
       /\ DOMAIN e.headers = DOMAIN d.headers \cup {d.size} /\ d.size \notin DOMAIN d.headers
       /\ \A o \in DOMAIN d.headers : e.headers[o] = d.headers[o]
  BY <1>1, <1>2, <1>3, <1>9
<1>14. e.headers[d.size] =
         [doc |-> told, cur |-> Len(bytes), next |-> next, body |-> d.size + HeaderSize]
  BY <1>1, <1>2, <1>3, <1>5, <1>9
<1>15. /\ \A p \in 0..(d.size - 1) : e.cells[p] = d.cells[p]
       /\ \A j \in 1..Len(bytes) : e.cells[d.size + HeaderSize + j - 1] = bytes[j]
  BY <1>1, <1>2, <1>3, <1>10, <1>12
<1> HIDE DEF told
<1>16. IsAppended(d, bytes, told, next, e)
  BY <1>8, <1>13, <1>14, <1>15 DEF IsAppended
<1> QED
  BY <1>16 DEF e, told

\* What is in d is in e, where it was.
Extends(d, e) ==
    /\ d.size <= e.size
    /\ \A o \in DOMAIN d.headers : o \in DOMAIN e.headers /\ e.headers[o] = d.headers[o]
    /\ \A o \in DOMAIN e.headers : o \in DOMAIN d.headers \/ d.size <= o
    /\ \A p \in 0..(d.size - 1) : e.cells[p] = d.cells[p]

\* The first k blocks of a chain: hops are their offsets, bytes their positions.
Walks(f, hop, bytes, k) ==
    /\ bytes \in [Nat -> Seq(Nat)] /\ bytes[0] = <<>>
    /\ \A j \in 0..(k - 1) :
         /\ hop[j] \in DOMAIN f.headers /\ f.headers[hop[j]].next = hop[j + 1]
         /\ bytes[j + 1] = bytes[j] \o Positions(f.headers[hop[j]].body, f.headers[hop[j]].cur)

\* From first on f holds the bytes, at these positions.
Holds(f, first, at, bytes) ==
    \A i \in 1..Len(at) : first <= at[i] /\ at[i] < f.size /\ f.cells[at[i]] = bytes[i]

\* w is d and k blocks with the first m of the bytes.
Grown(d, w, hop, at, k, m, bytes) ==
    /\ w \in Data /\ Extends(d, w)
    /\ Walks(w, hop, at, k)
    /\ Len(at[k]) = m /\ Holds(w, d.size, at[k], bytes)
    /\ w.size = d.size + k * HeaderSize + m
    /\ Cardinality(DOMAIN w.headers) = Cardinality(DOMAIN d.headers) + k
    /\ k > 0 => hop[0] = d.size /\ w.headers[hop[0]].doc = Len(bytes)

\* Nothing has been appended yet.
LEMMA GrownStarts ==
    ASSUME NEW d \in Data, NEW hop, NEW bytes
    PROVE  Grown(d, d, hop, [k \in Nat |-> <<>>], 0, 0, bytes)
<1> DEFINE at == [k \in Nat |-> <<>>]
<1>1. d.size \in Nat /\ IsFiniteSet(DOMAIN d.headers)
  BY DataIs
<1>2. Cardinality(DOMAIN d.headers) \in Nat
  BY <1>1, FS_CardinalityType
<1>3. Extends(d, d)
  BY <1>1 DEF Extends
<1>4. at \in [Nat -> Seq(Nat)] /\ at[0] = <<>> /\ Len(at[0]) = 0
  OBVIOUS
<1>5. 0..(0 - 1) = {} /\ 1..0 = {} /\ d.size..(d.size - 1) = {}
  BY <1>1
<1> HIDE DEF at
<1>6. Walks(d, hop, at, 0)
  BY <1>4, <1>5 DEF Walks
<1>7. Holds(d, d.size, at[0], bytes)
  BY <1>4, <1>5 DEF Holds
<1>8. /\ d.size = d.size + 0 * HeaderSize + 0
      /\ Cardinality(DOMAIN d.headers) = Cardinality(DOMAIN d.headers) + 0
  BY <1>1, <1>2, RoundTripAssumption
<1>9. Grown(d, d, hop, at, 0, 0, bytes)
  BY <1>3, <1>4, <1>6, <1>7, <1>8 DEF Grown
<1> QED
  BY <1>9 DEF at

LEMMA ExtendsOn ==
    ASSUME NEW d \in Data, NEW e \in Data, NEW f \in Data, Extends(d, e), Extends(e, f)
    PROVE  Extends(d, f)
<1>1. PICK a \in Nat : a = d.size
  BY DataIs
<1>2. PICK b \in Nat : b = e.size
  BY DataIs
<1>3. PICK c \in Nat : c = f.size
  BY DataIs
<1>4. a <= b /\ b <= c
  BY <1>1, <1>2, <1>3 DEF Extends
<1>5. \A p \in 0..(a - 1) : p \in 0..(b - 1)
  BY <1>4
<1>6. ASSUME NEW o \in DOMAIN f.headers PROVE o \in DOMAIN d.headers \/ a <= o
  <2>1. o \in Nat
    BY DataIs
  <2>2. o \in DOMAIN e.headers \/ b <= o
    BY <1>2 DEF Extends
  <2> QED
    BY <1>1, <1>4, <2>1, <2>2 DEF Extends
<1> QED
  BY <1>1, <1>2, <1>3, <1>4, <1>5, <1>6 DEF Extends

\* A block is appended behind all there is.
LEMMA AppendedExtends ==
    ASSUME NEW d \in Data, NEW bytes \in Seq(CellValues), NEW doc, NEW next, NEW e,
           IsAppended(d, bytes, doc, next, e)
    PROVE  Extends(d, e)
<1>1. PICK s \in Nat : s = d.size
  BY DataIs
<1>2. PICK l \in Nat : l = Len(bytes)
  OBVIOUS
<1>3. e.size = s + HeaderSize + l
  BY <1>1, <1>2 DEF IsAppended
<1>4. d.size <= e.size
  BY <1>1, <1>3, RoundTripAssumption
<1>5. \A o \in DOMAIN e.headers : o \in DOMAIN d.headers \/ d.size <= o
  BY <1>1 DEF IsAppended
<1> QED
  BY <1>4, <1>5 DEF IsAppended, Extends

\* One block more, with the bytes that follow.
LEMMA GrownStep ==
    ASSUME NEW d \in Data, NEW w, NEW hop, NEW at, NEW k \in Nat, NEW m \in Nat,
           NEW bytes \in Seq(CellValues), Grown(d, w, hop, at, k, m, bytes),
           NEW chunk \in Seq(CellValues), NEW c \in Nat, c = Len(chunk), m + c <= Len(bytes),
           \A j \in 1..c : chunk[j] = bytes[m + j],
           NEW doc, NEW next, NEW e, IsAppended(w, chunk, doc, next, e),
           hop[k] = w.size, hop[k + 1] = next, k = 0 => doc = Len(bytes)
    PROVE  \E a : Grown(d, e, hop, a, k + 1, m + c, bytes)
<1>1. PICK h \in Nat : h = HeaderSize /\ h > 0
  BY RoundTripAssumption
<1>2. PICK s \in Nat : s = d.size
  BY DataIs
<1>3. /\ w \in Data /\ Extends(d, w) /\ Walks(w, hop, at, k)
      /\ Len(at[k]) = m /\ Holds(w, s, at[k], bytes)
      /\ w.size = s + k * h + m
      /\ Cardinality(DOMAIN w.headers) = Cardinality(DOMAIN d.headers) + k
      /\ k > 0 => hop[0] = s /\ w.headers[hop[0]].doc = Len(bytes)
  BY <1>1, <1>2 DEF Grown
<1>4. PICK z \in Nat : z = w.size
  BY <1>3, DataIs
<1>5. s <= z
  BY <1>2, <1>3, <1>4 DEF Extends
<1>6. /\ e \in Data /\ e.size = z + h + c
      /\ DOMAIN e.headers = DOMAIN w.headers \cup {z} /\ z \notin DOMAIN w.headers
      /\ e.headers[z] = [doc |-> doc, cur |-> c, next |-> next, body |-> z + h]
      /\ \A o \in DOMAIN w.headers : e.headers[o] = w.headers[o]
      /\ \A p \in 0..(z - 1) : e.cells[p] = w.cells[p]
      /\ \A j \in 1..c : e.cells[z + h + j - 1] = chunk[j]
  BY <1>1, <1>4 DEF IsAppended
<1>7. Extends(w, e)
  BY <1>3, AppendedExtends
<1>8. Extends(d, e)
  BY <1>3, <1>6, <1>7, ExtendsOn
<1>9. PICK new \in Seq(Nat) : /\ new = Positions(z + h, c) /\ Len(new) = c
                              /\ \A j \in 1..c : new[j] = z + h + j - 1
  BY z + h \in Nat, PositionsAre
<1>10. PICK old \in Seq(Nat) : old = at[k] /\ Len(old) = m
  BY <1>3 DEF Walks
<1>11. PICK all \in Seq(Nat) :
         /\ all = old \o new /\ Len(all) = m + c
         /\ \A i \in 1..m : all[i] = old[i]
         /\ \A j \in 1..c : all[m + j] = new[j]
  <2>1. Len(old) = m /\ Len(new) = c
    BY <1>9, <1>10
  <2> QED
    BY ONLY <2>1, old \in Seq(Nat), new \in Seq(Nat), Joined
<1> DEFINE a == [j \in Nat |-> IF j = k + 1 THEN all ELSE at[j]]
<1>12. /\ a \in [Nat -> Seq(Nat)] /\ a[k + 1] = all /\ a[k] = old
       /\ \A j \in 0..k : a[j] = at[j]
  <2>1. at \in [Nat -> Seq(Nat)]
    BY <1>3 DEF Walks
  <2>2. \A j \in 0..k : j \in Nat /\ j # k + 1
    OBVIOUS
  <2>3. k \in 0..k /\ k + 1 \in Nat
    OBVIOUS
  <2> QED
    BY <1>10, <2>1, <2>2, <2>3
<1> HIDE DEF a
<1>13. Walks(e, hop, a, k + 1)
  <2>1. a[0] = <<>>
    BY <1>3, <1>12 DEF Walks
  <2>2. ASSUME NEW j \in 0..k
        PROVE  /\ hop[j] \in DOMAIN e.headers /\ e.headers[hop[j]].next = hop[j + 1]
               /\ a[j + 1] = a[j] \o Positions(e.headers[hop[j]].body, e.headers[hop[j]].cur)
    <3>1. CASE j = k
      <4>1. hop[k] = z /\ e.headers[z].next = next /\ e.headers[z].body = z + h /\ e.headers[z].cur = c
        BY <1>4, <1>6
      <4>2. a[k + 1] = a[k] \o Positions(z + h, c)
        BY <1>9, <1>11, <1>12
      <4> QED
        BY <1>6, <3>1, <4>1, <4>2
    <3>2. CASE j # k
      <4>1. j \in 0..(k - 1) /\ j + 1 \in 0..k
        BY <3>2
      <4>2. /\ hop[j] \in DOMAIN w.headers /\ w.headers[hop[j]].next = hop[j + 1]
            /\ at[j + 1] = at[j] \o Positions(w.headers[hop[j]].body, w.headers[hop[j]].cur)
        BY <1>3, <4>1 DEF Walks
      <4>3. e.headers[hop[j]] = w.headers[hop[j]] /\ hop[j] \in DOMAIN e.headers
        BY <1>6, <4>2
      <4> QED
        BY <1>12, <4>1, <4>2, <4>3
    <3> QED
      BY <3>1, <3>2
  <2>3. PICK l \in Nat : l = k + 1
    OBVIOUS
  <2>4. 0..(l - 1) = 0..k
    BY <2>3
  <2>5. \A j \in 0..(l - 1) :
           /\ hop[j] \in DOMAIN e.headers /\ e.headers[hop[j]].next = hop[j + 1]
           /\ a[j + 1] = a[j] \o Positions(e.headers[hop[j]].body, e.headers[hop[j]].cur)
    BY <2>2, <2>4
  <2>6. Walks(e, hop, a, l)
    BY <1>12, <2>1, <2>5 DEF Walks
  <2> QED
    BY <2>3, <2>6
<1>14. Holds(e, s, all, bytes)
  <2>1. ASSUME NEW i \in 1..(m + c)
        PROVE  s <= all[i] /\ all[i] < z + h + c /\ e.cells[all[i]] = bytes[i]
    <3>1. CASE i <= m
      <4>1. i \in 1..m /\ all[i] = old[i]
        BY <1>11, <3>1
      <4>2. s <= old[i] /\ old[i] < z /\ w.cells[old[i]] = bytes[i]
        BY <1>3, <1>4, <1>10, <4>1 DEF Holds
      <4>3. PICK p \in Nat : p = old[i]
        <5>1. i \in 1..Len(old)
          BY <1>10, <4>1
        <5> QED
          BY <5>1
      <4>4. p \in 0..(z - 1) /\ s <= p /\ p < z
        BY <4>2, <4>3
      <4>5. e.cells[p] = bytes[i]
        BY <1>6, <4>2, <4>3, <4>4
      <4>6. p < z + h + c
        BY <4>4
      <4> QED
        BY <4>1, <4>3, <4>4, <4>5, <4>6
    <3>2. CASE i > m
      <4>1. PICK j \in 1..c : i = m + j
        BY <3>2, i - m \in 1..c
      <4>2. all[i] = z + h + j - 1
        BY <1>9, <1>11, <4>1
      <4>3. e.cells[z + h + j - 1] = bytes[m + j]
        BY <1>6
      <4> QED
        BY <1>5, <4>1, <4>2, <4>3
    <3> QED
      BY <3>1, <3>2
  <2>2. Len(all) = m + c /\ e.size = z + h + c
    BY <1>6, <1>11
  <2> HIDE DEF Filler
  <2> QED
    BY ONLY <2>1, <2>2 DEF Holds
<1>15. z + h + c = s + (k + 1) * h + (m + c)
  <2>1. PICK t \in Nat : t = k * h
    OBVIOUS
  <2>2. (k + 1) * h = t + h
    BY <2>1
  <2>3. z = s + t + m
    BY <1>3, <1>4, <2>1
  <2>4. z + h + c = s + (t + h) + (m + c)
    BY <2>3
  <2> QED
    BY <2>2, <2>4
<1>16. Cardinality(DOMAIN e.headers) = Cardinality(DOMAIN d.headers) + (k + 1)
  <2>1. IsFiniteSet(DOMAIN w.headers) /\ IsFiniteSet(DOMAIN d.headers)
    BY <1>3, DataIs
  <2>2. PICK x \in Nat : x = Cardinality(DOMAIN d.headers)
    BY <2>1, FS_CardinalityType
  <2>3. Cardinality(DOMAIN e.headers) = Cardinality(DOMAIN w.headers) + 1
    <3>1. PICK W : W = DOMAIN w.headers /\ IsFiniteSet(W) /\ z \notin W
      BY <1>6, <2>1
    <3>2. Cardinality(W \cup {z}) = Cardinality(W) + 1
      BY <3>1, FS_AddElement
    <3> QED
      BY <1>6, <3>1, <3>2
  <2> QED
    BY <1>3, <2>2, <2>3
<1>17. hop[0] = s /\ e.headers[hop[0]].doc = Len(bytes)
  <2>1. CASE k = 0
    <3>1. m = 0
      <4>1. at[0] = <<>> /\ Len(<<>>) = 0
        BY <1>3 DEF Walks
      <4> QED
        BY <1>3, <2>1, <4>1
    <3>2. z = s
      BY <1>3, <1>4, <2>1, <3>1
    <3> QED
      BY <1>4, <1>6, <2>1, <3>2
  <2>2. CASE k > 0
    <3>1. hop[0] \in DOMAIN w.headers
      BY <1>3, <2>2 DEF Walks
    <3> QED
      BY <1>3, <1>6, <2>2, <3>1
  <2> QED
    BY <2>1, <2>2
<1>18. Grown(d, e, hop, a, k + 1, m + c, bytes)
  BY <1>1, <1>2, <1>6, <1>8, <1>11, <1>12, <1>13, <1>14, <1>15, <1>16, <1>17 DEF Grown
<1> QED
  BY <1>18

-----------------------------------------------------------------------------
(* Documents in blocks.                                                    *)

\* The blocks of a document of l bytes.
BlocksOf(l) == IF l <= ChunkSize THEN 1 ELSE (l + ChunkSize - 1) \div ChunkSize

\* The number of chunks: all but the last are full, and the last is not empty.
LEMMA ChunksAre ==
    ASSUME NEW l \in Nat, NEW c \in Nat, c > 0, l > c, NEW n, n = (l + c - 1) \div c
    PROVE  n \in Nat /\ n > 1 /\ (n - 1) * c < l /\ l <= n * c
<1>1. PICK a \in Nat : a = l + c - 1
  OBVIOUS
<1>2. n \in Nat /\ n * c <= a /\ a < n * c + c
  BY <1>1
<1>3. PICK t \in Nat : t = n * c
  BY <1>2
<1>4. (n - 1) * c = t - c
  BY <1>2, <1>3
<1>5. l <= t /\ t - c < l
  BY <1>1, <1>2, <1>3
<1>6. n # 0 /\ n # 1
  BY <1>1, <1>2
<1> QED
  BY <1>2, <1>3, <1>4, <1>5, <1>6

IsChunk(chunk, bytes, from, c) ==
    /\ chunk \in Seq(CellValues) /\ Len(chunk) = c
    /\ \A j \in 1..c : chunk[j] = bytes[from + j]

\* A piece of the bytes.
LEMMA PieceIs ==
    ASSUME NEW bytes \in Seq(CellValues), NEW from \in Nat, NEW c \in Nat, from + c <= Len(bytes)
    PROVE  IsChunk(SubSeq(bytes, from + 1, from + c), bytes, from, c)
<1>1. PICK l \in Nat : l = Len(bytes)
  OBVIOUS
<1>2. \A i \in 1..l : bytes[i] \in CellValues
  BY <1>1
<1>3. (from + c) - (from + 1) + 1 = c
  OBVIOUS
<1>4. \A j \in 1..c : from + j \in 1..l /\ j + (from + 1) - 1 = from + j
  BY <1>1
<1>5. SubSeq(bytes, from + 1, from + c) = [j \in 1..c |-> bytes[from + j]]
  <2>1. SubSeq(bytes, from + 1, from + c)
          = [j \in 1..((from + c) - (from + 1) + 1) |-> bytes[j + (from + 1) - 1]]
    OBVIOUS
  <2>2. [j \in 1..c |-> bytes[j + (from + 1) - 1]] = [j \in 1..c |-> bytes[from + j]]
    BY <1>4
  <2> QED
    BY <1>3, <2>1, <2>2
<1>6. PICK q : q = [j \in 1..c |-> bytes[from + j]]
  OBVIOUS
<1>7. q \in [1..c -> CellValues] /\ \A j \in 1..c : q[j] = bytes[from + j]
  BY <1>2, <1>4, <1>6
<1>8. q \in Seq(CellValues) /\ Len(q) = c
  BY <1>7
<1>9. IsChunk(q, bytes, from, c)
  BY <1>7, <1>8 DEF IsChunk
<1> QED
  BY <1>5, <1>6, <1>9

\* The bytes of the first k of n chunks of l bytes.
Until(k, n, l) == IF k < n THEN k * ChunkSize ELSE l

ChunkFits(bytes, k, n, l) ==
    /\ Until(k, n, l) = k * ChunkSize /\ Until(k, n, l) \in Nat
    /\ Until(k + 1, n, l) \in Nat /\ Until(k + 1, n, l) <= l
    /\ Until(k, n, l) <= Until(k + 1, n, l)
    /\ IsChunk(Writer!Chunk(bytes, k + 1), bytes, Until(k, n, l),
               Until(k + 1, n, l) - Until(k, n, l))

\* The chunks follow each other without a gap.
LEMMA ChunkIs ==
    ASSUME NEW bytes \in Seq(CellValues),
           NEW l \in Nat, l = Len(bytes), l > ChunkSize,
           NEW n \in Nat, n = (l + ChunkSize - 1) \div ChunkSize,
           NEW k \in Nat, k < n
    PROVE  ChunkFits(bytes, k, n, l)
<1>1. PICK c \in Nat : c = ChunkSize /\ c > 0
  BY RoundTripAssumption
<1>2. n > 1 /\ (n - 1) * c < l /\ l <= n * c
  BY <1>1, ChunksAre
<1>3. PICK a \in Nat : a = k * c
  BY <1>1
<1>4. (k + 1) * c = a + c
  BY <1>3
<1>5. Until(k, n, l) = a
  BY <1>1, <1>3 DEF Until
<1>6. PICK b \in Nat : b = Until(k + 1, n, l) /\ a <= b /\ b <= l /\ b = Writer!Smaller((k + 1) * c, l)
  <2>1. CASE k + 1 < n
    <3>1. Until(k + 1, n, l) = a + c
      BY <1>1, <1>4, <2>1 DEF Until
    <3>2. k + 1 <= n - 1 /\ n - 1 \in Nat /\ k + 1 \in Nat
      BY <1>2, <2>1
    <3>3. (k + 1) * c <= (n - 1) * c
      BY <3>2, RoundTripAssumption
    <3>4. PICK z \in Nat : z = (n - 1) * c
      BY <3>2
    <3>5. a + c <= z /\ z < l
      BY <1>2, <1>4, <3>3, <3>4
    <3>6. a + c < l
      BY <3>5
    <3>7. Writer!Smaller((k + 1) * c, l) = a + c
      BY <1>4, <3>6 DEF Writer!Smaller
    <3> QED
      BY <3>1, <3>6, <3>7
  <2>2. CASE k + 1 = n
    <3>1. Until(k + 1, n, l) = l
      BY <2>2 DEF Until
    <3>2. a < l /\ l <= a + c
      BY <1>2, <1>3, <1>4, <2>2
    <3>3. Writer!Smaller((k + 1) * c, l) = l
      BY <1>4, <3>2 DEF Writer!Smaller
    <3> QED
      BY <3>1, <3>2, <3>3
  <2> QED
    BY <2>1, <2>2
<1>7. PICK m \in Nat : m = b - a
  BY <1>6
<1>8. Writer!Chunk(bytes, k + 1) = SubSeq(bytes, a + 1, a + m)
  <2>1. (k + 1 - 1) * ChunkSize + 1 = a + 1
    BY <1>1, <1>3
  <2>2. Writer!Smaller((k + 1) * ChunkSize, Len(bytes)) = a + m
    BY <1>1, <1>6, <1>7
  <2> QED
    BY <2>1, <2>2 DEF Writer!Chunk
<1>9. IsChunk(Writer!Chunk(bytes, k + 1), bytes, a, m)
  <2>1. a + m <= Len(bytes)
    BY <1>6, <1>7
  <2> QED
    BY <1>8, <2>1, PieceIs
<1> QED
  BY <1>1, <1>3, <1>5, <1>6, <1>7, <1>9 DEF ChunkFits

\* The document is stored in e, after all of d.
IsStored(d, bytes, e) ==
    \E hop : \E at :
        /\ Grown(d, e, hop, at, BlocksOf(Len(bytes)), Len(bytes), bytes)
        /\ hop[BlocksOf(Len(bytes))] = End

\* append_document, the early return.
LEMMA OneBlockIs ==
    ASSUME NEW d \in Data, NEW bytes \in Seq(CellValues), Len(bytes) <= ChunkSize
    PROVE  IsStored(d, bytes, Writer!AppendDocument(d, bytes))
<1>1. PICK l \in Nat : l = Len(bytes)
  OBVIOUS
<1>2. PICK e : e = Writer!AppendBlock(d, bytes, 0, 0, End)
  OBVIOUS
<1>3. Writer!AppendDocument(d, bytes) = e
  BY <1>2 DEF Writer!AppendDocument
<1>4. IsAppended(d, bytes, l, End, e)
  BY <1>1, <1>2, AppendBlockIs
<1>5. PICK hop : hop = [j \in Nat |-> IF j = 0 THEN d.size ELSE End]
  OBVIOUS
<1>6. hop[0] = d.size /\ hop[0 + 1] = End
  BY <1>5
<1>7. PICK at : Grown(d, d, hop, at, 0, 0, bytes)
  BY GrownStarts
<1>8. \A j \in 1..l : bytes[j] = bytes[0 + j]
  OBVIOUS
<1>9. PICK a : Grown(d, e, hop, a, 0 + 1, 0 + l, bytes)
  BY <1>1, <1>4, <1>6, <1>7, <1>8, 0 + l <= Len(bytes), GrownStep
<1>10. BlocksOf(Len(bytes)) = 1
  BY DEF BlocksOf
<1> QED
  BY <1>1, <1>3, <1>6, <1>9, <1>10, 0 + 1 = 1, 0 + l = l DEF IsStored

\* The blocks as they are appended one by one.
IsLoop(h, d, bytes, n) ==
    /\ h[0] = d
    /\ \A k \in 1..n : h[k] =
         Writer!AppendBlock(h[k - 1], Writer!Chunk(bytes, k), 0,
                            IF k = 1 THEN Len(bytes) ELSE 0,
                            IF k = n THEN End ELSE Writer!ChunkOffset(d.size, k + 1))

\* The recursive function that AppendDocument is defined by exists.
LEMMA LoopIs ==
    ASSUME NEW d \in Data, NEW bytes \in Seq(CellValues), Len(bytes) > ChunkSize,
           NEW n \in Nat, n = (Len(bytes) + ChunkSize - 1) \div ChunkSize
    PROVE  \E h : IsLoop(h, d, bytes, n) /\ Writer!AppendDocument(d, bytes) = h[n]
<1> DEFINE doc(k) == IF k = 1 THEN Len(bytes) ELSE 0
           next(k) == IF k = n THEN End ELSE Writer!ChunkOffset(d.size, k + 1)
           step == [k \in 1..n |-> [v \in Data |->
                     Writer!AppendBlock(v, Writer!Chunk(bytes, k), 0, doc(k), next(k))]]
           Rec(h) == [k \in 0..n |->
                       IF k = 0 THEN d
                       ELSE Writer!AppendBlock(h[k - 1], Writer!Chunk(bytes, k), 0, doc(k), next(k))]
<1>1. \A k \in 1..n : /\ doc(k) \in Nat /\ next(k) \in Nat \cup {End}
                      /\ Writer!Chunk(bytes, k) \in Seq(CellValues)
  <2> SUFFICES ASSUME NEW k \in 1..n
               PROVE  /\ doc(k) \in Nat /\ next(k) \in Nat \cup {End}
                      /\ Writer!Chunk(bytes, k) \in Seq(CellValues)
    OBVIOUS
  <2>1. Writer!ChunkOffset(d.size, k + 1) \in Nat
    <3>1. PICK s \in Nat : s = d.size
      BY DataIs
    <3>2. PICK c \in Nat : c = HeaderSize + ChunkSize
      BY RoundTripAssumption
    <3>3. Writer!ChunkOffset(d.size, k + 1) = s + (k + 1 - 1) * c
      BY <3>1, <3>2 DEF Writer!ChunkOffset
    <3>4. k + 1 - 1 \in Nat
      OBVIOUS
    <3> QED
      BY <3>3, <3>4
  <2>2. PICK j \in Nat : k = j + 1 /\ j < n
    BY k - 1 \in Nat
  <2>3. PICK l \in Nat : l = Len(bytes) /\ l > ChunkSize /\ n = (l + ChunkSize - 1) \div ChunkSize
    OBVIOUS
  <2>4. Writer!Chunk(bytes, j + 1) \in Seq(CellValues)
    BY <2>2, <2>3, ChunkIs DEF ChunkFits, IsChunk
  <2> QED
    BY <2>1, <2>2, <2>4
<1>2. \A k \in 1..n : \A v \in Data :
        Writer!AppendBlock(v, Writer!Chunk(bytes, k), 0, doc(k), next(k)) \in Data
  BY <1>1, AppendBlockIs DEF IsAppended
<1>3. step \in [1..n -> [Data -> Data]]
  BY <1>2
<1>4. \A k \in 1..n : \A v \in Data :
        step[k][v] = Writer!AppendBlock(v, Writer!Chunk(bytes, k), 0, doc(k), next(k))
  OBVIOUS
<1> HIDE DEF step
<1>5. PICK g \in [0..n -> Data] : g[0] = d /\ \A k \in 1..n : g[k] = step[k][g[k - 1]]
  <2> DEFINE IsStep(V, start, m, by) ==
               \E g \in [0..m -> V] : g[0] = start /\ \A k \in 1..m : g[k] = by[k][g[k - 1]]
  <2>1. \A V : \A start \in V : \A m \in Nat : \A by \in [1..m -> [V -> V]] :
           IsStep(V, start, m, by)
    BY BoundedRecursionExists
  <2> HIDE DEF IsStep
  <2>2. IsStep(Data, d, n, step)
    BY <1>3, <2>1
  <2> QED
    BY <2>2 DEF IsStep
<1>6. \A k \in 1..n : k - 1 \in 0..n /\ k # 0 /\ k \in 0..n
  OBVIOUS
<1>7. \A k \in 1..n :
        g[k] = Writer!AppendBlock(g[k - 1], Writer!Chunk(bytes, k), 0, doc(k), next(k))
  BY <1>4, <1>5, <1>6
<1> HIDE DEF doc, next
<1>8. Rec(g) = g
  <2>1. \A k \in 0..n : k = 0 \/ k \in 1..n
    OBVIOUS
  <2>2. ASSUME NEW k \in 0..n PROVE Rec(g)[k] = g[k]
    BY <1>5, <1>7, <2>1
  <2> QED
    BY <1>5, <2>2
<1> DEFINE h == CHOOSE f : f = Rec(f)
<1>9. h = Rec(h)
  BY <1>8
<1>10. Writer!AppendDocument(d, bytes) = h[n]
  BY RoundTripAssumption DEF Writer!AppendDocument, Writer!Chunks, doc, next
<1>11. h[0] = d /\ \A k \in 1..n :
          h[k] = Writer!AppendBlock(h[k - 1], Writer!Chunk(bytes, k), 0, doc(k), next(k))
  <2>1. 0 \in 0..n
    OBVIOUS
  <2>2. PICK f : f = h /\ f = Rec(f)
    BY <1>9
  <2>3. f[0] = d /\ \A k \in 1..n :
          f[k] = Writer!AppendBlock(f[k - 1], Writer!Chunk(bytes, k), 0, doc(k), next(k))
    BY <1>6, <2>1, <2>2
  <2> HIDE DEF h, Rec
  <2> QED
    BY <2>2, <2>3
<1> HIDE DEF h, Rec
<1> QED
  BY <1>10, <1>11 DEF IsLoop, doc, next

\* append_document, the loop over the chunks: the offset each block names as
\* its next is where the next block is put.
LEMMA ManyBlocksAre ==
    ASSUME NEW d \in Data, NEW bytes \in Seq(CellValues), Len(bytes) > ChunkSize
    PROVE  IsStored(d, bytes, Writer!AppendDocument(d, bytes))
<1>1. PICK l \in Nat : l = Len(bytes) /\ l > ChunkSize
  OBVIOUS
<1>2. PICK n : n = (l + ChunkSize - 1) \div ChunkSize
  OBVIOUS
<1>3. PICK c \in Nat : c = ChunkSize /\ c > 0
  BY RoundTripAssumption
<1>4. n \in Nat /\ n > 1
  BY <1>1, <1>2, <1>3, ChunksAre
<1>5. PICK h : IsLoop(h, d, bytes, n) /\ Writer!AppendDocument(d, bytes) = h[n]
  BY <1>1, <1>2, <1>4, LoopIs
<1>6. PICK s \in Nat : s = d.size
  BY DataIs
<1>7. PICK hop : hop = [j \in Nat |-> IF j = n THEN End ELSE Writer!ChunkOffset(s, j + 1)]
  OBVIOUS
<1> DEFINE IsGrown(k) == \E at : Grown(d, h[k], hop, at, k, Until(k, n, l), bytes)
           S == {k \in Nat : k <= n => IsGrown(k)}
<1>8. 0 \in S
  <2>1. Until(0, n, l) = 0
    BY <1>3, <1>4 DEF Until
  <2>2. Grown(d, h[0], hop, [k \in Nat |-> <<>>], 0, 0, bytes)
    BY <1>5, GrownStarts DEF IsLoop
  <2> QED
    BY <2>1, <2>2
<1>9. ASSUME NEW k \in Nat, k \in S PROVE k + 1 \in S
  <2> SUFFICES ASSUME k < n PROVE IsGrown(k + 1)
    BY <1>4
  <2>1. PICK at : Grown(d, h[k], hop, at, k, Until(k, n, l), bytes)
    BY <1>4, <1>9
  <2> HIDE DEF IsGrown, S
  <2>2. ChunkFits(bytes, k, n, l)
    BY <1>1, <1>2, <1>4, ChunkIs
  <2>3. PICK m \in Nat, next \in Nat, x \in Nat :
          /\ m = Until(k, n, l) /\ m = k * c /\ x = next - m
          /\ next = Until(k + 1, n, l) /\ next <= l /\ m <= next
    <3>1. PICK m \in Nat, next \in Nat : m = Until(k, n, l) /\ next = Until(k + 1, n, l)
      BY <2>2 DEF ChunkFits
    <3>2. m <= next /\ next <= l /\ m = k * c
      BY <1>3, <2>2, <3>1 DEF ChunkFits
    <3> QED
      BY <3>1, <3>2, next - m \in Nat
  <2>5. PICK chunk : chunk = Writer!Chunk(bytes, k + 1) /\ IsChunk(chunk, bytes, m, x)
    BY <2>2, <2>3 DEF ChunkFits
  <2>6. PICK w : w = h[k] /\ Grown(d, w, hop, at, k, m, bytes)
    BY <2>1, <2>3
  <2>7. w \in Data /\ w.size = s + k * HeaderSize + m
    BY <1>6, <2>6 DEF Grown
  <2>8. PICK doc : doc = IF k = 0 THEN l ELSE 0
    OBVIOUS
  <2>9. PICK to : to = IF k + 1 = n THEN End ELSE Writer!ChunkOffset(s, k + 1 + 1)
    OBVIOUS
  <2>10. h[k + 1] = Writer!AppendBlock(w, chunk, 0, doc, to)
    <3>1. k + 1 \in 1..n /\ k + 1 - 1 = k /\ (k + 1 = 1 <=> k = 0)
      BY <1>4
    <3> QED
      BY <1>1, <1>5, <1>6, <2>5, <2>6, <2>8, <2>9, <3>1 DEF IsLoop
  <2>11. \A j \in Nat : Writer!ChunkOffset(s, j + 1) = s + j * (HeaderSize + c)
                        /\ Writer!ChunkOffset(s, j + 1) \in Nat
    <3>1. PICK y \in Nat : y = HeaderSize + ChunkSize /\ y = HeaderSize + c
      BY <1>3, RoundTripAssumption
    <3>2. ASSUME NEW j \in Nat
          PROVE  Writer!ChunkOffset(s, j + 1) = s + j * y /\ s + j * y \in Nat
      <4>1. PICK t \in Nat : t = j * y
        BY <3>1
      <4>2. j + 1 - 1 = j
        OBVIOUS
      <4>3. Writer!ChunkOffset(s, j + 1) = s + t
        BY ONLY <3>1, <4>1, <4>2 DEF Writer!ChunkOffset
      <4> QED
        BY <4>1, <4>3
    <3> QED
      BY ONLY <3>1, <3>2
  <2>12. to \in Nat \cup {End} /\ doc \in Nat
    BY <2>8, <2>9, <2>11, k + 1 \in Nat
  <2>13. chunk \in Seq(CellValues) /\ Len(chunk) = x /\ \A j \in 1..x : chunk[j] = bytes[m + j]
    BY <2>5 DEF IsChunk
  <2>14. PICK told : told = IF doc = 0 THEN x ELSE doc
    OBVIOUS
  <2>15. PICK e : e = h[k + 1] /\ IsAppended(w, chunk, told, to, e)
    BY <2>7, <2>10, <2>12, <2>13, <2>14, AppendBlockIs
  <2>16. hop[k] = w.size
    <3>1. hop[k] = s + k * (HeaderSize + c)
      BY <1>7, <2>11
    <3>2. k * (HeaderSize + c) = k * HeaderSize + k * c
      BY RoundTripAssumption
    <3>3. PICK y \in Nat : y = k * HeaderSize
      BY RoundTripAssumption
    <3> QED
      BY <2>3, <2>7, <3>1, <3>2, <3>3
  <2>17. hop[k + 1] = to
    BY <1>7, <2>9, k + 1 \in Nat
  <2>18. k = 0 => told = Len(bytes)
    BY <1>1, <2>8, <2>14, RoundTripAssumption
  <2>19. m + x <= Len(bytes) /\ m + x = next
    BY <1>1, <2>3
  <2>20. \E a : Grown(d, e, hop, a, k + 1, m + x, bytes)
    BY <2>6, <2>13, <2>15, <2>16, <2>17, <2>18, <2>19, GrownStep
  <2> QED
    BY <2>3, <2>15, <2>19, <2>20 DEF IsGrown
<1> HIDE DEF S
<1>10. n \in S
  BY <1>4, <1>8, <1>9, Induct
<1>11. PICK at : Grown(d, h[n], hop, at, n, Until(n, n, l), bytes)
  BY <1>4, <1>10 DEF S
<1>12. Until(n, n, l) = l
  BY <1>4 DEF Until
<1>13. BlocksOf(Len(bytes)) = n
  BY <1>1, <1>2, RoundTripAssumption DEF BlocksOf
<1>14. hop[n] = End
  BY <1>4, <1>7
<1> QED
  BY <1>1, <1>5, <1>11, <1>12, <1>13, <1>14 DEF IsStored

\* append_document: the blocks form a chain that ends and holds the bytes.
LEMMA AppendDocumentIs ==
    ASSUME NEW d \in Data, NEW bytes \in Seq(CellValues)
    PROVE  IsStored(d, bytes, Writer!AppendDocument(d, bytes))
<1>1. Len(bytes) <= ChunkSize \/ Len(bytes) > ChunkSize
  BY RoundTripAssumption
<1> QED
  BY <1>1, OneBlockIs, ManyBlocksAre

-----------------------------------------------------------------------------
(* Document after document.                                                *)

\* The recursive function that Appended is defined by exists.
LEMMA AppendedIs ==
    ASSUME NEW d \in Data,
           NEW documents \in Seq(Seq(CellValues)), NEW n \in Nat, n = Len(documents)
    PROVE  /\ Writer!Appended(d, documents)[0] = d
           /\ \A k \in 0..n : Writer!Appended(d, documents)[k] \in Data
           /\ \A k \in 1..n : IsStored(Writer!Appended(d, documents)[k - 1], documents[k],
                                       Writer!Appended(d, documents)[k])
<1> DEFINE step == [k \in 1..n |-> [v \in Data |-> Writer!AppendDocument(v, documents[k])]]
           Rec(h) == [k \in 0..n |->
                       IF k = 0 THEN d ELSE Writer!AppendDocument(h[k - 1], documents[k])]
<1>1. \A k \in 1..n : \A v \in Data : IsStored(v, documents[k], Writer!AppendDocument(v, documents[k]))
  BY AppendDocumentIs
<1>2. step \in [1..n -> [Data -> Data]]
  BY <1>1 DEF IsStored, Grown
<1>3. \A k \in 1..n : \A v \in Data : step[k][v] = Writer!AppendDocument(v, documents[k])
  OBVIOUS
<1> HIDE DEF step
<1>4. PICK g \in [0..n -> Data] : g[0] = d /\ \A k \in 1..n : g[k] = step[k][g[k - 1]]
  <2> DEFINE IsStep(V, start, m, by) ==
               \E g \in [0..m -> V] : g[0] = start /\ \A k \in 1..m : g[k] = by[k][g[k - 1]]
  <2>1. \A V : \A start \in V : \A m \in Nat : \A by \in [1..m -> [V -> V]] :
           IsStep(V, start, m, by)
    BY BoundedRecursionExists
  <2> HIDE DEF IsStep
  <2>2. IsStep(Data, d, n, step)
    BY <1>2, <2>1
  <2> QED
    BY <2>2 DEF IsStep
<1>5. \A k \in 1..n : k - 1 \in 0..n /\ k # 0 /\ k \in 0..n
  OBVIOUS
<1>6. \A k \in 1..n : g[k] = Writer!AppendDocument(g[k - 1], documents[k])
  BY <1>3, <1>4, <1>5
<1>7. Rec(g) = g
  <2>1. \A k \in 0..n : k = 0 \/ k \in 1..n
    OBVIOUS
  <2>2. ASSUME NEW k \in 0..n PROVE Rec(g)[k] = g[k]
    BY <1>4, <1>6, <2>1
  <2> QED
    BY <1>4, <2>2
<1> DEFINE h == CHOOSE f : f = Rec(f)
<1>8. h = Rec(h)
  BY <1>7
<1>9. Writer!Appended(d, documents) = h
  BY DEF Writer!Appended
<1>10. h[0] = d /\ \A k \in 1..n : h[k] = Writer!AppendDocument(h[k - 1], documents[k])
  <2>1. 0 \in 0..n
    OBVIOUS
  <2>2. PICK f : f = h /\ f = Rec(f)
    BY <1>8
  <2>3. f[0] = d /\ \A k \in 1..n : f[k] = Writer!AppendDocument(f[k - 1], documents[k])
    BY <1>5, <2>1, <2>2
  <2> HIDE DEF h, Rec
  <2> QED
    BY <2>2, <2>3
<1> HIDE DEF h, Rec
<1> DEFINE S == {k \in Nat : k <= n => h[k] \in Data}
<1>11. \A k \in Nat : k <= n => h[k] \in Data
  <2>1. 0 \in S
    BY <1>10
  <2>2. ASSUME NEW k \in Nat, k \in S PROVE k + 1 \in S
    <3> SUFFICES ASSUME k + 1 <= n PROVE h[k + 1] \in Data
      OBVIOUS
    <3>1. k + 1 \in 1..n /\ k + 1 - 1 = k /\ h[k] \in Data
      BY <2>2
    <3>2. h[k + 1] = Writer!AppendDocument(h[k], documents[k + 1])
      BY <1>10, <3>1
    <3> QED
      BY <1>1, <3>1, <3>2 DEF IsStored, Grown
  <2> HIDE DEF S
  <2>3. Nat \subseteq S
    BY <2>1, <2>2, Induct
  <2> QED
    BY <2>3 DEF S
<1>12. \A k \in 1..n : IsStored(h[k - 1], documents[k], h[k])
  <2> SUFFICES ASSUME NEW k \in 1..n PROVE IsStored(h[k - 1], documents[k], h[k])
    OBVIOUS
  <2>1. k - 1 \in Nat /\ k - 1 <= n
    OBVIOUS
  <2>2. h[k - 1] \in Data
    BY <1>11, <2>1
  <2> QED
    BY <1>1, <1>10, <2>2
<1> QED
  BY <1>9, <1>10, <1>11, <1>12

\* The stages of writing documents one after the other.
AreStages(h, documents) ==
    /\ \A k \in 0..Len(documents) : h[k] \in Data
    /\ \A k \in 1..Len(documents) : IsStored(h[k - 1], documents[k], h[k])

\* What is written stays as it is while the rest is written.
LEMMA StagesExtend ==
    ASSUME NEW documents \in Seq(Seq(CellValues)), NEW n \in Nat, n = Len(documents),
           NEW h, AreStages(h, documents)
    PROVE  \A k \in 0..n : Extends(h[k], h[n])
<1> DEFINE S == {k \in Nat : k <= n => \A j \in 0..k : Extends(h[j], h[k])}
<1>1. \A k \in 0..n : h[k] \in Data
  BY DEF AreStages
<1>2. \A k \in 0..n : Extends(h[k], h[k])
  <2> SUFFICES ASSUME NEW k \in 0..n PROVE Extends(h[k], h[k])
    OBVIOUS
  <2>1. h[k].size \in Nat
    BY <1>1, DataIs
  <2> QED
    BY <2>1 DEF Extends
<1>3. 0 \in S
  <2>1. \A j \in 0..0 : j = 0
    OBVIOUS
  <2> QED
    BY <1>2, <2>1
<1>4. ASSUME NEW k \in Nat, k \in S PROVE k + 1 \in S
  <2> SUFFICES ASSUME k + 1 <= n, NEW j \in 0..(k + 1) PROVE Extends(h[j], h[k + 1])
    OBVIOUS
  <2>1. CASE j = k + 1
    BY <1>2, <2>1
  <2>2. CASE j # k + 1
    <3>1. j \in 0..k /\ k \in 0..n /\ k + 1 \in 1..n /\ k + 1 - 1 = k /\ j \in 0..n /\ k + 1 \in 0..n
      BY <2>2
    <3>2. Extends(h[j], h[k])
      BY <1>4, <3>1
    <3>3. Extends(h[k], h[k + 1])
      BY <3>1 DEF AreStages, IsStored, Grown
    <3> QED
      BY <1>1, <3>1, <3>2, <3>3, ExtendsOn
  <2> QED
    BY <2>1, <2>2
<1>5. n \in S
  <2> HIDE DEF S
  <2> QED
    BY <1>3, <1>4, Induct
<1> QED
  BY <1>5

-----------------------------------------------------------------------------
(* A document that was written is the document that is read.               *)

\* At o the file has the document in m blocks.
Placed(f, o, hop, at, m, bytes) ==
    /\ Walks(f, hop, at, m) /\ hop[0] = o /\ hop[m] = End
    /\ Len(at[m]) = Len(bytes) /\ f.headers[o].doc = Len(bytes)
    /\ \A i \in 1..Len(bytes) : f.cells[at[m][i]] = bytes[i]

\* Every document has a block.
LEMMA BlocksOfIs ==
    ASSUME NEW l \in Nat
    PROVE  BlocksOf(l) \in Nat /\ BlocksOf(l) > 0
<1>1. CASE l <= ChunkSize
  BY <1>1 DEF BlocksOf
<1>2. CASE l > ChunkSize
  <2>1. PICK n : n = (l + ChunkSize - 1) \div ChunkSize
    OBVIOUS
  <2>2. n \in Nat /\ n > 1
    BY <1>2, <2>1, ChunksAre, RoundTripAssumption
  <2> QED
    BY <1>2, <2>1, <2>2 DEF BlocksOf
<1> QED
  BY <1>1, <1>2, RoundTripAssumption

LEMMA StoredIsPlaced ==
    ASSUME NEW d \in Data, NEW bytes \in Seq(CellValues), NEW e \in Data, IsStored(d, bytes, e),
           NEW f \in Data, Extends(e, f)
    PROVE  \E hop : \E at : Placed(f, d.size, hop, at, BlocksOf(Len(bytes)), bytes)
<1>1. PICK l \in Nat : l = Len(bytes)
  OBVIOUS
<1>2. PICK m \in Nat : m = BlocksOf(l) /\ m > 0
  BY BlocksOfIs
<1>3. PICK hop, at : Grown(d, e, hop, at, m, l, bytes) /\ hop[m] = End
  BY <1>1, <1>2 DEF IsStored
<1>4. Walks(e, hop, at, m) /\ Len(at[m]) = l /\ Holds(e, d.size, at[m], bytes)
      /\ hop[0] = d.size /\ e.headers[hop[0]].doc = l
  BY <1>1, <1>2, <1>3 DEF Grown
<1>5. \A o \in DOMAIN e.headers : o \in DOMAIN f.headers /\ f.headers[o] = e.headers[o]
  BY DEF Extends
<1>6. Walks(f, hop, at, m)
  BY <1>4, <1>5 DEF Walks
<1>7. 0 \in 0..(m - 1)
  BY <1>2
<1>8. f.headers[d.size].doc = l
  <2>1. hop[0] \in DOMAIN e.headers
    BY <1>4, <1>7 DEF Walks
  <2> QED
    BY <1>4, <1>5, <2>1
<1>9. ASSUME NEW i \in 1..l PROVE f.cells[at[m][i]] = bytes[i]
  <2>1. PICK all \in Seq(Nat) : all = at[m]
    BY <1>4 DEF Walks
  <2>2. all[i] < e.size /\ e.cells[all[i]] = bytes[i]
    BY <1>4, <2>1 DEF Holds
  <2>3. all[i] \in Nat
    BY <1>4, <2>1
  <2>4. e.size \in Nat
    BY DataIs
  <2>5. all[i] \in 0..(e.size - 1)
    BY <2>2, <2>3, <2>4
  <2>6. f.cells[all[i]] = e.cells[all[i]]
    BY <2>5 DEF Extends
  <2> QED
    BY <2>1, <2>2, <2>6
<1>10. Placed(f, d.size, hop, at, m, bytes)
  BY <1>1, <1>3, <1>4, <1>6, <1>8, <1>9 DEF Placed
<1> QED
  BY <1>1, <1>2, <1>10

\* The reader goes through the very blocks the writer chained.
LEMMA PlacedIsDocument ==
    ASSUME NEW f, IsImage(f), NEW o \in Nat, NEW hop, NEW at, NEW m \in 1..f.size,
           NEW bytes \in Seq(CellValues), Placed(f, o, hop, at, m, bytes),
           \A a \in DOMAIN f.headers : f.headers[a].body + f.headers[a].cur <= f.size
    PROVE  /\ IsDocument(f, o, f.size) /\ Length(f, o, f.size) = m
           /\ f.headers[o].doc = Len(bytes)
           /\ Len(Document(f, o, f.size)) = Len(bytes)
           /\ \A i \in 1..Len(bytes) : f.cells[Document(f, o, f.size)[i]] = bytes[i]
<1>1. f.size \in Nat /\ m \in Nat /\ m > 0
  BY DEF IsImage
<1>2. Walks(f, hop, at, m) /\ hop[0] = o /\ hop[m] = End
      /\ Len(at[m]) = Len(bytes) /\ f.headers[o].doc = Len(bytes)
      /\ \A i \in 1..Len(bytes) : f.cells[at[m][i]] = bytes[i]
  BY DEF Placed
<1>3. PICK chain : chain = Chain(f, o)
  OBVIOUS
<1>4. PICK held : held = ChainBytes(f, o)
  OBVIOUS
<1> DEFINE S == {k \in Nat : k <= m => chain[k] = hop[k] /\ held[k] = at[k]}
<1>5. 0 \in S
  <2>1. chain[0] = o
    BY <1>3, ChainHops
  <2>2. held[0] = <<>>
    BY <1>4, ChainBytesGrow
  <2>3. at[0] = <<>> /\ hop[0] = o
    BY <1>2 DEF Walks
  <2> QED
    BY <2>1, <2>2, <2>3
<1>6. ASSUME NEW k \in Nat, k \in S PROVE k + 1 \in S
  <2> SUFFICES ASSUME k + 1 <= m PROVE chain[k + 1] = hop[k + 1] /\ held[k + 1] = at[k + 1]
    OBVIOUS
  <2>1. k \in 0..(m - 1) /\ chain[k] = hop[k] /\ held[k] = at[k]
    BY <1>1, <1>6
  <2> HIDE DEF S
  <2>2. /\ hop[k] \in DOMAIN f.headers /\ f.headers[hop[k]].next = hop[k + 1]
        /\ at[k + 1] = at[k] \o Positions(f.headers[hop[k]].body, f.headers[hop[k]].cur)
    BY <1>2, <2>1 DEF Walks
  <2>3. chain[k + 1] = Hop(f, chain[k])
    BY <1>3, ChainHops
  <2>4. held[k + 1] = held[k] \o BlockBytes(f, chain[k])
    BY <1>3, <1>4, ChainBytesGrow
  <2> QED
    BY <2>1, <2>2, <2>3, <2>4 DEF Hop, BlockBytes
<1>7. \A k \in Nat : k <= m => chain[k] = hop[k] /\ held[k] = at[k]
  <2> HIDE DEF S
  <2>1. Nat \subseteq S
    BY <1>5, <1>6, Induct
  <2> QED
    BY <2>1 DEF S
<1>8. ChainEnds(f, o, m)
  <2>1. chain[m] = End
    BY <1>1, <1>2, <1>7
  <2>2. ASSUME NEW k \in 0..(m - 1)
        PROVE  /\ chain[k] \in DOMAIN f.headers
               /\ f.headers[chain[k]].body + f.headers[chain[k]].cur <= f.size
    <3>1. k \in Nat /\ k <= m /\ hop[k] \in DOMAIN f.headers
      BY <1>1, <1>2 DEF Walks
    <3> QED
      BY <1>7, <3>1
  <2> QED
    BY <1>3, <2>1, <2>2 DEF ChainEnds
<1>9. IsChain(f, o, f.size) /\ Length(f, o, f.size) = m
  BY <1>1, <1>8, LengthIs
<1>10. PICK all \in Seq(Nat) : all = at[m] /\ Len(all) = Len(bytes)
  BY <1>1, <1>2 DEF Walks
<1>11. ChainBytes(f, o)[Length(f, o, f.size)] = all
  BY <1>1, <1>4, <1>7, <1>9, <1>10
<1>12. IsDocument(f, o, f.size)
  <2>1. Len(bytes) <= Len(bytes)
    OBVIOUS
  <2> QED
    BY <1>2, <1>9, <1>10, <1>11, <2>1 DEF IsDocument
<1>13. Document(f, o, f.size) = all
  <2>1. SubSeq(all, 1, Len(all)) = all
    OBVIOUS
  <2> QED
    BY <1>2, <1>10, <1>11, <2>1 DEF Document
<1> QED
  BY <1>2, <1>9, <1>10, <1>12, <1>13

-----------------------------------------------------------------------------
(* What the documents need together.                                       *)

\* Numbers met one after the other, each once, add up to no more than a count
\* that grows by each of them.
LEMMA SumAlong ==
    ASSUME NEW n \in Nat, NEW f, NEW x, NEW t, NEW D, IsFiniteSet(D), D = {x[k] : k \in 0..n},
           \A k \in 0..n : f[x[k]] \in Nat /\ t[k] \in Nat,
           \A k \in 0..n : \A j \in 0..n : x[k] = x[j] => k = j,
           f[x[0]] <= t[0], \A k \in 1..n : t[k - 1] + f[x[k]] <= t[k]
    PROVE  SumFunctionOnSet(f, D) \in Nat /\ SumFunctionOnSet(f, D) <= t[n]
<1> DEFINE W(k) == {x[j] : j \in 0..k}
           S == {k \in Nat : k <= n => SumFunctionOnSet(f, W(k)) <= t[k]}
<1>1. ASSUME NEW k \in 0..n
      PROVE  /\ SumFunctionOnSet(f, W(k)) \in Nat
             /\ SumFunctionOnSet(f, W(k)) = f[x[k]] + SumFunctionOnSet(f, W(k) \ {x[k]})
             /\ SumFunctionOnSet(f, W(k) \ {x[k]}) \in Nat
  <2>1. IsFiniteSet(W(k))
    <3>1. W(k) \subseteq D
      <4>1. \A j \in 0..k : j \in 0..n
        OBVIOUS
      <4> QED
        BY <4>1
    <3> QED
      BY <3>1, FS_Subset
  <2>2. \A y \in W(k) : f[y] \in Nat
    OBVIOUS
  <2>3. x[k] \in W(k)
    OBVIOUS
  <2>4. IsFiniteSet(W(k) \ {x[k]}) /\ \A y \in W(k) \ {x[k]} : f[y] \in Nat
    BY <2>1, <2>2, FS_Subset
  <2> HIDE DEF W
  <2> QED
    BY <2>1, <2>2, <2>3, <2>4, SumStep
<1>2. 0 \in S
  <2>1. W(0) \ {x[0]} = {}
    OBVIOUS
  <2>2. SumFunctionOnSet(f, W(0)) = f[x[0]] + 0
    BY <1>1, <2>1, SumOfNothing, 0 \in 0..n
  <2>3. PICK a \in Nat : a = f[x[0]]
    BY 0 \in 0..n
  <2> HIDE DEF W
  <2> QED
    BY <2>2, <2>3
<1>3. ASSUME NEW k \in Nat, k \in S PROVE k + 1 \in S
  <2> SUFFICES ASSUME k + 1 <= n PROVE SumFunctionOnSet(f, W(k + 1)) <= t[k + 1]
    OBVIOUS
  <2>1. k + 1 \in 1..n /\ k + 1 - 1 = k /\ k \in 0..n /\ k + 1 \in 0..n
    OBVIOUS
  <2>2. W(k + 1) \ {x[k + 1]} = W(k)
    <3>1. \A j \in 0..(k + 1) : j = k + 1 \/ j \in 0..k
      OBVIOUS
    <3>2. \A j \in 0..k : j \in 0..n /\ j # k + 1 /\ j \in 0..(k + 1)
      BY <2>1
    <3> QED
      BY <2>1, <3>1, <3>2
  <2>3. SumFunctionOnSet(f, W(k)) <= t[k]
    BY <1>3, <2>1
  <2> HIDE DEF W, S
  <2>4. PICK a \in Nat : a = SumFunctionOnSet(f, W(k))
    BY <1>1, <2>1
  <2>5. PICK b \in Nat : b = f[x[k + 1]]
    BY <2>1
  <2>6. PICK u \in Nat, v \in Nat : u = t[k] /\ v = t[k + 1]
    BY <2>1
  <2>7. SumFunctionOnSet(f, W(k + 1)) = b + a
    BY <1>1, <2>1, <2>2, <2>4, <2>5
  <2>8. a <= u /\ u + b <= v
    BY <2>1, <2>3, <2>4, <2>5, <2>6
  <2> QED
    BY <2>6, <2>7, <2>8
<1>4. n \in S
  <2> HIDE DEF S
  <2> QED
    BY <1>2, <1>3, Induct
<1>5. SumFunctionOnSet(f, W(n)) \in Nat
  BY <1>1, n \in 0..n
<1> QED
  BY <1>4, <1>5

\* A stage is larger by the bytes of its document and by at least one byte for
\* each of its blocks.
LEMMA StageGrows ==
    ASSUME NEW d \in Data, NEW bytes \in Seq(CellValues), NEW e, IsStored(d, bytes, e)
    PROVE  /\ d.size + Len(bytes) <= e.size
           /\ d.size + BlocksOf(Len(bytes)) <= e.size
           /\ Cardinality(DOMAIN e.headers) = Cardinality(DOMAIN d.headers) + BlocksOf(Len(bytes))
<1>1. PICK l \in Nat : l = Len(bytes)
  OBVIOUS
<1>2. PICK m \in Nat : m = BlocksOf(l)
  BY BlocksOfIs
<1>3. PICK hop, at : Grown(d, e, hop, at, m, l, bytes)
  BY <1>1, <1>2 DEF IsStored
<1>4. PICK s \in Nat : s = d.size
  BY DataIs
<1>5. e.size = s + m * HeaderSize + l
  BY <1>3, <1>4 DEF Grown
<1>6. m * HeaderSize \in Nat /\ m <= m * HeaderSize
  BY RoundTripAssumption
<1>7. PICK y \in Nat : y = m * HeaderSize
  BY <1>6
<1>8. e.size = s + y + l /\ m <= y
  BY <1>5, <1>6, <1>7
<1>9. Cardinality(DOMAIN e.headers) = Cardinality(DOMAIN d.headers) + m
  BY <1>3 DEF Grown
<1> QED
  BY <1>1, <1>2, <1>4, <1>8, <1>9

-----------------------------------------------------------------------------
(* The documents of a container.                                           *)

FileLengths == [descriptor : Nat, payload : Nat]

LEMMA DescriptorBytesAre ==
    ASSUME NEW i \in Nat, NEW n \in Nat
    PROVE  /\ Writer!DescriptorBytes(i, n) \in Seq(CellValues)
           /\ Len(Writer!DescriptorBytes(i, n)) = n
<1>1. \A k \in 1..n : <<"descriptor", i, k>> \in CellValues
  BY DEF CellValues
<1>2. PICK b : b = [k \in 1..n |-> <<"descriptor", i, k>>]
  OBVIOUS
<1>3. b \in [1..n -> CellValues]
  BY <1>1, <1>2
<1>4. b \in Seq(CellValues) /\ Len(b) = n
  BY <1>3
<1> QED
  BY <1>2, <1>4 DEF Writer!DescriptorBytes

LEMMA PayloadBytesAre ==
    ASSUME NEW i \in Nat, NEW n \in Nat
    PROVE  /\ Writer!PayloadBytes(i, n) \in Seq(CellValues)
           /\ Len(Writer!PayloadBytes(i, n)) = n
           /\ \A k \in 1..n : Writer!PayloadBytes(i, n)[k] = <<"payload", i, k>>
           /\ Writer!PayloadBytes(i, n) = [k \in 1..n |-> <<"payload", i, k>>]
<1>1. \A k \in 1..n : <<"payload", i, k>> \in CellValues
  BY DEF CellValues
<1>2. PICK b : b = [k \in 1..n |-> <<"payload", i, k>>]
  OBVIOUS
<1>3. b \in [1..n -> CellValues] /\ \A k \in 1..n : b[k] = <<"payload", i, k>>
  BY <1>1, <1>2
<1>4. b \in Seq(CellValues) /\ Len(b) = n
  BY <1>3
<1> QED
  BY <1>2, <1>3, <1>4 DEF Writer!PayloadBytes

\* The order of the documents: descriptors, then payloads from the last file on.
LEMMA DocumentsAre ==
    ASSUME NEW package \in Seq(FileLengths), NEW n \in Nat, n = Len(package)
    PROVE  /\ Writer!Documents(package) \in Seq(Seq(CellValues))
           /\ Len(Writer!Documents(package)) = 2 * n
           /\ \A k \in 1..n :
                Writer!Documents(package)[k] = Writer!DescriptorBytes(k, package[k].descriptor)
           /\ \A k \in (n + 1)..(2 * n) :
                Writer!Documents(package)[k]
                  = Writer!PayloadBytes(2 * n + 1 - k, package[2 * n + 1 - k].payload)
<1>1. DOMAIN package = 1..n /\ \A i \in 1..n : package[i].descriptor \in Nat /\ package[i].payload \in Nat
  <2>1. \A i \in 1..n : package[i] \in FileLengths
    OBVIOUS
  <2> QED
    BY <2>1 DEF FileLengths
<1>2. PICK a : a = [i \in 1..n |-> Writer!DescriptorBytes(i, package[i].descriptor)]
  OBVIOUS
<1>3. PICK b : b = [i \in 1..n |-> Writer!PayloadBytes(i, package[i].payload)]
  OBVIOUS
<1>4. PICK V : V = Seq(CellValues)
  OBVIOUS
<1>5. a \in [1..n -> V] /\ b \in [1..n -> V]
  <2>1. \A i \in 1..n : Writer!DescriptorBytes(i, package[i].descriptor) \in V
    <3> SUFFICES ASSUME NEW i \in 1..n
                 PROVE  Writer!DescriptorBytes(i, package[i].descriptor) \in V
      OBVIOUS
    <3>1. i \in Nat /\ package[i].descriptor \in Nat
      BY <1>1
    <3> QED
      BY <1>4, <3>1, DescriptorBytesAre
  <2>2. \A i \in 1..n : Writer!PayloadBytes(i, package[i].payload) \in V
    <3> SUFFICES ASSUME NEW i \in 1..n
                 PROVE  Writer!PayloadBytes(i, package[i].payload) \in V
      OBVIOUS
    <3>1. i \in Nat /\ package[i].payload \in Nat
      BY <1>1
    <3> QED
      BY <1>4, <3>1, PayloadBytesAre
  <2> QED
    BY <1>2, <1>3, <2>1, <2>2
<1>6. a \in Seq(V) /\ Len(a) = n /\ b \in Seq(V) /\ Len(b) = n
  BY <1>5
<1>7. PICK r : r = [i \in 1..n |-> b[n - i + 1]]
  OBVIOUS
<1>8. r \in [1..n -> V] /\ Writer!Reverse(b) = r
  <2>1. \A i \in 1..n : n - i + 1 \in 1..n
    OBVIOUS
  <2> QED
    BY <1>5, <1>6, <1>7, <2>1 DEF Writer!Reverse
<1>9. r \in Seq(V) /\ Len(r) = n
  BY <1>8
<1>10. Writer!Documents(package) = a \o r
  BY <1>1, <1>2, <1>3, <1>8 DEF Writer!Documents
<1>11. PICK all : all = a \o r
  OBVIOUS
<1>12. /\ all \in Seq(V) /\ Len(all) = n + n
       /\ \A k \in 1..n : all[k] = a[k]
       /\ \A k \in 1..n : all[n + k] = r[k]
  <2>1. PICK first \in Seq(V), rest \in Seq(V) : first = a /\ rest = r
    BY <1>6, <1>9
  <2>2. /\ first \o rest \in Seq(V) /\ Len(first \o rest) = Len(first) + Len(rest)
        /\ \A p \in 1..Len(first) : (first \o rest)[p] = first[p]
        /\ \A p \in 1..Len(rest) : (first \o rest)[Len(first) + p] = rest[p]
    BY Concatenation
  <2> QED
    BY <1>6, <1>9, <1>11, <2>1, <2>2
<1>13. \A k \in 1..n : all[k] = Writer!DescriptorBytes(k, package[k].descriptor)
  BY <1>2, <1>12
<1>14. ASSUME NEW k \in (n + 1)..(2 * n)
       PROVE  all[k] = Writer!PayloadBytes(2 * n + 1 - k, package[2 * n + 1 - k].payload)
  <2>1. PICK j \in 1..n : k = n + j
    BY k - n \in 1..n
  <2>2. n - j + 1 \in 1..n /\ 2 * n + 1 - k = n - j + 1
    BY <2>1
  <2>3. all[k] = b[n - j + 1]
    BY <1>7, <1>12, <2>1
  <2> QED
    BY <1>3, <2>2, <2>3
<1> QED
  BY <1>4, <1>10, <1>11, <1>12, <1>13, <1>14, n + n = 2 * n

LEMMA EmptyIs ==
    ASSUME NEW b \in Nat, NEW e,
           e = Writer!EmptyContainer(TocOffset, b)
    PROVE  /\ e \in Data /\ e.size = TocOffset + HeaderSize + TocBlockSize
           /\ DOMAIN e.headers = {TocOffset}
           /\ e.headers[TocOffset] = [doc |-> b, cur |-> TocBlockSize, next |-> End,
                                      body |-> TocOffset + HeaderSize]
<1>1. PICK o \in Nat, h \in Nat, t \in Nat :
        o = TocOffset /\ h = HeaderSize /\ h > 0 /\ t = TocBlockSize
  BY ContainerAssumption, RoundTripAssumption
<1>2. PICK z \in Nat : z = o + h + t
  OBVIOUS
<1>3. PICK H \in SUBSET Nat : H = {o}
  OBVIOUS
<1>4. PICK header : header = [doc |-> b, cur |-> t, next |-> End, body |-> o + h]
  OBVIOUS
<1>5. header \in BlockHeaders
  BY <1>4, o + h \in Nat DEF BlockHeaders
<1>6. PICK headers : headers = [a \in H |-> header]
  OBVIOUS
<1>7. PICK cells : cells = [p \in 0..(z - 1) |-> Filler]
  OBVIOUS
<1>8. Filler \in CellValues
  BY DEF Filler, Writer!Filler, CellValues
<1>9. e = [size |-> z, headers |-> headers, cells |-> cells]
  BY <1>1, <1>2, <1>3, <1>4, <1>6, <1>7 DEF Writer!EmptyContainer, Filler
<1>10. headers \in [H -> BlockHeaders] /\ cells \in [0..(z - 1) -> CellValues]
  BY <1>5, <1>6, <1>7, <1>8
<1>11. \A a \in H : a < headers[a].body /\ headers[a].body + headers[a].cur <= z
  BY <1>1, <1>2, <1>3, <1>4, <1>6
<1>12. IsFiniteSet(H)
  BY <1>3, FS_Singleton
<1>13. e \in Data
  <2>1. [size |-> z, headers |-> headers, cells |-> cells] \in Data
    BY ONLY <1>10, <1>11, <1>12, z \in Nat, H \in SUBSET Nat, IsDataWhen
  <2> QED
    BY <1>9, <2>1
<1> QED
  BY <1>1, <1>2, <1>3, <1>4, <1>6, <1>9, <1>13

\* A document in one block.
LEMMA OneBlockDocument ==
    ASSUME NEW f, IsImage(f), NEW o \in DOMAIN f.headers, f.headers[o].next = End,
           f.headers[o].body + f.headers[o].cur <= f.size
    PROVE  /\ Length(f, o, f.size) = 1
           /\ IsDocument(f, o, f.size) <=> f.headers[o].doc <= f.headers[o].cur
<1>1. /\ o \in Nat /\ o < f.size /\ f.size \in Nat
      /\ f.headers[o].doc \in Nat /\ f.headers[o].cur \in Nat /\ f.headers[o].body \in Nat
  BY HeaderIs
<1>2. Chain(f, o)[0] = o /\ Chain(f, o)[1] = End
  <2>1. Chain(f, o)[0] = o /\ Chain(f, o)[0 + 1] = Hop(f, Chain(f, o)[0])
    BY <1>1, ChainHops
  <2> QED
    BY <2>1 DEF Hop
<1>3. ChainEnds(f, o, 1)
  <2>1. \A k \in 0..(1 - 1) : k = 0
    OBVIOUS
  <2> QED
    BY <1>2, <2>1 DEF ChainEnds
<1>4. IsChain(f, o, f.size) /\ Length(f, o, f.size) = 1
  BY <1>1, <1>3, 1 \in 1..f.size, LengthIs
<1>5. PICK s \in Seq(Nat) : s = Positions(f.headers[o].body, f.headers[o].cur)
                            /\ Len(s) = f.headers[o].cur
  BY <1>1, PositionsAre
<1>6. ChainBytes(f, o)[1] = s
  <2>1. ChainBytes(f, o)[0] = <<>> /\ ChainBytes(f, o)[0 + 1] = ChainBytes(f, o)[0] \o BlockBytes(f, o)
    <3>1. 0 \in Nat /\ o \in Nat
      BY <1>1
    <3>2. ChainBytes(f, o)[0 + 1] = ChainBytes(f, o)[0] \o BlockBytes(f, Chain(f, o)[0])
      BY ONLY <3>1, IsImage(f), ChainBytesGrow
    <3> QED
      BY <1>2, <3>1, <3>2, ChainBytesGrow
  <2>2. BlockBytes(f, o) = s /\ <<>> \o s = s
    BY <1>5 DEF BlockBytes
  <2> QED
    BY <2>1, <2>2
<1> QED
  BY <1>4, <1>5, <1>6 DEF IsDocument

-----------------------------------------------------------------------------
(* What serialize_container writes.                                        *)

\* g is the image, h the stages of its writing, and s its documents.
Made(g, h, s, package, n) ==
    /\ n = Len(package) /\ s = Writer!Documents(package)
    /\ AreStages(h, s)
    /\ h[0] = Writer!EmptyContainer(TocOffset, n * EntrySize)
    /\ g.magic /\ g.count = n /\ g.size = h[2 * n].size /\ g.cells = h[2 * n].cells
    /\ \A i \in 1..n : /\ g.entries[i].marker /\ g.entries[i].clean
                       /\ g.entries[i].descriptor = h[i - 1].size
                       /\ g.entries[i].payload = h[2 * n - i].size
    /\ TocOffset \in DOMAIN g.headers
    /\ g.headers[TocOffset] = [doc |-> n * EntrySize, cur |-> TocBlockSize, next |-> End,
                               body |-> TocOffset + HeaderSize]
    /\ TocOffset + HeaderSize + TocBlockSize <= g.size
    /\ n * EntrySize <= TocBlockSize => g.headers = h[2 * n].headers

\* serialize_container; copying the TOC covers no header if the entries fit.
LEMMA SerializedIs ==
    ASSUME NEW package \in Seq(FileLengths),
           NEW g, g = Writer!Serialize(package, TocOffset, EntrySize)
    PROVE  \E h : \E s : Made(g, h, s, package, Len(package))
<1>1. PICK n \in Nat : n = Len(package)
  OBVIOUS
<1>2. PICK o \in Nat, c \in Nat, t \in Nat, y \in Nat :
        o = TocOffset /\ c = HeaderSize /\ c > 0 /\ t = TocBlockSize /\ y = EntrySize
  BY ContainerAssumption, RoundTripAssumption
<1>3. PICK b \in Nat : b = n * EntrySize
  BY <1>2
<1>4. PICK e : e = Writer!EmptyContainer(TocOffset, b)
  OBVIOUS
<1>5. /\ e \in Data /\ e.size = o + c + t
      /\ DOMAIN e.headers = {o}
      /\ e.headers[o] = [doc |-> b, cur |-> TocBlockSize, next |-> End,
                         body |-> TocOffset + HeaderSize]
  BY <1>2, <1>4, EmptyIs
<1>6. PICK s \in Seq(Seq(CellValues)) : s = Writer!Documents(package) /\ Len(s) = 2 * n
  BY <1>1, DocumentsAre
<1>7. PICK h : h = Writer!Appended(e, s)
  OBVIOUS
<1>8. PICK m \in Nat : m = 2 * n /\ m = Len(s)
  BY <1>6
<1>9. h[0] = e /\ \A k \in 0..m : h[k] \in Data
  BY <1>5, <1>7, <1>8, AppendedIs, RoundTripAssumption
<1>10. \A k \in 1..m : IsStored(h[k - 1], s[k], h[k])
  BY <1>5, <1>7, <1>8, AppendedIs, RoundTripAssumption
<1>11. AreStages(h, s)
  BY <1>8, <1>9, <1>10 DEF AreStages
<1>12. Extends(e, h[m])
  BY <1>8, <1>9, <1>11, StagesExtend, 0 \in 0..m
<1>13. PICK data \in Data : data = h[m]
  BY <1>9
<1> DEFINE intact == {a \in DOMAIN data.headers : a = o \/ a >= o + c + b}
<1>14. g = [size |-> data.size, magic |-> TRUE,
            headers |-> [a \in intact |-> data.headers[a]],
            count |-> n,
            entries |-> [i \in 1..n |-> [descriptor |-> h[i - 1].size,
                                         payload |-> h[2 * n - i].size,
                                         marker |-> TRUE, clean |-> TRUE]],
            cells |-> data.cells]
  BY <1>1, <1>2, <1>3, <1>4, <1>6, <1>7, <1>8, <1>13 DEF Writer!Serialize
<1>15. o \in DOMAIN data.headers /\ data.headers[o] = e.headers[o] /\ o + c + t <= data.size
       /\ \A a \in DOMAIN data.headers : a = o \/ o + c + t <= a
  BY <1>5, <1>12, <1>13 DEF Extends
<1>16. /\ TocOffset \in DOMAIN g.headers
       /\ g.headers[TocOffset] = [doc |-> n * EntrySize, cur |-> TocBlockSize, next |-> End,
                                  body |-> TocOffset + HeaderSize]
  <2>1. DOMAIN g.headers = intact /\ o \in intact
    BY <1>14, <1>15
  <2>2. g.headers[o] = data.headers[o]
    BY <1>14, <2>1
  <2> QED
    BY <1>2, <1>3, <1>5, <1>15, <2>1, <2>2
<1>17. TocOffset + HeaderSize + TocBlockSize <= g.size
  BY <1>2, <1>14, <1>15
<1>18. ASSUME n * EntrySize <= TocBlockSize PROVE g.headers = h[2 * n].headers
  <2>1. b <= t
    BY <1>2, <1>3, <1>18
  <2>2. ASSUME NEW a \in DOMAIN data.headers PROVE a \in intact
    <3>1. a \in Nat
      BY DataIs
    <3>2. a = o \/ o + c + t <= a
      BY <1>15
    <3> QED
      BY <2>1, <3>1, <3>2
  <2>3. intact = DOMAIN data.headers
    BY <2>2
  <2>4. data.headers = [a \in DOMAIN data.headers |-> data.headers[a]]
    BY DataIs
  <2>5. g.headers = [a \in intact |-> data.headers[a]]
    BY <1>14
  <2> HIDE DEF intact
  <2> QED
    BY <1>8, <1>13, <2>3, <2>4, <2>5
<1>19. /\ g.magic /\ g.count = n /\ g.size = h[2 * n].size /\ g.cells = h[2 * n].cells
       /\ \A i \in 1..n : /\ g.entries[i].marker /\ g.entries[i].clean
                          /\ g.entries[i].descriptor = h[i - 1].size
                          /\ g.entries[i].payload = h[2 * n - i].size
  BY <1>8, <1>13, <1>14
<1>20. Made(g, h, s, package, n)
  BY <1>1, <1>3, <1>4, <1>6, <1>9, <1>11, <1>16, <1>17, <1>18, <1>19 DEF Made
<1> QED
  BY <1>1, <1>20

\* The number the reader gives the k-th document written.
Label(n, k) == IF k = 0 THEN 0 ELSE IF k <= n THEN 2 * k - 1 ELSE 2 * (2 * n + 1 - k)

\* Every document the reader asks for is written, and each once.
LEMMA LabelsAre ==
    ASSUME NEW n \in Nat
    PROVE  /\ \A k \in 0..(2 * n) : Label(n, k) \in 0..(2 * n)
           /\ \A k \in 0..(2 * n) : \A j \in 0..(2 * n) : Label(n, k) = Label(n, j) => k = j
           /\ \A d \in 0..(2 * n) : \E k \in 0..(2 * n) : d = Label(n, k)
<1>1. \A k \in 0..(2 * n) : Label(n, k) \in 0..(2 * n)
  BY DEF Label
<1>2. \A k \in 0..(2 * n) : \A j \in 0..(2 * n) : Label(n, k) = Label(n, j) => k = j
  BY DEF Label
<1>3. ASSUME NEW d \in 0..(2 * n) PROVE \E k \in 0..(2 * n) : d = Label(n, k)
  <2>1. CASE d = 0
    BY <2>1, 0 \in 0..(2 * n) DEF Label
  <2>2. CASE d # 0 /\ d % 2 = 1
    <3>1. PICK k \in 1..n : d = 2 * k - 1
      <4>1. (d + 1) \div 2 \in 1..n /\ d = 2 * ((d + 1) \div 2) - 1
        BY <2>2
      <4> QED
        BY <4>1
    <3> QED
      BY <3>1, k \in 0..(2 * n) DEF Label
  <2>3. CASE d # 0 /\ d % 2 # 1
    <3>1. PICK i \in 1..n : d = 2 * i
      <4>1. d \div 2 \in 1..n /\ d = 2 * (d \div 2)
        BY <2>3
      <4> QED
        BY <4>1
    <3>2. PICK k \in 0..(2 * n) : k = 2 * n + 1 - i
      OBVIOUS
    <3>3. k > n /\ k # 0 /\ 2 * n + 1 - k = i
      BY <3>2
    <3> QED
      BY <3>1, <3>3 DEF Label
  <2> QED
    BY <2>1, <2>2, <2>3
<1> QED
  BY <1>1, <1>2, <1>3

\* The entries of the TOC point to the documents.
LEMMA OffsetIs ==
    ASSUME NEW n \in Nat, NEW g, NEW h, NEW s, NEW package, Made(g, h, s, package, n),
           NEW k \in 1..(2 * n)
    PROVE  DocumentAt(g, Label(n, k)) = h[k - 1].size
<1>1. CASE k <= n
  <2>1. PICK d \in Nat : d = 2 * k - 1
    BY 2 * k - 1 \in Nat
  <2>2. Label(n, k) = d /\ d # 0 /\ d % 2 = 1 /\ (d + 1) \div 2 = k
    BY <1>1, <2>1 DEF Label
  <2>3. k \in 1..n
    BY <1>1
  <2>4. DocumentAt(g, d) = g.entries[k].descriptor
    BY <2>2 DEF DocumentAt
  <2> QED
    BY <2>2, <2>3, <2>4 DEF Made
<1>2. CASE k > n
  <2>1. PICK i \in 1..n : i = 2 * n + 1 - k
    BY <1>2, 2 * n + 1 - k \in 1..n
  <2>2. PICK d \in Nat : d = 2 * i
    OBVIOUS
  <2>3. Label(n, k) = d /\ d # 0 /\ d % 2 # 1 /\ (d + 1) \div 2 = i /\ 2 * n - i = k - 1
    BY <1>2, <2>1, <2>2 DEF Label
  <2>4. DocumentAt(g, d) = g.entries[i].payload
    BY <2>3 DEF DocumentAt
  <2>5. g.entries[i].payload = h[2 * n - i].size
    BY DEF Made
  <2> QED
    BY <2>3, <2>4, <2>5
<1> QED
  BY <1>1, <1>2

LEMMA StagesAre ==
    ASSUME NEW package \in Seq(FileLengths),
           NEW n \in Nat, NEW g, NEW h, NEW s, Made(g, h, s, package, n)
    PROVE  /\ s \in Seq(Seq(CellValues)) /\ Len(s) = 2 * n
           /\ \A k \in 0..(2 * n) : /\ h[k] \in Data /\ h[k].size \in Nat
                                    /\ IsFiniteSet(DOMAIN h[k].headers)
                                    /\ Extends(h[k], h[2 * n]) /\ h[k].size <= g.size
           /\ \A k \in 1..(2 * n) : IsStored(h[k - 1], s[k], h[k])
<1>1. s \in Seq(Seq(CellValues)) /\ Len(s) = 2 * n
  BY DocumentsAre DEF Made
<1>2. PICK m \in Nat : m = 2 * n
  OBVIOUS
<1>3. /\ \A k \in 0..m : h[k] \in Data
      /\ \A k \in 1..m : IsStored(h[k - 1], s[k], h[k])
  BY <1>1, <1>2 DEF Made, AreStages
<1>4. \A k \in 0..m : Extends(h[k], h[m])
  BY <1>1, <1>2, StagesExtend DEF Made
<1>5. g.size = h[m].size
  BY <1>2 DEF Made
<1>6. \A k \in 0..m : h[k].size \in Nat /\ IsFiniteSet(DOMAIN h[k].headers)
  BY <1>3, DataIs
<1>7. \A k \in 0..m : h[k].size <= g.size
  BY <1>4, <1>5 DEF Extends
<1> QED
  BY <1>1, <1>2, <1>3, <1>4, <1>6, <1>7

\* What the reader finds at the k-th document written.
IsRead(f, o, bytes) ==
    /\ IsDocument(f, o, f.size) /\ Length(f, o, f.size) = BlocksOf(Len(bytes))
    /\ f.headers[o].doc = Len(bytes)
    /\ Len(Document(f, o, f.size)) = Len(bytes)
    /\ \A i \in 1..Len(bytes) : f.cells[Document(f, o, f.size)[i]] = bytes[i]

\* Every document written is found, whole.
LEMMA DocumentIsRead ==
    ASSUME NEW package \in Seq(FileLengths),
           NEW n \in Nat, NEW g, IsImage(g), NEW h, NEW s, Made(g, h, s, package, n),
           n * EntrySize <= TocBlockSize, NEW k \in 1..(2 * n)
    PROVE  IsRead(g, h[k - 1].size, s[k])
<1>1. PICK m \in Nat : m = 2 * n
  OBVIOUS
<1>2. k - 1 \in 0..m /\ k \in 0..m /\ m \in 0..m
  BY <1>1
<1>3. PICK d \in Data : d = h[k - 1]
  BY <1>1, <1>2, StagesAre
<1>4. PICK e \in Data : e = h[k]
  BY <1>1, <1>2, StagesAre
<1>5. PICK f \in Data : f = h[m]
  BY <1>1, <1>2, StagesAre
<1>6. s \in Seq(Seq(CellValues)) /\ Len(s) = m /\ k \in 1..Len(s)
  BY <1>1, StagesAre
<1>7. PICK bytes \in Seq(CellValues) : bytes = s[k]
  BY <1>6
<1>8. IsStored(d, bytes, e) /\ Extends(e, f)
  BY <1>1, <1>2, <1>3, <1>4, <1>5, <1>7, StagesAre
<1>9. PICK b \in Nat : b = BlocksOf(Len(bytes)) /\ b > 0
  BY BlocksOfIs, RoundTripAssumption
<1>10. PICK o \in Nat : o = d.size
  BY <1>3, DataIs
<1>11. PICK hop, at : Placed(f, o, hop, at, b, bytes)
  BY <1>8, <1>9, <1>10, StoredIsPlaced, RoundTripAssumption
<1>12. g.headers = f.headers /\ g.cells = f.cells /\ g.size = f.size
  BY <1>1, <1>5 DEF Made
<1>13. Placed(g, o, hop, at, b, bytes)
  BY <1>11, <1>12 DEF Placed, Walks
<1>14. \A a \in DOMAIN g.headers : g.headers[a].body + g.headers[a].cur <= g.size
  BY <1>12, DataIs
<1>15. b \in 1..g.size
  <2>1. PICK y \in Nat, z \in Nat : y = e.size /\ z = g.size
    BY <1>4, DataIs DEF IsImage
  <2>2. o + b <= y
    BY <1>8, <1>9, <1>10, <2>1, StageGrows, RoundTripAssumption
  <2>3. y <= z
    BY <1>1, <1>2, <1>4, <2>1, StagesAre
  <2> QED
    BY <1>9, <2>1, <2>2, <2>3
<1>16. IsRead(g, o, bytes)
  BY <1>9, <1>13, <1>14, <1>15, PlacedIsDocument DEF IsRead
<1> QED
  BY <1>3, <1>7, <1>10, <1>16

\* The TOC is one block: it is a document when the entries fit it.
LEMMA TocIs ==
    ASSUME NEW n \in Nat, NEW g, IsImage(g), NEW h, NEW s, NEW package, Made(g, h, s, package, n)
    PROVE  /\ Length(g, TocOffset, g.size) = 1 /\ g.headers[TocOffset].doc = n * EntrySize
           /\ IsDocument(g, TocOffset, g.size) <=> n * EntrySize <= TocBlockSize
<1>1. /\ TocOffset \in DOMAIN g.headers
      /\ g.headers[TocOffset] = [doc |-> n * EntrySize, cur |-> TocBlockSize, next |-> End,
                                 body |-> TocOffset + HeaderSize]
      /\ TocOffset + HeaderSize + TocBlockSize <= g.size
  BY DEF Made
<1>2. /\ g.headers[TocOffset].next = End /\ g.headers[TocOffset].doc = n * EntrySize
      /\ g.headers[TocOffset].cur = TocBlockSize
      /\ g.headers[TocOffset].body + g.headers[TocOffset].cur <= g.size
  BY <1>1
<1> QED
  BY <1>1, <1>2, OneBlockDocument

\* What the documents declare, and their blocks, by the order of writing.
LEMMA NeedsAre ==
    ASSUME NEW package \in Seq(FileLengths),
           NEW n \in Nat, NEW g, IsImage(g), NEW h, NEW s, Made(g, h, s, package, n),
           n * EntrySize <= TocBlockSize
    PROVE  /\ Declared(g)[Label(n, 0)] = n * EntrySize /\ Blocks(g, g.size)[Label(n, 0)] = 1
           /\ \A k \in 1..(2 * n) :
                /\ Declared(g)[Label(n, k)] = Len(s[k])
                /\ Blocks(g, g.size)[Label(n, k)] = BlocksOf(Len(s[k]))
<1>1. g.count = n
  BY DEF Made
<1>2. \A d \in 0..(2 * n) : /\ Declared(g)[d] = g.headers[DocumentAt(g, d)].doc
                            /\ Blocks(g, g.size)[d] = Length(g, DocumentAt(g, d), g.size)
  BY <1>1 DEF Declared, Blocks
<1>3. Label(n, 0) = 0 /\ 0 \in 0..(2 * n) /\ DocumentAt(g, 0) = TocOffset
  BY DEF Label, DocumentAt
<1>4. Declared(g)[Label(n, 0)] = n * EntrySize /\ Blocks(g, g.size)[Label(n, 0)] = 1
  BY <1>2, <1>3, TocIs
<1>5. ASSUME NEW k \in 1..(2 * n)
      PROVE  /\ Declared(g)[Label(n, k)] = Len(s[k])
             /\ Blocks(g, g.size)[Label(n, k)] = BlocksOf(Len(s[k]))
  <2>1. Label(n, k) \in 0..(2 * n)
    BY k \in 0..(2 * n), LabelsAre
  <2>2. DocumentAt(g, Label(n, k)) = h[k - 1].size
    BY ONLY n \in Nat, k \in 1..(2 * n), Made(g, h, s, package, n), OffsetIs
  <2>3. IsRead(g, h[k - 1].size, s[k])
    BY DocumentIsRead
  <2> QED
    BY <1>2, <2>1, <2>2, <2>3 DEF IsRead
<1> QED
  BY <1>4, <1>5

\* The documents fit the file together, and so do their blocks; the blocks are
\* as many as there are headers.
LEMMA NeedsAreMet ==
    ASSUME NEW package \in Seq(FileLengths),
           NEW n \in Nat, NEW g, IsImage(g), NEW h, NEW s, Made(g, h, s, package, n),
           n * EntrySize <= TocBlockSize
    PROVE  /\ SumFunction(Declared(g)) <= g.size
           /\ SumFunction(Blocks(g, g.size)) <= g.size
           /\ SumFunction(Blocks(g, g.size)) <= Cardinality(DOMAIN g.headers)
           /\ SumFunction(Blocks(g, g.size)) \in Nat
<1>1. PICK m \in Nat : m = 2 * n
  OBVIOUS
<1>2. PICK x : x = [k \in 0..m |-> Label(n, k)]
  OBVIOUS
<1>3. /\ \A k \in 0..m : x[k] \in 0..m
      /\ \A k \in 0..m : \A j \in 0..m : x[k] = x[j] => k = j
      /\ \A d \in 0..m : \E k \in 0..m : d = x[k]
  <2>1. /\ \A k \in 0..m : Label(n, k) \in 0..m
        /\ \A k \in 0..m : \A j \in 0..m : Label(n, k) = Label(n, j) => k = j
        /\ \A d \in 0..m : \E k \in 0..m : d = Label(n, k)
    BY <1>1, LabelsAre
  <2>2. \A k \in 0..m : x[k] = Label(n, k)
    BY <1>2
  <2>3. ASSUME NEW k \in 0..m PROVE x[k] \in 0..m
    <3>1. x[k] = Label(n, k)
      BY <2>2
    <3>2. Label(n, k) \in 0..m
      BY <2>1
    <3> QED
      BY <3>1, <3>2
  <2>4. ASSUME NEW k \in 0..m, NEW j \in 0..m, x[k] = x[j] PROVE k = j
    BY ONLY <2>1, <2>2, <2>4, k \in 0..m, j \in 0..m
  <2>5. ASSUME NEW d \in 0..m PROVE \E k \in 0..m : d = x[k]
    <3>1. PICK k \in 0..m : d = Label(n, k)
      BY <2>1
    <3>2. x[k] = Label(n, k)
      BY <2>2
    <3> QED
      BY <3>1, <3>2
  <2> QED
    BY <2>3, <2>4, <2>5
<1>4. PICK D : D = 0..m
  OBVIOUS
<1>5. D = {x[k] : k \in 0..m} /\ IsFiniteSet(D)
  <2>1. D = {x[k] : k \in 0..m}
    <3>1. \A k \in 0..m : x[k] \in D
      BY <1>3, <1>4
    <3>2. \A d \in D : \E k \in 0..m : d = x[k]
      BY <1>3, <1>4
    <3> QED
      BY ONLY <3>1, <3>2
  <2>2. IsFiniteSet(0..m)
    BY FS_Interval
  <2> QED
    BY <1>4, <2>1, <2>2
<1>6. PICK size : size = [k \in 0..m |-> h[k].size]
  OBVIOUS
<1>7. PICK card : card = [k \in 0..m |-> Cardinality(DOMAIN h[k].headers)]
  OBVIOUS
<1>8. \A k \in 0..m : size[k] \in Nat /\ card[k] \in Nat
  BY <1>1, <1>6, <1>7, StagesAre, FS_CardinalityType
<1>9. PICK long : long = [k \in 0..m |-> IF k = 0 THEN n * EntrySize ELSE Len(s[k])]
  OBVIOUS
<1>10. PICK parts : parts = [k \in 0..m |-> IF k = 0 THEN 1 ELSE BlocksOf(Len(s[k]))]
  OBVIOUS
<1>11. \A k \in 0..m : long[k] \in Nat /\ parts[k] \in Nat
  <2> SUFFICES ASSUME NEW k \in 0..m PROVE long[k] \in Nat /\ parts[k] \in Nat
    OBVIOUS
  <2>1. CASE k = 0
    <3>1. n * EntrySize \in Nat
      BY ContainerAssumption
    <3> QED
      BY <1>9, <1>10, <2>1, <3>1
  <2>2. CASE k # 0
    <3>1. k \in 1..Len(s) /\ s \in Seq(Seq(CellValues))
      BY <1>1, <2>2, StagesAre
    <3>2. PICK l \in Nat : l = Len(s[k])
      BY <3>1
    <3>3. BlocksOf(l) \in Nat
      BY BlocksOfIs, RoundTripAssumption
    <3> QED
      BY <1>9, <1>10, <2>2, <3>2, <3>3
  <2> QED
    BY <2>1, <2>2
<1>12. \A k \in 0..m : Declared(g)[x[k]] = long[k] /\ Blocks(g, g.size)[x[k]] = parts[k]
  <2>1. \A k \in 0..m : k = 0 \/ k \in 1..m
    OBVIOUS
  <2> QED
    BY <1>1, <1>2, <1>9, <1>10, <2>1, NeedsAre
<1>13. long[0] <= size[0] /\ parts[0] <= size[0] /\ parts[0] <= card[0]
  <2>1. PICK e : e = h[0] /\ e = Writer!EmptyContainer(TocOffset, n * EntrySize)
    BY DEF Made
  <2>2. n * EntrySize \in Nat
    BY ContainerAssumption
  <2>3. e.size = TocOffset + HeaderSize + TocBlockSize /\ DOMAIN e.headers = {TocOffset}
    BY <2>1, <2>2, EmptyIs
  <2>4. Cardinality({TocOffset}) = 1
    BY FS_Singleton
  <2>5. long[0] = n * EntrySize /\ parts[0] = 1 /\ size[0] = e.size /\ card[0] = 1
    BY <1>6, <1>7, <1>9, <1>10, <2>1, <2>3, <2>4, 0 \in 0..m
  <2>6. PICK o \in Nat, c \in Nat, t \in Nat :
          o = TocOffset /\ c = HeaderSize /\ c > 0 /\ t = TocBlockSize
    BY ContainerAssumption, RoundTripAssumption
  <2>7. PICK b \in Nat : b = n * EntrySize /\ b <= t
    BY <2>2, <2>6
  <2>8. b <= o + c + t /\ 1 <= o + c + t
    BY <2>6, <2>7
  <2> QED
    BY <2>3, <2>5, <2>6, <2>7, <2>8
<1>14. \A k \in 1..m : /\ size[k - 1] + long[k] <= size[k]
                       /\ size[k - 1] + parts[k] <= size[k]
                       /\ card[k - 1] + parts[k] <= card[k]
  <2> SUFFICES ASSUME NEW k \in 1..m
               PROVE  /\ size[k - 1] + long[k] <= size[k]
                      /\ size[k - 1] + parts[k] <= size[k]
                      /\ card[k - 1] + parts[k] <= card[k]
    OBVIOUS
  <2>1. k - 1 \in 0..m /\ k \in 0..m /\ k # 0
    OBVIOUS
  <2>2. PICK d \in Data : d = h[k - 1]
    BY <1>1, <2>1, StagesAre
  <2>3. PICK bytes \in Seq(CellValues) : bytes = s[k]
    <3>1. s \in Seq(Seq(CellValues)) /\ k \in 1..Len(s)
      BY <1>1, StagesAre
    <3> QED
      BY <3>1
  <2>4. IsStored(d, bytes, h[k])
    BY <1>1, <2>2, <2>3, StagesAre
  <2>5. /\ d.size + Len(bytes) <= h[k].size
        /\ d.size + BlocksOf(Len(bytes)) <= h[k].size
        /\ Cardinality(DOMAIN h[k].headers)
             = Cardinality(DOMAIN d.headers) + BlocksOf(Len(bytes))
    BY <2>4, StageGrows, RoundTripAssumption
  <2>6. /\ size[k - 1] = d.size /\ size[k] = h[k].size
        /\ card[k - 1] = Cardinality(DOMAIN d.headers)
        /\ card[k] = Cardinality(DOMAIN h[k].headers)
        /\ long[k] = Len(bytes) /\ parts[k] = BlocksOf(Len(bytes))
    BY <1>6, <1>7, <1>9, <1>10, <2>1, <2>2, <2>3
  <2>7. card[k - 1] \in Nat /\ card[k] \in Nat /\ parts[k] \in Nat
    BY <1>8, <1>11, <2>1
  <2> QED
    BY <2>5, <2>6, <2>7
<1> DEFINE Bounded(f, t) ==
             /\ SumFunctionOnSet(f, D) \in Nat /\ SumFunctionOnSet(f, D) <= t[m]
           Counts(f, t) ==
             /\ \A k \in 0..m : f[x[k]] \in Nat /\ t[k] \in Nat
             /\ f[x[0]] <= t[0] /\ \A k \in 1..m : t[k - 1] + f[x[k]] <= t[k]
<1>15. \A f : \A t : Counts(f, t) => Bounded(f, t)
  <2> SUFFICES ASSUME NEW f, NEW t, Counts(f, t) PROVE Bounded(f, t)
    OBVIOUS
  <2>1. /\ \A k \in 0..m : f[x[k]] \in Nat /\ t[k] \in Nat
        /\ \A k \in 0..m : \A j \in 0..m : x[k] = x[j] => k = j
        /\ f[x[0]] <= t[0] /\ \A k \in 1..m : t[k - 1] + f[x[k]] <= t[k]
    BY <1>3
  <2>2. SumFunctionOnSet(f, D) \in Nat /\ SumFunctionOnSet(f, D) <= t[m]
    BY ONLY <1>5, <2>1, m \in Nat, SumAlong
  <2> QED
    BY <2>2
<1>16. \A k \in 1..m : k \in 0..m
  OBVIOUS
<1>17. Counts(Declared(g), size) /\ Counts(Blocks(g, g.size), size) /\ Counts(Blocks(g, g.size), card)
  BY <1>8, <1>11, <1>12, <1>13, <1>14, <1>16, 0 \in 0..m
<1> HIDE DEF Counts
<1>18. Bounded(Declared(g), size) /\ Bounded(Blocks(g, g.size), size) /\ Bounded(Blocks(g, g.size), card)
  BY <1>15, <1>17
<1>19. DOMAIN Declared(g) = D /\ DOMAIN Blocks(g, g.size) = D
  BY <1>1, <1>4 DEF Declared, Blocks, Made
<1>20. SumFunction(Declared(g)) = SumFunctionOnSet(Declared(g), D)
       /\ SumFunction(Blocks(g, g.size)) = SumFunctionOnSet(Blocks(g, g.size), D)
  BY <1>19 DEF SumFunction
<1>21. size[m] = g.size /\ card[m] = Cardinality(DOMAIN g.headers)
  BY <1>1, <1>6, <1>7, m \in 0..m DEF Made
<1> QED
  BY <1>18, <1>20, <1>21

\* The entries of the i-th file point to its descriptor and its bytes.
LEMMA MadeIsReadBack ==
    ASSUME NEW package \in Seq(FileLengths),
           NEW n \in Nat, NEW g, IsImage(g), NEW h, NEW s, Made(g, h, s, package, n),
           n * EntrySize <= TocBlockSize, NEW i \in 1..n
    PROVE  /\ package[i].descriptor \in Nat /\ package[i].payload \in Nat
           /\ g.headers[g.entries[i].descriptor].doc = package[i].descriptor
           /\ IsRead(g, g.entries[i].payload, Writer!PayloadBytes(i, package[i].payload))
<1>1. n = Len(package) /\ s = Writer!Documents(package)
  BY DEF Made
<1>2. package[i].descriptor \in Nat /\ package[i].payload \in Nat
  <2>1. package[i] \in FileLengths
    BY <1>1
  <2> QED
    BY <2>1 DEF FileLengths
<1>3. g.headers[g.entries[i].descriptor].doc = package[i].descriptor
  <2>1. i \in 1..(2 * n)
    OBVIOUS
  <2>2. IsRead(g, h[i - 1].size, s[i])
    BY <2>1, DocumentIsRead
  <2>3. g.entries[i].descriptor = h[i - 1].size
    BY DEF Made
  <2>4. s[i] = Writer!DescriptorBytes(i, package[i].descriptor)
    BY <1>1, DocumentsAre
  <2>5. Len(s[i]) = package[i].descriptor
    BY <1>2, <2>4, DescriptorBytesAre, i \in Nat
  <2> QED
    BY <2>2, <2>3, <2>5 DEF IsRead
<1>4. IsRead(g, g.entries[i].payload, Writer!PayloadBytes(i, package[i].payload))
  <2>1. PICK k \in (n + 1)..(2 * n) : k = 2 * n + 1 - i
    OBVIOUS
  <2>2. k \in 1..(2 * n) /\ k - 1 = 2 * n - i /\ 2 * n + 1 - k = i
    BY <2>1
  <2>3. IsRead(g, h[k - 1].size, s[k])
    BY <2>2, DocumentIsRead
  <2>4. g.entries[i].payload = h[2 * n - i].size
    BY DEF Made
  <2>5. s[k] = Writer!PayloadBytes(i, package[i].payload)
    BY <1>1, <2>2, DocumentsAre
  <2> QED
    BY <2>2, <2>3, <2>4, <2>5
<1> QED
  BY <1>2, <1>3, <1>4

\* What was written is a container, as far as TOC block and budget reach.
LEMMA MadeIsWellFormed ==
    ASSUME NEW package \in Packages,
           NEW n \in Nat, NEW g, IsImage(g), NEW h, NEW s, Made(g, h, s, package, n),
           n * EntrySize <= TocBlockSize, Cardinality(DOMAIN g.headers) <= MaxVisits
    PROVE  WellFormed(g, g.size)
<1>1. package \in Seq(FileLengths) /\ n = Len(package) /\ g.count = n /\ g.magic
  BY RoundTripAssumption DEF Made, FileLengths
<1>2. \A d \in 0..(2 * n) : IsDocument(g, DocumentAt(g, d), g.size)
  <2> SUFFICES ASSUME NEW d \in 0..(2 * n) PROVE IsDocument(g, DocumentAt(g, d), g.size)
    OBVIOUS
  <2>1. PICK k \in 0..(2 * n) : d = Label(n, k)
    BY LabelsAre
  <2>2. CASE k = 0
    <3>1. d = 0
      BY <2>1, <2>2 DEF Label
    <3> QED
      BY <3>1, TocIs DEF DocumentAt
  <2>3. CASE k # 0
    <3>1. k \in 1..(2 * n)
      BY <2>3
    <3>2. DocumentAt(g, d) = h[k - 1].size
      BY ONLY <2>1, <3>1, n \in Nat, Made(g, h, s, package, n), OffsetIs
    <3>3. IsRead(g, h[k - 1].size, s[k])
      BY <1>1, <3>1, DocumentIsRead
    <3> QED
      BY <3>2, <3>3 DEF IsRead
  <2> QED
    BY <2>2, <2>3
<1>3. g.headers[TocOffset].doc = g.count * EntrySize
  BY <1>1, TocIs
<1>4. ASSUME NEW i \in 1..g.count
      PROVE  /\ g.entries[i].marker /\ g.entries[i].clean
             /\ g.headers[g.entries[i].descriptor].doc >= MinDescriptor
  <2>1. i \in 1..n /\ i \in DOMAIN package
    BY <1>1
  <2>2. g.headers[g.entries[i].descriptor].doc = package[i].descriptor
    <3>1. /\ package \in Seq(FileLengths) /\ n \in Nat /\ IsImage(g) /\ i \in 1..n
          /\ Made(g, h, s, package, n) /\ n * EntrySize <= TocBlockSize
      BY <1>1, <2>1
    <3> QED
      BY ONLY <3>1, MadeIsReadBack
  <2>3. package[i].descriptor >= MinDescriptor
    BY <2>1, RoundTripAssumption
  <2>4. g.entries[i].marker /\ g.entries[i].clean
    BY <2>1 DEF Made
  <2> QED
    BY <2>2, <2>3, <2>4
<1>5. SumFunction(Declared(g)) <= g.size
  BY <1>1, NeedsAreMet
<1>6. SumFunction(Blocks(g, g.size)) <= SmallerOf(g.size, MaxVisits)
  <2>1. PICK b \in Nat : /\ b = SumFunction(Blocks(g, g.size)) /\ b <= g.size
                         /\ b <= Cardinality(DOMAIN g.headers)
    BY <1>1, NeedsAreMet
  <2>2. MaxVisits \in Nat /\ g.size \in Nat
    BY ContainerAssumption DEF IsImage
  <2>3. Cardinality(DOMAIN g.headers) \in Nat
    <3>1. DOMAIN g.headers \subseteq 0..(g.size - 1)
      BY <2>2 DEF IsImage
    <3>2. IsFiniteSet(0..(g.size - 1))
      BY FS_Interval, <2>2, 0 \in Int, g.size - 1 \in Int
    <3> QED
      BY <3>1, <3>2, FS_Subset, FS_CardinalityType
  <2>4. b <= MaxVisits
    BY <2>1, <2>2, <2>3
  <2>5. SmallerOf(g.size, MaxVisits) \in {g.size, MaxVisits}
    BY <2>2, SmallerIs
  <2> QED
    BY <2>1, <2>4, <2>5
<1> QED
  BY <1>1, <1>2, <1>3, <1>4, <1>5, <1>6 DEF WellFormed

\* The reader accepts containers only, and all of them: with what was written
\* being one, it is read back.
LEMMA InvReadsWhatWasWritten == RInv => ReadsWhatWasWritten
<1> SUFFICES ASSUME RInv, pc \in {"done", "failed"}, NEW package \in Packages,
                    image = Writer!Serialize(package, TocOffset, EntrySize)
             PROVE  /\ Readable => pc = "done"
                    /\ pc = "done" =>
                         [i \in 1..image.count |-> BytesAt(files[i])]
                           = [i \in DOMAIN package |->
                                Writer!PayloadBytes(i, package[i].payload)]
  BY DEF ReadsWhatWasWritten
<1>1. IsImage(image)
  BY ImageIs DEF RInv
<1>2. package \in Seq(FileLengths)
  BY RoundTripAssumption DEF FileLengths
<1>3. PICK n \in Nat : n = Len(package)
  BY <1>2
<1>4. PICK h, s : Made(image, h, s, package, n)
  BY <1>2, <1>3, SerializedIs
<1>5. image.count = n
  BY <1>4 DEF Made
<1>6. ASSUME Readable PROVE pc = "done"
  <2>1. n * EntrySize <= TocBlockSize /\ Cardinality(DOMAIN image.headers) <= MaxVisits
    BY <1>5, <1>6 DEF Readable, TocFits
  <2>2. WellFormed(image, image.size)
    BY <1>1, <1>4, <2>1, MadeIsWellFormed
  <2> QED
    BY <2>2 DEF RInv, RFailed
<1>7. ASSUME pc = "done"
      PROVE  [i \in 1..image.count |-> BytesAt(files[i])]
               = [i \in DOMAIN package |-> Writer!PayloadBytes(i, package[i].payload)]
  <2>1. /\ WellFormed(image, image.size)
        /\ files = [i \in 1..image.count |->
                      Document(image, image.entries[i].payload, image.size)]
    BY <1>7, DoneIsWellFormed
  <2>2. n * EntrySize <= TocBlockSize
    <3>1. IsDocument(image, DocumentAt(image, 0), image.size)
      BY <1>5, <2>1, 0 \in 0..(2 * n) DEF WellFormed
    <3>2. DocumentAt(image, 0) = TocOffset
      BY DEF DocumentAt
    <3> QED
      BY <1>1, <1>4, <3>1, <3>2, TocIs
  <2>3. files \in Seq(Seq(Nat))
    BY DEF RInv, RTypes
  <2>4. ASSUME NEW i \in 1..n
        PROVE  BytesAt(files[i]) = Writer!PayloadBytes(i, package[i].payload)
    <3>1. PICK l \in Nat : l = package[i].payload
      BY <1>1, <1>2, <1>4, <2>2, MadeIsReadBack
    <3>2. PICK bytes \in Seq(CellValues) :
            /\ bytes = Writer!PayloadBytes(i, l) /\ Len(bytes) = l
            /\ bytes = [k \in 1..l |-> <<"payload", i, k>>]
      BY PayloadBytesAre, i \in Nat
    <3>3. IsRead(image, image.entries[i].payload, bytes)
      <4>1. IsRead(image, image.entries[i].payload, Writer!PayloadBytes(i, package[i].payload))
        BY <1>1, <1>2, <1>4, <2>2, MadeIsReadBack
      <4> QED
        BY <3>1, <3>2, <4>1
    <3>4. PICK all : all = files[i] /\ all = Document(image, image.entries[i].payload, image.size)
      BY <1>5, <2>1
    <3>5. all \in Seq(Nat)
      <4>1. PICK V : V = Seq(Nat)
        OBVIOUS
      <4>2. PICK q \in Seq(V) : q = files
        BY <2>3, <4>1
      <4>3. DOMAIN q = 1..n
        BY <1>5, <2>1, <4>2
      <4>4. q[i] \in V
        BY <4>3
      <4> QED
        BY <3>4, <4>1, <4>2, <4>4
    <3>6. Len(all) = l /\ \A k \in 1..l : image.cells[all[k]] = bytes[k]
      BY <3>2, <3>3, <3>4 DEF IsRead
    <3>7. DOMAIN all = 1..l
      BY <3>5, <3>6
    <3>8. BytesAt(all) = [k \in 1..l |-> bytes[k]]
      BY <3>6, <3>7 DEF BytesAt
    <3> QED
      BY <3>1, <3>2, <3>4, <3>8
  <2>5. DOMAIN package = 1..n
    BY <1>2, <1>3
  <2> QED
    BY <1>5, <2>4, <2>5
<1> QED
  BY <1>6, <1>7

\* serialize_container and parse_container: whatever is written, with any
\* number of files of any lengths and for any sizes of blocks, is read back byte
\* by byte or refused, and refused only if the TOC block or the budget of block
\* visits is too small for it.
THEOREM WrittenIsRead == Spec => []ReadsWhatWasWritten
BY ReaderInvariant, InvReadsWhatWasWritten, PTL

=============================================================================
