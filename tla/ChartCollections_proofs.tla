------------------------ MODULE ChartCollections_proofs ------------------------
(***************************************************************************)
(* Whatever the charts, the budget and the limits are: charts stay valid   *)
(* and within the budget, ids and trend lines that are gone are not given  *)
(* again, and cells, data mode and selection stay with their elements.     *)
(*                                                                         *)
(* Every operation replaces one chart c by some d.  Keeps, KeepsTrends and *)
(* KeepsSelection say what c and d have in common; each operation is shown *)
(* to keep that, and the theorems follow from it.                          *)
(***************************************************************************)
EXTENDS ChartCollections, DataInduction

Good(c) == IsChart(c) /\ Valid(c)

Fields(c) ==
    c = [series |-> c.series, points |-> c.points, mode |-> c.mode,
         lastSeries |-> c.lastSeries, lastPoint |-> c.lastPoint,
         activeSeries |-> c.activeSeries, activePoint |-> c.activePoint,
         cells |-> c.cells, trends |-> c.trends, nextTrend |-> c.nextTrend]

Keeps(c, d) ==
    /\ LastSeries(c) <= LastSeries(d) /\ LastPoint(c) <= LastPoint(d)
    /\ \A i \in Live(d.series) : i \in Live(c.series) \/ i > LastSeries(c)
    /\ \A i \in Live(d.points) : i \in Live(c.points) \/ i > LastPoint(c)
    /\ Mode(d) = Mode(c)
    /\ \A p \in DOMAIN d.cells :
         d.cells[p] = IF p \in DOMAIN c.cells THEN c.cells[p]
                      ELSE IF Mode(c) = "explicit" THEN Undefined
                      ELSE "sample"

KeepsTrends(c, d) ==
    \A o \in Owners(d) : o \in Owners(c) =>
        /\ c.nextTrend[o] <= d.nextTrend[o]
        /\ \A t \in Live(d.trends[o]) : t \in Live(c.trends[o]) \/ c.nextTrend[o] <= t

KeepsSelection(c, d) ==
    ActiveSeries(d) =
       IF d.series = <<>> THEN Undefined
       ELSE IF c.series = <<>> THEN Head(d.series)
       ELSE IF ActiveSeries(c) \in Live(d.series) THEN ActiveSeries(c)
       ELSE Last(d.series)

-----------------------------------------------------------------------------
(* Sequences and what is largest in them.                                  *)

LEMMA LiveIs ==
    ASSUME NEW S, NEW s \in Seq(S)
    PROVE  /\ Live(s) \subseteq S
           /\ \A i \in 1..Len(s) : s[i] \in Live(s)
           /\ \A x \in Live(s) : \E i \in 1..Len(s) : x = s[i]
           /\ s = <<>> <=> Live(s) = {}
<1>1. Len(s) \in Nat /\ DOMAIN s = 1..Len(s) /\ \A i \in 1..Len(s) : s[i] \in S
  OBVIOUS
<1>2. s = <<>> <=> Len(s) = 0
  OBVIOUS
<1>3. Live(s) = {s[i] : i \in 1..Len(s)}
  BY <1>1 DEF Live, ToSet
<1>4. Live(s) = {} <=> 1..Len(s) = {}
  BY <1>3
<1>5. 1..Len(s) = {} <=> Len(s) = 0
  BY <1>1
<1> QED
  BY <1>1, <1>2, <1>3, <1>4, <1>5

LEMMA MaxIs ==
    ASSUME NEW n \in Nat, NEW S, S \subseteq 0..n, S # {}
    PROVE  Max(S) \in S /\ \A x \in S : x <= Max(S)
<1> DEFINE T == {n - x : x \in S}
<1>1. T \subseteq Nat /\ T # {}
  <2>1. ASSUME NEW x \in S PROVE n - x \in Nat
    <3>1. x \in Nat /\ x <= n
      OBVIOUS
    <3> QED
      BY <3>1
  <2> QED
    BY <2>1
<1> HIDE DEF T
<1>2. PICK t \in T : \A u \in T : t <= u
  BY <1>1, Least
<1>3. PICK m \in S : t = n - m
  BY <1>2 DEF T
<1>4. ASSUME NEW x \in S PROVE x <= m
  <2>1. t <= n - x
    BY <1>2 DEF T
  <2> QED
    BY <2>1, <1>3
<1> QED
  BY <1>4 DEF Max

LEMMA ChartIs ==
    ASSUME NEW c, IsChart(c)
    PROVE  /\ Fields(c)
           /\ c.series \in Seq(Ids) /\ c.points \in Seq(Ids) /\ c.mode \in Modes \cup {"none"}
           /\ c.lastSeries \in 0..IdLimit /\ c.lastPoint \in 0..IdLimit
           /\ c.activeSeries \in 0..IdLimit /\ c.activePoint \in (0..IdLimit) \cup {Undefined}
           /\ c.cells \in [DOMAIN c.cells -> {"user", "sample", Undefined}]
           /\ c.trends \in [Owners(c) -> Seq(Nat \ {0})]
           /\ c.nextTrend \in [Owners(c) -> Nat \ {0}]
           /\ Live(c.series) \subseteq Ids /\ Live(c.points) \subseteq Ids
           /\ Owners(c) \subseteq Ids
<1>1. c.series \in Seq(Ids) /\ c.points \in Seq(Ids)
  BY DEF IsChart
<1>2. Live(c.series) \subseteq Ids /\ Live(c.points) \subseteq Ids
  BY <1>1, LiveIs
<1>3. Summary \in Ids
  BY ChartAssumption DEF Ids, Summary
<1>4. Fields(c)
  BY DEF IsChart, Fields
<1> QED
  BY <1>1, <1>2, <1>3, <1>4 DEF IsChart, Owners

LEMMA LastIs ==
    ASSUME NEW c, IsChart(c)
    PROVE  /\ LastSeries(c) \in Ids /\ LastPoint(c) \in 0..IdLimit
           /\ c.lastSeries <= LastSeries(c) /\ c.lastPoint <= LastPoint(c)
           /\ \A o \in Owners(c) : o <= LastSeries(c)
           /\ \A i \in Live(c.series) : i <= LastSeries(c)
           /\ \A i \in Live(c.points) : i <= LastPoint(c)
<1> DEFINE stored == IF c.lastSeries = Absent THEN Summary ELSE c.lastSeries
           S == Live(c.series) \cup {stored}
           P == Live(c.points) \cup {c.lastPoint}
<1>1. IdLimit \in Nat /\ IdLimit >= 1 /\ Summary = 1 /\ Absent = 0
  BY ChartAssumption DEF Summary, Absent
<1>2. stored \in Ids /\ c.lastSeries <= stored /\ Summary <= stored
  BY <1>1, ChartIs DEF Ids
<1>3. S \subseteq 0..IdLimit /\ P \subseteq 0..IdLimit /\ S \subseteq Ids
  <2>1. Ids \subseteq 0..IdLimit
    BY <1>1 DEF Ids
  <2> HIDE DEF stored
  <2> QED
    BY <1>2, <2>1, ChartIs
<1>4. Max(S) \in S /\ \A x \in S : x <= Max(S)
  BY <1>1, <1>3, MaxIs
<1>5. Max(P) \in P /\ \A x \in P : x <= Max(P)
  BY <1>1, <1>3, MaxIs
<1>6. LastSeries(c) = Max(S) /\ LastPoint(c) = Max(P)
  BY DEF LastSeries, LastPoint
<1>7. c.lastSeries <= Max(S) /\ Summary <= Max(S)
  <2>1. stored <= Max(S)
    BY <1>4
  <2>2. Max(S) \in Int /\ stored \in Int /\ c.lastSeries \in Int
    BY <1>2, <1>3, <1>4, ChartIs DEF Ids
  <2> HIDE DEF stored, S
  <2> QED
    BY <1>1, <1>2, <2>1, <2>2
<1> HIDE DEF stored
<1> QED
  BY <1>3, <1>4, <1>5, <1>6, <1>7 DEF Owners

\* The history of a valid chart covers its elements.
LEMMA LastIsStored ==
    ASSUME NEW c, Good(c)
    PROVE  /\ c.lastSeries # Absent => LastSeries(c) = c.lastSeries
           /\ c.lastPoint # Absent => LastPoint(c) = c.lastPoint
           /\ c.lastSeries = Absent => LastSeries(c) = LargestOf(c.series, Summary)
           /\ c.lastPoint = Absent => LastPoint(c) = LargestOf(c.points, 0)
           /\ \A i \in Live(c.series) \cup {Summary} : i <= LargestOf(c.series, Summary)
           /\ \A i \in Live(c.points) \cup {0} : i <= LargestOf(c.points, 0)
           /\ LargestOf(c.series, Summary) \in Ids /\ LargestOf(c.points, 0) \in 0..IdLimit
<1> DEFINE S == Live(c.series) \cup {Summary}
           P == Live(c.points) \cup {0}
<1>1. IdLimit \in Nat /\ IdLimit >= 1 /\ Summary = 1 /\ Absent = 0 /\ Ids = 1..IdLimit
  BY ChartAssumption DEF Summary, Absent, Ids
<1>2. IsChart(c) /\ Live(c.series) \subseteq Ids /\ Live(c.points) \subseteq Ids
  BY ChartIs DEF Good
<1>3. S \subseteq Ids /\ S \subseteq 0..IdLimit /\ P \subseteq 0..IdLimit
  BY <1>1, <1>2
<1>4. Max(S) \in S /\ \A x \in S : x <= Max(S)
  BY <1>1, <1>3, MaxIs
<1>5. Max(P) \in P /\ \A x \in P : x <= Max(P)
  BY <1>1, <1>3, MaxIs
<1>6. LargestOf(c.series, Summary) = Max(S) /\ LargestOf(c.points, 0) = Max(P)
  BY DEF LargestOf
<1>7. /\ LastSeries(c) \in Ids /\ LastPoint(c) \in 0..IdLimit
      /\ c.lastSeries <= LastSeries(c) /\ c.lastPoint <= LastPoint(c)
      /\ c.lastSeries \in 0..IdLimit /\ c.lastPoint \in 0..IdLimit
  BY <1>2, LastIs, ChartIs
<1>8. ASSUME c.lastSeries # Absent PROVE LastSeries(c) = c.lastSeries
  <2>1. Max(S) <= c.lastSeries
    BY <1>6, <1>8 DEF Good, Valid
  <2>2. LastSeries(c) = Max(Live(c.series) \cup {c.lastSeries})
    BY <1>8 DEF LastSeries
  <2>3. Live(c.series) \cup {c.lastSeries} \subseteq 0..IdLimit
    BY <1>3, <1>7
  <2>4. LastSeries(c) \in Live(c.series) \cup {c.lastSeries}
    BY <1>1, <2>2, <2>3, MaxIs
  <2>5. LastSeries(c) \in Live(c.series) => LastSeries(c) <= c.lastSeries
    <3>1. LastSeries(c) \in Live(c.series) => LastSeries(c) <= Max(S)
      BY <1>4
    <3>2. Max(S) \in Int /\ c.lastSeries \in Int /\ LastSeries(c) \in Int
      BY <1>3, <1>4, <1>7 DEF Ids
    <3> HIDE DEF S
    <3> QED
      BY <2>1, <3>1, <3>2
  <2> QED
    BY <1>7, <2>4, <2>5 DEF Ids
<1>9. ASSUME c.lastPoint # Absent PROVE LastPoint(c) = c.lastPoint
  <2>1. Max(P) <= c.lastPoint
    BY <1>6, <1>9 DEF Good, Valid
  <2>2. LastPoint(c) = Max(Live(c.points) \cup {c.lastPoint})
    BY DEF LastPoint
  <2>3. Live(c.points) \cup {c.lastPoint} \subseteq 0..IdLimit
    BY <1>3, <1>7
  <2>4. LastPoint(c) \in Live(c.points) \cup {c.lastPoint}
    BY <1>1, <2>2, <2>3, MaxIs
  <2>5. LastPoint(c) \in Live(c.points) => LastPoint(c) <= c.lastPoint
    <3>1. LastPoint(c) \in Live(c.points) => LastPoint(c) <= Max(P)
      BY <1>5
    <3>2. Max(P) \in Int /\ c.lastPoint \in Int /\ LastPoint(c) \in Int
      BY <1>3, <1>5, <1>7
    <3> HIDE DEF P
    <3> QED
      BY <2>1, <3>1, <3>2
  <2> QED
    BY <1>7, <2>4, <2>5
<1>10. c.lastSeries = Absent => LastSeries(c) = Max(S)
  BY DEF LastSeries
<1>11. c.lastPoint = Absent => LastPoint(c) = Max(P)
  BY <1>1 DEF LastPoint
<1>12. Max(S) \in Ids /\ Max(P) \in 0..IdLimit
  BY <1>3, <1>4, <1>5
<1> HIDE DEF S, P
<1>13. /\ \A i \in Live(c.series) \cup {Summary} : i <= Max(S)
       /\ \A i \in Live(c.points) \cup {0} : i <= Max(P)
  BY <1>4, <1>5 DEF S, P
<1> QED
  BY <1>6, <1>8, <1>9, <1>10, <1>11, <1>12, <1>13

-----------------------------------------------------------------------------
(* A chart that goes through a file.                                       *)

LEMMA XmlFields ==
    ASSUME NEW c, IsChart(c), NEW d, d = ThroughXml(c)
    PROVE  /\ Fields(d)
           /\ d.series = c.series /\ d.points = c.points
           /\ d.mode = IF c.mode = DefaultMode(c) THEN "none" ELSE c.mode
           /\ d.lastSeries = IF c.lastSeries = LargestOf(c.series, Summary) THEN Absent
                             ELSE c.lastSeries
           /\ d.lastPoint = IF c.lastPoint = LargestOf(c.points, 0) THEN Absent
                            ELSE c.lastPoint
           /\ d.activeSeries = c.activeSeries /\ d.activePoint = c.activePoint
           /\ d.cells = c.cells
           /\ d.trends = [o \in Owners(c) |-> [i \in 1..Len(c.trends[o]) |-> i]]
           /\ d.nextTrend = [o \in Owners(c) |-> Len(c.trends[o]) + 1]
<1>1. Fields(c)
  BY ChartIs
<1>2. PICK e : e = Renumbered(c)
  OBVIOUS
<1>3. /\ Fields(e)
      /\ e.series = c.series /\ e.points = c.points /\ e.mode = c.mode
      /\ e.lastSeries = c.lastSeries /\ e.lastPoint = c.lastPoint
      /\ e.activeSeries = c.activeSeries /\ e.activePoint = c.activePoint /\ e.cells = c.cells
      /\ e.trends = [o \in Owners(c) |-> [i \in 1..Len(c.trends[o]) |-> i]]
      /\ e.nextTrend = [o \in Owners(c) |-> Len(c.trends[o]) + 1]
  <2>1. PICK t : t = [o \in Owners(c) |-> [i \in 1..Len(c.trends[o]) |-> i]]
    OBVIOUS
  <2>2. PICK u : u = [o \in Owners(c) |-> Len(c.trends[o]) + 1]
    OBVIOUS
  <2>3. e = [c EXCEPT !.trends = t, !.nextTrend = u]
    BY <1>2, <2>1, <2>2 DEF Renumbered
  <2>4. Fields(e)
    BY <1>1, <2>3 DEF Fields
  <2> QED
    BY <1>1, <2>1, <2>2, <2>3, <2>4 DEF Fields
<1>4. DefaultMode(e) = DefaultMode(c)
  BY <1>3 DEF DefaultMode, Empty
<1>5. d = [e EXCEPT !.lastSeries = IF @ = LargestOf(c.series, Summary) THEN Absent ELSE @,
                    !.lastPoint = IF @ = LargestOf(c.points, 0) THEN Absent ELSE @,
                    !.mode = IF @ = DefaultMode(c) THEN "none" ELSE @]
  BY <1>2, <1>3, <1>4 DEF ThroughXml, WithoutDefaults
<1>6. Fields(d)
  BY <1>3, <1>5 DEF Fields
<1> QED
  BY <1>3, <1>5, <1>6 DEF Fields

LEMMA ChartIf ==
    ASSUME NEW c, Fields(c),
           c.series \in Seq(Ids), c.points \in Seq(Ids), c.mode \in Modes \cup {"none"},
           c.lastSeries \in 0..IdLimit, c.lastPoint \in 0..IdLimit,
           c.activeSeries \in 0..IdLimit, c.activePoint \in (0..IdLimit) \cup {Undefined},
           c.cells \in [DOMAIN c.cells -> {"user", "sample", Undefined}],
           c.trends \in [Owners(c) -> Seq(Nat \ {0})],
           c.nextTrend \in [Owners(c) -> Nat \ {0}]
    PROVE  IsChart(c)
BY DEF Fields, IsChart

LEMMA XmlKeepsHistory ==
    ASSUME NEW c, Good(c), NEW d, d = ThroughXml(c)
    PROVE  LastSeries(d) = LastSeries(c) /\ LastPoint(d) = LastPoint(c)
<1>1. /\ d.series = c.series /\ d.points = c.points
      /\ d.lastSeries = IF c.lastSeries = LargestOf(c.series, Summary) THEN Absent ELSE c.lastSeries
      /\ d.lastPoint = IF c.lastPoint = LargestOf(c.points, 0) THEN Absent ELSE c.lastPoint
  BY XmlFields DEF Good
<1>2. ASSUME d.lastSeries = Absent PROVE LastSeries(d) = LastSeries(c)
  <2>1. LastSeries(d) = LargestOf(c.series, Summary)
    BY <1>1, <1>2 DEF LastSeries, LargestOf
  <2>2. c.lastSeries = Absent \/ c.lastSeries = LargestOf(c.series, Summary)
    BY <1>1, <1>2
  <2>3. /\ c.lastSeries # Absent => LastSeries(c) = c.lastSeries
        /\ c.lastSeries = Absent => LastSeries(c) = LargestOf(c.series, Summary)
    BY LastIsStored
  <2> QED
    BY <2>1, <2>2, <2>3
<1>3. ASSUME d.lastSeries # Absent PROVE LastSeries(d) = LastSeries(c)
  <2>1. d.lastSeries = c.lastSeries
    BY <1>1, <1>3
  <2> QED
    BY <1>1, <2>1 DEF LastSeries
<1>4. ASSUME d.lastPoint = Absent PROVE LastPoint(d) = LastPoint(c)
  <2>1. LastPoint(d) = LargestOf(c.points, 0)
    BY <1>1, <1>4 DEF LastPoint, LargestOf, Absent
  <2>2. c.lastPoint = Absent \/ c.lastPoint = LargestOf(c.points, 0)
    BY <1>1, <1>4
  <2>3. /\ c.lastPoint # Absent => LastPoint(c) = c.lastPoint
        /\ c.lastPoint = Absent => LastPoint(c) = LargestOf(c.points, 0)
    BY LastIsStored
  <2> QED
    BY <2>1, <2>2, <2>3
<1>5. ASSUME d.lastPoint # Absent PROVE LastPoint(d) = LastPoint(c)
  <2>1. d.lastPoint = c.lastPoint
    BY <1>1, <1>5
  <2> QED
    BY <1>1, <2>1 DEF LastPoint
<1> QED
  BY <1>2, <1>3, <1>4, <1>5

LEMMA XmlIsGood ==
    ASSUME NEW c, Good(c), NEW d, d = ThroughXml(c)
    PROVE  Good(d) /\ Mode(d) = Mode(c)
<1>1. IsChart(c) /\ Valid(c)
  BY DEF Good
<1>2. /\ Fields(d)
      /\ d.series = c.series /\ d.points = c.points
      /\ d.mode = IF c.mode = DefaultMode(c) THEN "none" ELSE c.mode
      /\ d.lastSeries = IF c.lastSeries = LargestOf(c.series, Summary) THEN Absent ELSE c.lastSeries
      /\ d.lastPoint = IF c.lastPoint = LargestOf(c.points, 0) THEN Absent ELSE c.lastPoint
      /\ d.activeSeries = c.activeSeries /\ d.activePoint = c.activePoint
      /\ d.cells = c.cells
      /\ d.trends = [o \in Owners(c) |-> [i \in 1..Len(c.trends[o]) |-> i]]
      /\ d.nextTrend = [o \in Owners(c) |-> Len(c.trends[o]) + 1]
  BY <1>1, XmlFields
<1>3. Owners(d) = Owners(c) /\ DefaultMode(d) = DefaultMode(c) /\ DefaultMode(c) \in {"sample", "explicit"}
  BY <1>2 DEF Owners, DefaultMode, Empty
<1>4. Mode(d) = Mode(c) /\ (d.mode = "source" <=> c.mode = "source") /\ d.mode \in Modes \cup {"none"}
  BY <1>1, <1>2, <1>3, ChartIs DEF Mode
<1>5. ASSUME NEW o \in Owners(c)
      PROVE  /\ Len(c.trends[o]) \in Nat
             /\ d.trends[o] = [i \in 1..Len(c.trends[o]) |-> i]
             /\ d.trends[o] \in Seq(Nat \ {0}) /\ Len(d.trends[o]) = Len(c.trends[o])
             /\ d.nextTrend[o] = Len(c.trends[o]) + 1
             /\ d.nextTrend[o] \in Nat \ {0}
             /\ Distinct(d.trends[o])
             /\ \A t \in Live(d.trends[o]) : t < d.nextTrend[o]
  <2>1. PICK n \in Nat : n = Len(c.trends[o])
    BY <1>1, ChartIs
  <2>2. PICK s : s = [i \in 1..n |-> i]
    OBVIOUS
  <2>3. d.trends[o] = s /\ d.nextTrend[o] = n + 1
    BY <1>2, <2>1, <2>2
  <2>4. s \in Seq(Nat \ {0}) /\ Len(s) = n /\ \A i \in 1..n : s[i] = i
    BY <2>2
  <2>5. Distinct(s)
    BY <2>2 DEF Distinct, IsInjective
  <2>6. \A t \in Live(s) : t \in 1..n
    BY <2>4, LiveIs
  <2> QED
    BY <2>1, <2>2, <2>3, <2>4, <2>5, <2>6
<1>6. IsChart(d)
  <2>1. Absent \in 0..IdLimit
    BY ChartAssumption DEF Absent
  <2>2. d.lastSeries \in 0..IdLimit /\ d.lastPoint \in 0..IdLimit
    BY <1>1, <1>2, <2>1, ChartIs
  <2>3. d.trends \in [Owners(d) -> Seq(Nat \ {0})] /\ d.nextTrend \in [Owners(d) -> Nat \ {0}]
    BY <1>2, <1>3, <1>5
  <2> QED
    BY <1>1, <1>2, <1>4, <2>2, <2>3, ChartIs, ChartIf
<1>7. Valid(d)
  <2>1. /\ d.lastSeries # Absent => d.lastSeries >= LargestOf(d.series, Summary)
        /\ d.lastPoint # Absent => d.lastPoint >= LargestOf(d.points, 0)
    BY <1>1, <1>2 DEF Valid, LargestOf
  <2>2. DOMAIN d.cells = IF d.mode = "source" THEN {} ELSE Pairs(d.series, d.points)
    BY <1>1, <1>2, <1>4 DEF Valid
  <2>3. /\ Distinct(d.series) /\ Summary \notin Live(d.series) /\ Distinct(d.points)
        /\ d.activeSeries \in Live(d.series) \cup {Absent}
        /\ d.activePoint \in Live(d.points) \cup {Absent, Undefined}
    BY <1>1, <1>2 DEF Valid
  <2> QED
    BY <1>3, <1>5, <2>1, <2>2, <2>3 DEF Valid
<1> QED
  BY <1>4, <1>6, <1>7 DEF Good

-----------------------------------------------------------------------------
(* The budget.                                                             *)

TrendCount(c) == SumFunction([o \in Owners(c) |-> Len(c.trends[o])])

LEMMA SumIs ==
    ASSUME NEW f, NEW D, DOMAIN f = D, IsFiniteSet(D), \A x \in D : f[x] \in Nat
    PROVE  /\ SumFunction(f) \in Nat
           /\ SumFunction(f) = SumFunctionOnSet(f, D)
           /\ \A x \in D : SumFunction(f) = f[x] + SumFunctionOnSet(f, D \ {x})
BY SumStep DEF SumFunction

LEMMA OwnersAreFinite ==
    ASSUME NEW c, IsChart(c)
    PROVE  IsFiniteSet(Owners(c)) /\ \A o \in Owners(c) : Len(c.trends[o]) \in Nat
<1>1. IsFiniteSet(1..IdLimit)
  BY ChartAssumption, FS_Interval
<1>2. Owners(c) \in SUBSET (1..IdLimit)
  BY ChartIs DEF Ids
<1>3. IsFiniteSet(Owners(c))
  BY <1>1, <1>2, FS_Subset
<1>4. \A o \in Owners(c) : c.trends[o] \in Seq(Nat \ {0})
  BY ChartIs
<1> QED
  BY <1>3, <1>4

LEMMA LengthsAre ==
    ASSUME NEW c, IsChart(c)
    PROVE  Len(c.series) \in Nat /\ Len(c.points) \in Nat
<1>1. c.series \in Seq(Ids) /\ c.points \in Seq(Ids)
  BY ChartIs
<1> QED
  BY <1>1

LEMMA ItemsAre ==
    ASSUME NEW c, IsChart(c)
    PROVE  /\ TrendCount(c) \in Nat /\ Items(c) \in Nat
           /\ Items(c) = Len(c.series) + Len(c.points)
                + (IF c.mode = "source" THEN 0 ELSE Len(c.series) * Len(c.points))
                + TrendCount(c)
<1>1. PICK f : f = [o \in Owners(c) |-> Len(c.trends[o])]
  OBVIOUS
<1>2. SumFunction(f) \in Nat
  BY <1>1, OwnersAreFinite, SumIs
<1>3. TrendCount(c) \in Nat
  BY <1>1, <1>2 DEF TrendCount
<1>4. PICK n \in Nat : n = Len(c.series)
  BY LengthsAre
<1>5. PICK m \in Nat : m = Len(c.points)
  BY LengthsAre
<1>6. Items(c) = n + m + (IF c.mode = "source" THEN 0 ELSE n * m) + TrendCount(c)
  BY <1>4, <1>5 DEF Items, TrendCount
<1>7. PICK k \in Nat : k = n * m
  OBVIOUS
<1>8. PICK t \in Nat : t = TrendCount(c)
  BY <1>3
<1>9. Items(c) = n + m + (IF c.mode = "source" THEN 0 ELSE k) + t
  BY <1>6, <1>7, <1>8
<1>10. Items(c) \in Nat
  BY <1>9
<1> QED
  BY <1>3, <1>4, <1>5, <1>6, <1>10

\* A change of the trend lines of one series.
LEMMA TrendCountStep ==
    ASSUME NEW c, IsChart(c), NEW d, IsChart(d), Owners(d) = Owners(c), NEW o \in Owners(c),
           \A p \in Owners(c) \ {o} : Len(d.trends[p]) = Len(c.trends[p])
    PROVE  TrendCount(d) + Len(c.trends[o]) = TrendCount(c) + Len(d.trends[o])
<1>1. PICK f : f = [p \in Owners(c) |-> Len(c.trends[p])]
  OBVIOUS
<1>2. PICK g : g = [p \in Owners(c) |-> Len(d.trends[p])]
  OBVIOUS
<1>3. PICK rest : rest = SumFunctionOnSet(f, Owners(c) \ {o})
  OBVIOUS
<1>4. SumFunctionOnSet(g, Owners(c) \ {o}) = rest
  BY <1>1, <1>2, <1>3, SumAgree
<1>5. SumFunction(f) = f[o] + rest /\ SumFunction(g) = g[o] + rest
  <2>1. /\ IsFiniteSet(Owners(c))
        /\ \A p \in Owners(c) : Len(c.trends[p]) \in Nat /\ Len(d.trends[p]) \in Nat
    BY OwnersAreFinite
  <2>2. DOMAIN f = Owners(c) /\ \A p \in Owners(c) : f[p] \in Nat
    BY <1>1, <2>1
  <2>3. DOMAIN g = Owners(c) /\ \A p \in Owners(c) : g[p] \in Nat
    BY <1>2, <2>1
  <2>4. SumFunction(f) = f[o] + SumFunctionOnSet(f, Owners(c) \ {o})
    BY <2>1, <2>2, SumIs
  <2>5. SumFunction(g) = g[o] + SumFunctionOnSet(g, Owners(c) \ {o})
    BY <2>1, <2>3, SumIs
  <2> QED
    BY <1>3, <1>4, <2>4, <2>5
<1>6. rest \in Nat
  <2>1. IsFiniteSet(Owners(c) \ {o})
    BY OwnersAreFinite, FS_Subset
  <2>2. \A p \in Owners(c) \ {o} : f[p] \in Nat
    BY <1>1, OwnersAreFinite
  <2> QED
    BY <1>3, <2>1, <2>2, SumStep
<1>7. TrendCount(c) = SumFunction(f) /\ TrendCount(d) = SumFunction(g)
  BY <1>1, <1>2 DEF TrendCount
<1>8. f[o] = Len(c.trends[o]) /\ g[o] = Len(d.trends[o])
  BY <1>1, <1>2
<1>9. PICK a \in Nat : a = Len(c.trends[o])
  BY OwnersAreFinite
<1>10. PICK b \in Nat : b = Len(d.trends[o])
  BY OwnersAreFinite
<1>11. TrendCount(c) = a + rest /\ TrendCount(d) = b + rest
  BY <1>5, <1>7, <1>8, <1>9, <1>10
<1>12. (b + rest) + a = (a + rest) + b
  BY <1>6
<1> QED
  BY <1>9, <1>10, <1>11, <1>12

\* What the charts of S hold, when q are the charts.
Total(q, S) == SumFunction([m \in S |-> Items(q[m])])

LEMMA TotalStep ==
    ASSUME NEW q, \A m \in Charts : IsChart(q[m]), NEW n \in Charts
    PROVE  /\ Total(q, Charts) = Items(q[n]) + Total(q, Charts \ {n})
           /\ Total(q, Charts \ {n}) \in Nat /\ Items(q[n]) \in Nat
<1>1. PICK f : f = [m \in Charts |-> Items(q[m])]
  OBVIOUS
<1>2. PICK g : g = [m \in Charts \ {n} |-> Items(q[m])]
  OBVIOUS
<1>3. \A m \in Charts : Items(q[m]) \in Nat
  BY ItemsAre
<1>4. IsFiniteSet(Charts) /\ IsFiniteSet(Charts \ {n})
  BY ChartAssumption, FS_Subset
<1>5. SumFunction(f) = f[n] + SumFunctionOnSet(f, Charts \ {n})
  BY <1>1, <1>3, <1>4, SumIs
<1>6. SumFunction(g) = SumFunctionOnSet(g, Charts \ {n}) /\ SumFunction(g) \in Nat
  <2>1. DOMAIN g = Charts \ {n} /\ \A m \in Charts \ {n} : g[m] \in Nat
    BY <1>2, <1>3
  <2> QED
    BY <1>4, <2>1, SumIs
<1>7. SumFunctionOnSet(f, Charts \ {n}) = SumFunctionOnSet(g, Charts \ {n})
  BY <1>1, <1>2, SumAgree
<1>8. Total(q, Charts) = SumFunction(f) /\ Total(q, Charts \ {n}) = SumFunction(g)
  BY <1>1, <1>2 DEF Total
<1> QED
  BY <1>1, <1>3, <1>5, <1>6, <1>7, <1>8

LEMMA TotalAgree ==
    ASSUME NEW q, NEW r, NEW S, \A m \in S : Items(q[m]) = Items(r[m])
    PROVE  Total(q, S) = Total(r, S)
<1>1. [m \in S |-> Items(q[m])] = [m \in S |-> Items(r[m])]
  OBVIOUS
<1> QED
  BY <1>1 DEF Total

LEMMA SameItems ==
    ASSUME NEW c, IsChart(c), NEW d, IsChart(d), Owners(d) = Owners(c),
           d.series = c.series, d.points = c.points, d.mode = "source" <=> c.mode = "source",
           \A o \in Owners(c) : Len(d.trends[o]) = Len(c.trends[o])
    PROVE  Items(d) = Items(c)
<1>1. Summary \in Owners(c)
  BY DEF Owners
<1>2. TrendCount(d) + Len(c.trends[Summary]) = TrendCount(c) + Len(d.trends[Summary])
  BY <1>1, TrendCountStep
<1>3. TrendCount(c) \in Nat /\ TrendCount(d) \in Nat /\ Len(c.trends[Summary]) \in Nat
  BY <1>1, ItemsAre, OwnersAreFinite
<1>4. TrendCount(d) = TrendCount(c)
  BY <1>1, <1>2, <1>3
<1> QED
  BY <1>4, ItemsAre

-----------------------------------------------------------------------------
(* The selected series.                                                    *)

LEMMA ActiveIs ==
    ASSUME NEW c, Good(c)
    PROVE  /\ c.series = <<>> => c.activeSeries = Absent /\ ActiveSeries(c) = Undefined
           /\ c.series # <<>> => ActiveSeries(c) \in Live(c.series) /\ Head(c.series) \in Live(c.series)
           /\ c.series # <<>> => Last(c.series) \in Live(c.series)
           /\ Absent \notin Live(c.series) /\ Undefined \notin Live(c.series)
<1>1. c.series \in Seq(Ids) /\ c.activeSeries \in Live(c.series) \cup {Absent}
  BY ChartIs DEF Good, Valid
<1>2. c.series = <<>> => Live(c.series) = {}
  BY <1>1, LiveIs
<1>3. ASSUME c.series # <<>>
      PROVE  Head(c.series) \in Live(c.series) /\ Last(c.series) \in Live(c.series)
  <2>1. Len(c.series) \in Nat /\ Len(c.series) # 0
    BY <1>1, <1>3
  <2>2. 1 \in 1..Len(c.series) /\ Len(c.series) \in 1..Len(c.series)
    BY <2>1
  <2>3. Head(c.series) = c.series[1]
    BY <1>1, <1>3
  <2> QED
    BY <1>1, <2>2, <2>3, LiveIs DEF Last
<1>4. Live(c.series) \subseteq Ids
  BY <1>1, LiveIs
<1>5. Absent \notin Ids /\ Undefined \notin Ids
  BY ChartAssumption DEF Ids, Absent
<1> QED
  BY <1>1, <1>2, <1>3, <1>4, <1>5 DEF ActiveSeries

LEMMA Reread ==
    ASSUME NEW c, Good(c), NEW e, e = ThroughXml(c), NEW d, Fields(d),
           d.series = e.series, d.points = e.points, d.mode = e.mode,
           d.lastSeries = e.lastSeries, d.lastPoint = e.lastPoint,
           d.cells = e.cells, d.trends = e.trends, d.nextTrend = e.nextTrend,
           \/ d.activeSeries = e.activeSeries
           \/ c.series # <<>> /\ e.activeSeries = Head(c.series) /\ d.activeSeries = Absent,
           d.activePoint \in {e.activePoint, Absent}
    PROVE  Good(d) /\ Keeps(c, d) /\ KeepsSelection(c, d) /\ Items(d) = Items(c)
<1>1. Good(e) /\ IsChart(e) /\ Valid(e) /\ Mode(e) = Mode(c) /\ IsChart(c) /\ Valid(c)
  BY XmlIsGood DEF Good
<1>2. IsChart(c) /\ e = ThroughXml(c)
  BY <1>1
<1>3. /\ e.series = c.series /\ e.points = c.points /\ e.cells = c.cells
      /\ e.activeSeries = c.activeSeries
      /\ e.mode = IF c.mode = DefaultMode(c) THEN "none" ELSE c.mode
      /\ e.trends = [o \in Owners(c) |-> [i \in 1..Len(c.trends[o]) |-> i]]
  BY ONLY <1>2, XmlFields
<1>4. Owners(d) = Owners(e) /\ Owners(e) = Owners(c)
  BY <1>3 DEF Owners
<1>5. Mode(d) = Mode(c) /\ LastSeries(d) = LastSeries(c) /\ LastPoint(d) = LastPoint(c)
  <2>1. Mode(d) = Mode(e)
    BY DEF Mode, DefaultMode, Empty
  <2>2. LastSeries(d) = LastSeries(e) /\ LastPoint(d) = LastPoint(e)
    BY DEF LastSeries, LastPoint
  <2> QED
    BY <1>1, <2>1, <2>2, XmlKeepsHistory
<1>6. d.activeSeries \in 0..IdLimit /\ d.activePoint \in (0..IdLimit) \cup {Undefined}
  <2>1. Absent \in 0..IdLimit
    BY ChartAssumption DEF Absent
  <2> QED
    BY <1>1, <2>1, ChartIs
<1>7. IsChart(d)
  BY <1>1, <1>4, <1>6, ChartIs, ChartIf
<1>8. Valid(d)
  <2>1. /\ Distinct(d.series) /\ Summary \notin Live(d.series) /\ Distinct(d.points)
        /\ d.lastSeries # Absent => d.lastSeries >= LargestOf(d.series, Summary)
        /\ d.lastPoint # Absent => d.lastPoint >= LargestOf(d.points, 0)
        /\ DOMAIN d.cells = IF d.mode = "source" THEN {} ELSE Pairs(d.series, d.points)
    BY <1>1 DEF Valid
  <2>2. /\ d.activeSeries \in Live(d.series) \cup {Absent}
        /\ d.activePoint \in Live(d.points) \cup {Absent, Undefined}
    BY <1>1 DEF Valid
  <2>3. \A o \in Owners(d) :
          /\ Distinct(d.trends[o])
          /\ \A t \in Live(d.trends[o]) : t < d.nextTrend[o]
    BY <1>1, <1>4 DEF Valid
  <2> QED
    BY <2>1, <2>2, <2>3 DEF Valid
<1>9. Keeps(c, d)
  <2>1. LastSeries(c) \in Int /\ LastPoint(c) \in Int
    BY <1>1, LastIs DEF Ids
  <2> QED
    BY <1>3, <1>5, <2>1 DEF Keeps
<1>10. KeepsSelection(c, d)
  <2>1. CASE c.series = <<>>
    BY <1>3, <1>7, <1>8, <2>1, ActiveIs DEF KeepsSelection, Good
  <2>2. CASE c.series # <<>>
    <3>1. ActiveSeries(c) \in Live(c.series) /\ Absent \notin Live(c.series)
          /\ Head(c.series) \in Live(c.series)
      BY <2>2, ActiveIs
    <3>2. ActiveSeries(d) = ActiveSeries(c)
      BY <1>3, <2>2, <3>1 DEF ActiveSeries
    <3> QED
      BY <1>3, <2>2, <3>1, <3>2 DEF KeepsSelection
  <2> QED
    BY <2>1, <2>2
<1>11. Items(d) = Items(c)
  <2>1. d.mode = "source" <=> c.mode = "source"
    BY <1>3 DEF DefaultMode
  <2>2. ASSUME NEW o \in Owners(c) PROVE Len(d.trends[o]) = Len(c.trends[o])
    <3>1. Len(c.trends[o]) \in Nat
      BY <1>1, OwnersAreFinite
    <3>2. d.trends[o] = [i \in 1..Len(c.trends[o]) |-> i]
      BY <1>3
    <3> QED
      BY <3>1, <3>2
  <2> QED
    BY <1>1, <1>3, <1>4, <1>7, <2>1, <2>2, SameItems
<1> QED
  BY <1>7, <1>8, <1>9, <1>10, <1>11 DEF Good

LEMMA FilesKeep ==
    ASSUME NEW c, Good(c), NEW d, d = ThroughXml(c) \/ d = ThroughBin(c)
    PROVE  Good(d) /\ Keeps(c, d) /\ KeepsSelection(c, d) /\ Items(d) = Items(c)
<1>1. PICK e : e = ThroughXml(c)
  OBVIOUS
<1>2. Fields(e)
  BY <1>1, XmlFields DEF Good
<1>3. CASE d = ThroughXml(c)
  BY <1>1, <1>2, <1>3, Reread
<1>4. CASE d = ThroughBin(c)
  <2>1. PICK s : s = IF c.series # <<>> /\ e.activeSeries = Head(c.series) THEN Absent
                     ELSE e.activeSeries
    OBVIOUS
  <2>2. PICK p : p = IF c.points # <<>> /\ e.activePoint = Head(c.points) THEN Absent
                     ELSE e.activePoint
    OBVIOUS
  <2>3. d = [e EXCEPT !.activeSeries = s, !.activePoint = p]
    BY <1>1, <1>4, <2>1, <2>2 DEF ThroughBin, ThroughXml
  <2>4. Fields(d) /\ d.activeSeries = s /\ d.activePoint = p
    BY <1>2, <2>3 DEF Fields
  <2>5. /\ d.series = e.series /\ d.points = e.points /\ d.mode = e.mode
        /\ d.lastSeries = e.lastSeries /\ d.lastPoint = e.lastPoint
        /\ d.cells = e.cells /\ d.trends = e.trends /\ d.nextTrend = e.nextTrend
    BY <1>2, <2>3 DEF Fields
  <2> QED
    BY <1>1, <2>1, <2>2, <2>4, <2>5, Reread
<1> QED
  BY <1>3, <1>4

-----------------------------------------------------------------------------
(* Resizing.                                                               *)

LEMMA ResizedIs ==
    ASSUME NEW s \in Seq(Ids), NEW n \in Nat, NEW last \in 0..IdLimit, Distinct(s),
           \A x \in Live(s) : x <= last, last + Added(s, n) <= IdLimit,
           NEW r, r = Resized(s, n, last)
    PROVE  /\ r \in Seq(Ids) /\ Len(r) = n /\ Distinct(r) /\ Added(s, n) \in Nat
           /\ \A x \in Live(r) : x <= last + Added(s, n) /\ (x \in Live(s) \/ x > last)
           /\ s # <<>> /\ r # <<>> => Head(r) = Head(s)
<1>1. IdLimit \in Nat /\ Ids = 1..IdLimit /\ last \in Nat
  BY ChartAssumption DEF Ids
<1>2. PICK len \in Nat : len = Len(s) /\ DOMAIN s = 1..len
  OBVIOUS
<1>3. r = [i \in 1..n |-> IF i <= len THEN s[i] ELSE last + i - len]
  BY <1>2 DEF Resized
<1>4. PICK added \in Nat : added = Added(s, n) /\ added = IF n > len THEN n - len ELSE 0
  BY <1>2 DEF Added
<1>5. ASSUME NEW i \in 1..n, i <= len
      PROVE  r[i] = s[i] /\ r[i] \in Ids /\ r[i] \in Live(s) /\ r[i] <= last
  <2>1. i \in 1..len /\ r[i] = s[i]
    BY <1>3, <1>5
  <2>2. s[i] \in Live(s) /\ s[i] \in Ids
    BY <1>2, <2>1, LiveIs
  <2> QED
    BY <2>1, <2>2
<1>6. ASSUME NEW i \in 1..n, ~(i <= len)
      PROVE  r[i] = last + i - len /\ r[i] \in Ids /\ r[i] > last /\ r[i] <= last + added
  <2>1. r[i] = last + i - len
    BY <1>3, <1>6
  <2>2. i > len /\ n > len /\ i <= n /\ added = n - len
    BY <1>4, <1>6
  <2>3. last + added <= IdLimit
    BY <1>4
  <2> QED
    BY <1>1, <2>1, <2>2, <2>3
<1>7. r \in Seq(Ids) /\ Len(r) = n /\ DOMAIN r = 1..n
  <2>1. \A i \in 1..n : r[i] \in Ids
    BY <1>5, <1>6
  <2>2. r \in [1..n -> Ids]
    BY <1>3, <2>1
  <2> QED
    BY <2>2
<1>8. Distinct(r)
  <2> SUFFICES ASSUME NEW i \in 1..n, NEW j \in 1..n, r[i] = r[j] PROVE i = j
    BY <1>7 DEF Distinct, IsInjective
  <2>1. CASE i <= len /\ j <= len
    <3>1. i \in DOMAIN s /\ j \in DOMAIN s
      BY <1>2, <2>1
    <3>2. s[i] = s[j]
      BY <1>5, <2>1
    <3> QED
      BY <3>1, <3>2 DEF Distinct, IsInjective
  <2>2. CASE ~(i <= len) /\ ~(j <= len)
    BY <1>1, <1>6, <2>2
  <2>3. CASE i <= len /\ ~(j <= len)
    BY <1>1, <1>5, <1>6, <2>3
  <2>4. CASE ~(i <= len) /\ j <= len
    BY <1>1, <1>5, <1>6, <2>4
  <2> QED
    BY <2>1, <2>2, <2>3, <2>4
<1>9. ASSUME NEW x \in Live(r)
      PROVE  x <= last + added /\ (x \in Live(s) \/ x > last)
  <2>1. PICK i \in 1..n : x = r[i]
    BY <1>7, LiveIs
  <2>2. CASE i <= len
    <3>1. x \in Live(s) /\ x <= last /\ x \in Ids
      BY <1>5, <2>1, <2>2
    <3> QED
      BY <1>1, <3>1
  <2>3. CASE ~(i <= len)
    BY <1>6, <2>1, <2>3
  <2> QED
    BY <2>2, <2>3
<1>10. ASSUME s # <<>>, r # <<>> PROVE Head(r) = Head(s)
  <2>1. n # 0 /\ len # 0
    BY <1>2, <1>7, <1>10
  <2>2. 1 \in 1..n /\ 1 <= len
    BY <2>1
  <2>3. Head(r) = r[1] /\ Head(s) = s[1]
    BY <1>7, <1>10
  <2> QED
    BY <1>5, <2>2, <2>3
<1> QED
  BY <1>4, <1>7, <1>8, <1>9, <1>10

LEMMA CellsAre ==
    ASSUME NEW c, IsChart(c), NEW series, NEW points, NEW cells, cells = Cells(c, series, points)
    PROVE  /\ DOMAIN cells = Pairs(series, points)
           /\ cells \in [DOMAIN cells -> {"user", "sample", Undefined}]
           /\ \A p \in DOMAIN cells :
                cells[p] = IF p \in DOMAIN c.cells THEN c.cells[p]
                           ELSE IF Mode(c) = "explicit" THEN Undefined ELSE "sample"
<1>1. c.cells \in [DOMAIN c.cells -> {"user", "sample", Undefined}]
  BY ChartIs
<1>2. ASSUME NEW p \in Pairs(series, points)
      PROVE  /\ cells[p] = IF p \in DOMAIN c.cells THEN c.cells[p]
                           ELSE IF Mode(c) = "explicit" THEN Undefined ELSE "sample"
             /\ cells[p] \in {"user", "sample", Undefined}
  BY <1>1 DEF Cells
<1>3. cells = [p \in Pairs(series, points) |-> cells[p]]
  BY DEF Cells
<1> QED
  BY <1>2, <1>3

LEMMA SeriesFields ==
    ASSUME NEW c, Fields(c), NEW n, NEW d, d = WithSeries(c, n),
           NEW r, r = Resized(c.series, n, LastSeries(c))
    PROVE  /\ Fields(d)
           /\ d.series = r /\ d.points = c.points
           /\ d.lastSeries = LastSeries(c) + Added(c.series, n) /\ d.lastPoint = c.lastPoint
           /\ d.mode = Mode(c)
           /\ d.activeSeries = Selected(c, r) /\ d.activePoint = c.activePoint
           /\ d.cells = Cells(c, r, c.points)
           /\ d.trends = [o \in Live(r) \cup {Summary} |->
                            IF o \in Owners(c) THEN c.trends[o] ELSE <<>>]
           /\ d.nextTrend = [o \in Live(r) \cup {Summary} |->
                               IF o \in Owners(c) THEN c.nextTrend[o] ELSE 1]
<1>1. PICK t : t = [o \in Live(r) \cup {Summary} |->
                      IF o \in Owners(c) THEN c.trends[o] ELSE <<>>]
  OBVIOUS
<1>2. PICK u : u = [o \in Live(r) \cup {Summary} |->
                      IF o \in Owners(c) THEN c.nextTrend[o] ELSE 1]
  OBVIOUS
<1>3. PICK last : last = LastSeries(c) + Added(c.series, n)
  OBVIOUS
<1>4. PICK m : m = Mode(c)
  OBVIOUS
<1>5. PICK a : a = Selected(c, r)
  OBVIOUS
<1>6. PICK cells : cells = Cells(c, r, c.points)
  OBVIOUS
<1>7. d = [c EXCEPT !.series = r, !.lastSeries = last, !.mode = m, !.activeSeries = a,
                    !.cells = cells, !.trends = t, !.nextTrend = u]
  BY <1>1, <1>2, <1>3, <1>4, <1>5, <1>6 DEF WithSeries
<1>8. /\ d.series = r /\ d.points = c.points /\ d.lastSeries = last /\ d.lastPoint = c.lastPoint
      /\ d.mode = m /\ d.activeSeries = a /\ d.activePoint = c.activePoint
      /\ d.cells = cells /\ d.trends = t /\ d.nextTrend = u
  BY ONLY <1>7, Fields(c) DEF Fields
<1>9. Fields(d)
  BY ONLY <1>7, Fields(c) DEF Fields
<1> QED
  BY <1>1, <1>2, <1>3, <1>4, <1>5, <1>6, <1>8, <1>9

\* A resizing of the series.
LEMMA SeriesKeep ==
    ASSUME NEW c, Good(c), c.mode # "source", NEW n \in Nat,
           LastSeries(c) + Added(c.series, n) <= IdLimit,
           NEW d, d = WithSeries(c, n)
    PROVE  Good(d) /\ Keeps(c, d) /\ KeepsTrends(c, d) /\ KeepsSelection(c, d)
<1>1. IsChart(c) /\ Valid(c)
  BY DEF Good
<1>2. PICK r : r = Resized(c.series, n, LastSeries(c))
  OBVIOUS
<1>3. PICK added : added = Added(c.series, n)
  OBVIOUS
<1>4. PICK last : last = LastSeries(c)
  OBVIOUS
<1>5. /\ last \in Ids /\ last \in 0..IdLimit /\ last \in Nat /\ LastPoint(c) \in 0..IdLimit
      /\ c.lastPoint <= LastPoint(c)
      /\ \A o \in Owners(c) : o <= last
      /\ \A i \in Live(c.series) : i <= last
  BY <1>1, <1>4, LastIs, ChartAssumption DEF Ids
<1>6. Distinct(c.series) /\ c.series \in Seq(Ids)
  BY <1>1, ChartIs DEF Valid
<1>7. /\ r \in Seq(Ids) /\ Len(r) = n /\ Distinct(r) /\ added \in Nat
      /\ \A x \in Live(r) : x <= last + added /\ (x \in Live(c.series) \/ x > last)
      /\ c.series # <<>> /\ r # <<>> => Head(r) = Head(c.series)
  BY <1>2, <1>3, <1>4, <1>5, <1>6, ResizedIs
<1>8. /\ Fields(d)
      /\ d.series = r /\ d.points = c.points
      /\ d.lastSeries = last + added /\ d.lastPoint = c.lastPoint
      /\ d.mode = Mode(c)
      /\ d.activeSeries = Selected(c, r) /\ d.activePoint = c.activePoint
      /\ d.cells = Cells(c, r, c.points)
      /\ d.trends = [o \in Live(r) \cup {Summary} |->
                       IF o \in Owners(c) THEN c.trends[o] ELSE <<>>]
      /\ d.nextTrend = [o \in Live(r) \cup {Summary} |->
                          IF o \in Owners(c) THEN c.nextTrend[o] ELSE 1]
  <2>1. Fields(c)
    BY <1>1, ChartIs
  <2>2. d = WithSeries(c, n)
    OBVIOUS
  <2> QED
    BY ONLY <1>2, <1>3, <1>4, <2>1, <2>2, SeriesFields
<1>9. Owners(d) = Live(r) \cup {Summary} /\ Live(r) \subseteq Ids
  BY <1>7, <1>8, LiveIs DEF Owners
<1>10. Mode(c) \in {"sample", "explicit"} /\ Mode(d) = Mode(c) /\ d.mode # "source"
  BY <1>1, <1>8, ChartIs DEF Mode, DefaultMode, Modes
<1>11. last + added \in 0..IdLimit /\ Summary <= last /\ Summary \in Ids
  BY <1>3, <1>4, <1>5, <1>7, ChartAssumption DEF Owners, Summary, Ids
<1>12. /\ c.series = <<>> => ActiveSeries(c) = Undefined
       /\ c.series # <<>> => ActiveSeries(c) \in Live(c.series)
       /\ Absent \notin Live(c.series) /\ Undefined \notin Live(c.series)
       /\ c.activeSeries \in Live(c.series) \cup {Absent}
  BY <1>1, ActiveIs DEF Valid
<1>13. Absent \notin Live(r) /\ Undefined \notin Live(r) /\ (r # <<>> => Last(r) \in Live(r))
       /\ (r # <<>> => Head(r) \in Live(r))
  <2>1. Absent \notin Ids /\ Undefined \notin Ids
    BY ChartAssumption DEF Ids, Absent
  <2>2. ASSUME r # <<>> PROVE Last(r) \in Live(r) /\ Head(r) \in Live(r)
    <3>1. n # 0 /\ r[n] \in Live(r) /\ r[1] \in Live(r)
      BY <1>7, <2>2, LiveIs
    <3> QED
      BY <1>7, <2>2, <3>1 DEF Last
  <2> QED
    BY <1>9, <2>1, <2>2
<1>14. d.activeSeries \in Live(r) \cup {Absent} /\ d.activeSeries \in 0..IdLimit
  <2>1. d.activeSeries \in Live(r) \cup {Absent}
    <3>1. CASE r = <<>>
      BY <1>8, <3>1 DEF Selected
    <3>2. CASE r # <<>> /\ ActiveSeries(c) \in Live(r) \cup {Undefined}
      <4>1. d.activeSeries = c.activeSeries
        BY <1>8, <3>2 DEF Selected
      <4>2. c.activeSeries # Absent => ActiveSeries(c) = c.activeSeries
        BY DEF ActiveSeries
      <4> QED
        BY <1>12, <3>2, <4>1, <4>2
    <3>3. CASE r # <<>> /\ ActiveSeries(c) \notin Live(r) \cup {Undefined}
      BY <1>8, <1>13, <3>3 DEF Selected
    <3> QED
      BY <3>1, <3>2, <3>3
  <2>2. Live(r) \cup {Absent} \subseteq 0..IdLimit
    BY <1>9, ChartAssumption DEF Ids, Absent
  <2> QED
    BY <2>1, <2>2
<1>15. /\ DOMAIN d.cells = Pairs(d.series, d.points)
       /\ d.cells \in [DOMAIN d.cells -> {"user", "sample", Undefined}]
       /\ \A p \in DOMAIN d.cells :
            d.cells[p] = IF p \in DOMAIN c.cells THEN c.cells[p]
                         ELSE IF Mode(c) = "explicit" THEN Undefined ELSE "sample"
  BY <1>1, <1>8, CellsAre
<1>16. ASSUME NEW o \in Owners(d)
       PROVE  /\ o \in Owners(c) =>
                   o <= last /\ d.trends[o] = c.trends[o] /\ d.nextTrend[o] = c.nextTrend[o]
              /\ o \notin Owners(c) => d.trends[o] = <<>> /\ d.nextTrend[o] = 1
              /\ d.trends[o] \in Seq(Nat \ {0}) /\ d.nextTrend[o] \in Nat \ {0}
              /\ Distinct(d.trends[o])
              /\ \A t \in Live(d.trends[o]) : t < d.nextTrend[o]
  <2>1. CASE o \in Owners(c)
    <3>1. d.trends[o] = c.trends[o] /\ d.nextTrend[o] = c.nextTrend[o]
      BY <1>8, <1>9, <2>1
    <3>2. c.trends[o] \in Seq(Nat \ {0}) /\ c.nextTrend[o] \in Nat \ {0}
      BY <1>1, <2>1, ChartIs
    <3>3. Distinct(c.trends[o]) /\ \A t \in Live(c.trends[o]) : t < c.nextTrend[o]
      BY <1>1, <2>1 DEF Valid
    <3> QED
      BY <1>5, <2>1, <3>1, <3>2, <3>3
  <2>2. CASE o \notin Owners(c)
    <3>1. d.trends[o] = <<>> /\ d.nextTrend[o] = 1
      BY <1>8, <1>9, <2>2
    <3>2. <<>> \in Seq(Nat \ {0}) /\ Distinct(<<>>) /\ Live(<<>>) = {}
      BY DEF Distinct, IsInjective, Live, ToSet
    <3> QED
      BY <2>2, <3>1, <3>2
  <2> QED
    BY <2>1, <2>2
<1>17. IsChart(d)
  <2>1. d.trends \in [Owners(d) -> Seq(Nat \ {0})] /\ d.nextTrend \in [Owners(d) -> Nat \ {0}]
    BY <1>8, <1>9, <1>16
  <2>2. d.mode \in Modes \cup {"none"}
    BY <1>8, <1>10 DEF Modes
  <2>3. /\ d.points \in Seq(Ids) /\ d.lastPoint \in 0..IdLimit
        /\ d.activePoint \in (0..IdLimit) \cup {Undefined}
    BY <1>1, <1>8, ChartIs
  <2> QED
    BY <1>7, <1>8, <1>11, <1>14, <1>15, <2>1, <2>2, <2>3, ChartIf
<1>18. Valid(d)
  <2>1. Summary \notin Live(d.series)
    BY <1>1, <1>7, <1>8, <1>11, <1>5 DEF Valid, Ids
  <2>2. d.lastSeries >= LargestOf(d.series, Summary)
    <3>1. Live(r) \cup {Summary} \subseteq 0..IdLimit
      BY <1>9, <1>11, ChartAssumption DEF Ids
    <3>2. LargestOf(r, Summary) \in Live(r) \cup {Summary}
      BY <3>1, MaxIs, ChartAssumption DEF LargestOf
    <3>3. LargestOf(r, Summary) <= last + added
      BY <1>5, <1>7, <1>11, <3>2 DEF Summary
    <3>4. LargestOf(r, Summary) \in Int /\ last + added \in Int
      BY <1>11, <3>1, <3>2
    <3> QED
      BY <1>8, <3>3, <3>4
  <2>3. d.lastPoint # Absent => d.lastPoint >= LargestOf(d.points, 0)
    BY <1>1, <1>8 DEF Valid
  <2>4. Distinct(d.points) /\ d.activePoint \in Live(d.points) \cup {Absent, Undefined}
    BY <1>1, <1>8 DEF Valid
  <2> QED
    BY <1>7, <1>8, <1>10, <1>14, <1>15, <1>16, <2>1, <2>2, <2>3, <2>4 DEF Valid
<1>19. Keeps(c, d)
  <2>1. last <= LastSeries(d)
    <3>1. d.lastSeries <= LastSeries(d) /\ LastSeries(d) \in Ids
      BY <1>17, LastIs
    <3>2. last + added <= LastSeries(d)
      BY <1>8, <3>1
    <3> QED
      BY <1>5, <1>7, <3>1, <3>2 DEF Ids
  <2>2. LastPoint(d) = LastPoint(c)
    BY <1>8 DEF LastPoint
  <2> QED
    BY <1>4, <1>5, <1>7, <1>8, <1>10, <1>15, <2>1, <2>2 DEF Keeps
<1>20. KeepsTrends(c, d)
  BY <1>1, <1>16, ChartIs DEF KeepsTrends
<1>21. KeepsSelection(c, d)
  <2>1. CASE r = <<>>
    BY <1>8, <2>1 DEF KeepsSelection, ActiveSeries, Selected
  <2>2. CASE r # <<>> /\ c.series = <<>>
    <3>1. ActiveSeries(c) = Undefined /\ c.activeSeries = Absent
      BY <2>2, ActiveIs
    <3>2. d.activeSeries = Absent
      BY <1>8, <2>2, <3>1 DEF Selected
    <3> QED
      BY <1>8, <2>2, <3>2 DEF KeepsSelection, ActiveSeries
  <2>3. CASE r # <<>> /\ c.series # <<>> /\ ActiveSeries(c) \in Live(r)
    <3>1. d.activeSeries = c.activeSeries
      BY <1>8, <2>3 DEF Selected
    <3>2. ActiveSeries(d) = ActiveSeries(c)
      BY <1>7, <1>8, <2>3, <3>1 DEF ActiveSeries
    <3> QED
      BY <1>8, <2>3, <3>2 DEF KeepsSelection
  <2>4. CASE r # <<>> /\ c.series # <<>> /\ ActiveSeries(c) \notin Live(r)
    <3>1. ActiveSeries(c) # Undefined
      BY <1>12, <2>4
    <3>2. d.activeSeries = Last(r) /\ Last(r) # Absent
      BY <1>8, <1>13, <2>4, <3>1 DEF Selected
    <3> QED
      BY <1>8, <2>4, <3>2 DEF KeepsSelection, ActiveSeries
  <2> QED
    BY <2>1, <2>2, <2>3, <2>4
<1> QED
  BY <1>17, <1>18, <1>19, <1>20, <1>21 DEF Good

LEMMA PointsFields ==
    ASSUME NEW c, Fields(c), NEW n, NEW d, d = WithPoints(c, n),
           NEW r, r = Resized(c.points, n, LastPoint(c))
    PROVE  /\ Fields(d)
           /\ d.series = c.series /\ d.points = r
           /\ d.lastSeries = c.lastSeries /\ d.lastPoint = LastPoint(c) + Added(c.points, n)
           /\ d.mode = Mode(c)
           /\ d.activeSeries = c.activeSeries /\ d.activePoint = c.activePoint
           /\ d.cells = Cells(c, c.series, r)
           /\ d.trends = c.trends /\ d.nextTrend = c.nextTrend
<1>1. PICK last : last = LastPoint(c) + Added(c.points, n)
  OBVIOUS
<1>2. PICK m : m = Mode(c)
  OBVIOUS
<1>3. PICK cells : cells = Cells(c, c.series, r)
  OBVIOUS
<1>4. d = [c EXCEPT !.points = r, !.lastPoint = last, !.mode = m, !.cells = cells]
  BY <1>1, <1>2, <1>3 DEF WithPoints
<1>5. /\ d.series = c.series /\ d.points = r /\ d.lastSeries = c.lastSeries /\ d.lastPoint = last
      /\ d.mode = m /\ d.activeSeries = c.activeSeries /\ d.activePoint = c.activePoint
      /\ d.cells = cells /\ d.trends = c.trends /\ d.nextTrend = c.nextTrend
  BY ONLY <1>4, Fields(c) DEF Fields
<1>6. Fields(d)
  BY ONLY <1>4, Fields(c) DEF Fields
<1> QED
  BY <1>1, <1>2, <1>3, <1>5, <1>6

\* A resizing of the points.
LEMMA PointsKeep ==
    ASSUME NEW c, Good(c), c.mode # "source", NEW n \in Nat,
           LastPoint(c) + Added(c.points, n) <= IdLimit,
           NEW d, d = WithPoints(c, n),
           c.activePoint \in Ids => c.activePoint \in Live(d.points)
    PROVE  Good(d) /\ Keeps(c, d) /\ KeepsTrends(c, d) /\ KeepsSelection(c, d)
<1>1. IsChart(c) /\ Valid(c)
  BY DEF Good
<1>2. PICK r : r = Resized(c.points, n, LastPoint(c))
  OBVIOUS
<1>3. PICK added : added = Added(c.points, n)
  OBVIOUS
<1>4. PICK last : last = LastPoint(c)
  OBVIOUS
<1>5. /\ last \in 0..IdLimit /\ last \in Nat /\ LastSeries(c) \in Ids
      /\ \A i \in Live(c.points) : i <= last
  BY <1>1, <1>4, LastIs, ChartAssumption
<1>6. Distinct(c.points) /\ c.points \in Seq(Ids)
  BY <1>1, ChartIs DEF Valid
<1>7. /\ r \in Seq(Ids) /\ Len(r) = n /\ Distinct(r) /\ added \in Nat
      /\ \A x \in Live(r) : x <= last + added /\ (x \in Live(c.points) \/ x > last)
  BY <1>2, <1>3, <1>4, <1>5, <1>6, ResizedIs
<1>8. /\ Fields(d)
      /\ d.series = c.series /\ d.points = r
      /\ d.lastSeries = c.lastSeries /\ d.lastPoint = last + added
      /\ d.mode = Mode(c)
      /\ d.activeSeries = c.activeSeries /\ d.activePoint = c.activePoint
      /\ d.cells = Cells(c, c.series, r)
      /\ d.trends = c.trends /\ d.nextTrend = c.nextTrend
  <2>1. Fields(c)
    BY <1>1, ChartIs
  <2>2. d = WithPoints(c, n)
    OBVIOUS
  <2> QED
    BY ONLY <1>2, <1>3, <1>4, <2>1, <2>2, PointsFields
<1>9. Owners(d) = Owners(c) /\ Live(r) \subseteq Ids
  BY <1>7, <1>8, LiveIs DEF Owners
<1>10. Mode(c) \in {"sample", "explicit"} /\ Mode(d) = Mode(c) /\ d.mode # "source"
  BY <1>1, <1>8, ChartIs DEF Mode, DefaultMode, Modes
<1>11. last + added \in 0..IdLimit
  BY <1>3, <1>4, <1>5, <1>7, ChartAssumption
<1>12. d.activePoint \in Live(r) \cup {Absent, Undefined}
  <2>1. c.activePoint \in (0..IdLimit) \cup {Undefined}
    BY <1>1, ChartIs
  <2>2. c.activePoint \in Ids \/ c.activePoint \in {Absent, Undefined}
    BY <2>1, ChartAssumption DEF Ids, Absent
  <2> QED
    BY <1>8, <2>2
<1>13. /\ DOMAIN d.cells = Pairs(d.series, d.points)
       /\ d.cells \in [DOMAIN d.cells -> {"user", "sample", Undefined}]
       /\ \A p \in DOMAIN d.cells :
            d.cells[p] = IF p \in DOMAIN c.cells THEN c.cells[p]
                         ELSE IF Mode(c) = "explicit" THEN Undefined ELSE "sample"
  BY <1>1, <1>8, CellsAre
<1>14. IsChart(d)
  <2>1. d.trends \in [Owners(d) -> Seq(Nat \ {0})] /\ d.nextTrend \in [Owners(d) -> Nat \ {0}]
    BY <1>1, <1>8, <1>9, ChartIs
  <2>2. d.mode \in Modes \cup {"none"}
    BY <1>8, <1>10 DEF Modes
  <2>3. /\ d.series \in Seq(Ids) /\ d.lastSeries \in 0..IdLimit /\ d.activeSeries \in 0..IdLimit
        /\ d.activePoint \in (0..IdLimit) \cup {Undefined}
    BY <1>1, <1>8, ChartIs
  <2> QED
    BY <1>7, <1>8, <1>11, <1>13, <2>1, <2>2, <2>3, ChartIf
<1>15. Valid(d)
  <2>1. d.lastPoint >= LargestOf(d.points, 0)
    <3>1. Live(r) \cup {0} \subseteq 0..IdLimit
      BY <1>9, ChartAssumption DEF Ids
    <3>2. LargestOf(r, 0) \in Live(r) \cup {0}
      BY <3>1, MaxIs, ChartAssumption DEF LargestOf
    <3>3. LargestOf(r, 0) <= last + added
      BY <1>5, <1>7, <3>2
    <3>4. LargestOf(r, 0) \in Int /\ last + added \in Int
      BY <1>11, <3>1, <3>2
    <3> QED
      BY <1>8, <3>3, <3>4
  <2>2. d.lastSeries # Absent => d.lastSeries >= LargestOf(d.series, Summary)
    BY <1>1, <1>8 DEF Valid
  <2>3. /\ Distinct(d.series) /\ Summary \notin Live(d.series)
        /\ d.activeSeries \in Live(d.series) \cup {Absent}
    BY <1>1, <1>8 DEF Valid
  <2>4. \A o \in Owners(d) :
          /\ Distinct(d.trends[o])
          /\ \A t \in Live(d.trends[o]) : t < d.nextTrend[o]
    BY <1>1, <1>8, <1>9 DEF Valid
  <2> QED
    BY <1>7, <1>8, <1>10, <1>12, <1>13, <2>1, <2>2, <2>3, <2>4 DEF Valid
<1>16. Keeps(c, d)
  <2>1. last <= LastPoint(d)
    <3>1. d.lastPoint <= LastPoint(d) /\ LastPoint(d) \in 0..IdLimit
      BY <1>14, LastIs
    <3> QED
      BY <1>5, <1>7, <1>8, <3>1
  <2>2. LastSeries(d) = LastSeries(c)
    BY <1>8 DEF LastSeries
  <2> QED
    BY <1>4, <1>5, <1>7, <1>8, <1>10, <1>13, <2>1, <2>2 DEF Keeps, Ids
<1>17. KeepsTrends(c, d)
  BY <1>1, <1>8, <1>9, ChartIs DEF KeepsTrends
<1>18. KeepsSelection(c, d)
  <2>1. ActiveSeries(d) = ActiveSeries(c)
    BY <1>8 DEF ActiveSeries
  <2>2. /\ c.series = <<>> => ActiveSeries(c) = Undefined
        /\ c.series # <<>> => ActiveSeries(c) \in Live(c.series)
    BY <1>1, ActiveIs
  <2> QED
    BY <1>8, <2>1, <2>2 DEF KeepsSelection
<1> QED
  BY <1>14, <1>15, <1>16, <1>17, <1>18 DEF Good

LEMMA SelectKeeps ==
    ASSUME NEW c, Good(c), NEW s \in Live(c.series), NEW d, d = [c EXCEPT !.activeSeries = s]
    PROVE  Good(d) /\ Keeps(c, d) /\ KeepsTrends(c, d) /\ Items(d) = Items(c)
<1>1. IsChart(c) /\ Valid(c)
  BY DEF Good
<1>2. Fields(c)
  BY <1>1, ChartIs
<1>3. d = [c EXCEPT !.activeSeries = s]
  OBVIOUS
<1>4. /\ d.series = c.series /\ d.points = c.points /\ d.mode = c.mode
      /\ d.lastSeries = c.lastSeries /\ d.lastPoint = c.lastPoint
      /\ d.activeSeries = s /\ d.activePoint = c.activePoint
      /\ d.cells = c.cells /\ d.trends = c.trends /\ d.nextTrend = c.nextTrend
  BY ONLY <1>2, <1>3 DEF Fields
<1>5. Fields(d)
  BY ONLY <1>2, <1>3 DEF Fields
<1>6. Owners(d) = Owners(c) /\ Mode(d) = Mode(c)
      /\ LastSeries(d) = LastSeries(c) /\ LastPoint(d) = LastPoint(c)
  BY <1>4 DEF Owners, Mode, DefaultMode, Empty, LastSeries, LastPoint
<1>7. s \in 0..IdLimit
  <2>1. Live(c.series) \subseteq Ids
    BY <1>1, ChartIs
  <2>2. Ids \subseteq 0..IdLimit
    BY ChartAssumption DEF Ids
  <2> QED
    BY <2>1, <2>2
<1>8. IsChart(d)
  BY <1>1, <1>4, <1>5, <1>6, <1>7, ChartIs, ChartIf
<1>9. Valid(d)
  BY <1>1, <1>4, <1>6 DEF Valid
<1>10. LastSeries(c) \in Int /\ LastPoint(c) \in Int
  BY <1>1, LastIs DEF Ids
<1>11. \A o \in Owners(c) : c.nextTrend[o] \in Int
  BY <1>1, ChartIs
<1>12. Items(d) = Items(c)
  BY <1>1, <1>4, <1>6, <1>8, SameItems
<1> QED
  BY <1>4, <1>6, <1>8, <1>9, <1>10, <1>11, <1>12 DEF Good, Keeps, KeepsTrends

-----------------------------------------------------------------------------
(* Trend lines.                                                            *)

LEMMA AppendIs ==
    ASSUME NEW S, NEW s \in Seq(S), Distinct(s), NEW k \in S, k \notin Live(s),
           NEW r, r = Append(s, k)
    PROVE  /\ r \in Seq(S) /\ Len(r) = Len(s) + 1 /\ Len(s) \in Nat /\ Distinct(r)
           /\ \A x \in Live(r) : x \in Live(s) \/ x = k
<1>1. PICK n \in Nat : n = Len(s) /\ DOMAIN s = 1..n
  OBVIOUS
<1>2. /\ r \in Seq(S) /\ Len(r) = n + 1 /\ r[n + 1] = k
      /\ \A i \in 1..n : r[i] = s[i]
  BY <1>1
<1>3. \A i \in 1..n : s[i] \in Live(s)
  BY <1>1, LiveIs
<1>4. \A i \in 1..(n + 1) : i \in 1..n \/ i = n + 1
  OBVIOUS
<1>5. Distinct(r)
  <2> SUFFICES ASSUME NEW i \in 1..(n + 1), NEW j \in 1..(n + 1), r[i] = r[j] PROVE i = j
    BY <1>2 DEF Distinct, IsInjective
  <2>1. CASE i \in 1..n /\ j \in 1..n
    <3>1. s[i] = s[j]
      BY <1>2, <2>1
    <3> QED
      BY <1>1, <2>1, <3>1 DEF Distinct, IsInjective
  <2>2. CASE i \in 1..n /\ j = n + 1
    BY <1>2, <1>3, <2>2
  <2>3. CASE i = n + 1 /\ j \in 1..n
    BY <1>2, <1>3, <2>3
  <2> QED
    BY <1>4, <2>1, <2>2, <2>3
<1>6. ASSUME NEW x \in Live(r) PROVE x \in Live(s) \/ x = k
  <2>1. PICK i \in 1..Len(r) : x = r[i]
    <3>1. r \in Seq(S) /\ x \in Live(r)
      BY <1>2, <1>6
    <3> QED
      BY ONLY <3>1, LiveIs
  <2>2. i \in 1..(n + 1)
    BY <1>2
  <2> QED
    BY <1>2, <1>3, <1>4, <2>1, <2>2
<1> QED
  BY <1>1, <1>2, <1>5, <1>6

LEMMA BodyIs ==
    ASSUME NEW c, IsChart(c), NEW d, IsChart(d),
           d.series = c.series, d.points = c.points, d.mode = c.mode
    PROVE  \E body \in Int : /\ Items(c) = body + TrendCount(c)
                             /\ Items(d) = body + TrendCount(d)
<1>1. PICK n \in Nat : n = Len(c.series)
  BY LengthsAre
<1>2. PICK m \in Nat : m = Len(c.points)
  BY LengthsAre
<1>3. PICK k \in Nat : k = n * m
  OBVIOUS
<1>4. PICK body \in Int : body = n + m + (IF c.mode = "source" THEN 0 ELSE k)
  OBVIOUS
<1>5. Items(c) = n + m + (IF c.mode = "source" THEN 0 ELSE k) + TrendCount(c)
  BY <1>1, <1>2, <1>3, ItemsAre
<1>6. Items(d) = n + m + (IF c.mode = "source" THEN 0 ELSE k) + TrendCount(d)
  BY <1>1, <1>2, <1>3, ItemsAre
<1> QED
  BY <1>4, <1>5, <1>6

\* The series o has the trend lines s, and k is the next number.
WithTrends(c, o, s, k) ==
    [c EXCEPT !.trends = [@ EXCEPT ![o] = s], !.nextTrend = [@ EXCEPT ![o] = k]]

\* No trend line of s has a number that was given before and is not in use.
Continues(c, o, s, k) ==
    /\ s \in Seq(Nat \ {0}) /\ k \in Nat \ {0}
    /\ Distinct(s) /\ c.nextTrend[o] <= k
    /\ \A t \in Live(s) : t < k /\ (t \in Live(c.trends[o]) \/ c.nextTrend[o] <= t)

LEMMA TrendsKeep ==
    ASSUME NEW c, Good(c), NEW o \in Owners(c), NEW s, NEW k, Continues(c, o, s, k),
           NEW d, d = WithTrends(c, o, s, k)
    PROVE  /\ Good(d) /\ Keeps(c, d) /\ KeepsTrends(c, d) /\ KeepsSelection(c, d)
           /\ Len(c.trends[o]) \in Nat
           /\ Items(d) + Len(c.trends[o]) = Items(c) + Len(s)
<1>1. /\ s \in Seq(Nat \ {0}) /\ k \in Nat \ {0}
      /\ Distinct(s) /\ c.nextTrend[o] <= k
      /\ \A t \in Live(s) : t < k /\ (t \in Live(c.trends[o]) \/ c.nextTrend[o] <= t)
  BY DEF Continues
<1>2. IsChart(c) /\ Valid(c)
  BY DEF Good
<1>3. Fields(c)
  BY <1>2, ChartIs
<1>4. PICK t : t = [c.trends EXCEPT ![o] = s]
  OBVIOUS
<1>5. PICK u : u = [c.nextTrend EXCEPT ![o] = k]
  OBVIOUS
<1>6. d = [c EXCEPT !.trends = t, !.nextTrend = u]
  BY <1>4, <1>5 DEF WithTrends
<1>7. /\ d.series = c.series /\ d.points = c.points /\ d.mode = c.mode
      /\ d.lastSeries = c.lastSeries /\ d.lastPoint = c.lastPoint
      /\ d.activeSeries = c.activeSeries /\ d.activePoint = c.activePoint
      /\ d.cells = c.cells /\ d.trends = t /\ d.nextTrend = u
  BY ONLY <1>3, <1>6 DEF Fields
<1>8. Fields(d)
  BY ONLY <1>3, <1>6 DEF Fields
<1>9. Owners(d) = Owners(c) /\ Mode(d) = Mode(c) /\ ActiveSeries(d) = ActiveSeries(c)
      /\ LastSeries(d) = LastSeries(c) /\ LastPoint(d) = LastPoint(c)
  BY <1>7 DEF Owners, Mode, DefaultMode, Empty, LastSeries, LastPoint, ActiveSeries
<1>10. c.trends \in [Owners(c) -> Seq(Nat \ {0})] /\ c.nextTrend \in [Owners(c) -> Nat \ {0}]
  BY <1>2, ChartIs
<1>11. d.trends \in [Owners(d) -> Seq(Nat \ {0})] /\ d.nextTrend \in [Owners(d) -> Nat \ {0}]
  BY <1>1, <1>4, <1>5, <1>7, <1>9, <1>10
<1>12. ASSUME NEW p \in Owners(c)
       PROVE  /\ d.trends[p] = IF p = o THEN s ELSE c.trends[p]
              /\ d.nextTrend[p] = IF p = o THEN k ELSE c.nextTrend[p]
  BY <1>4, <1>5, <1>7, <1>10
<1>13. IsChart(d)
  BY <1>2, <1>7, <1>8, <1>9, <1>11, ChartIs, ChartIf
<1>14. Valid(d)
  <2>1. \A p \in Owners(d) :
          /\ Distinct(d.trends[p])
          /\ \A x \in Live(d.trends[p]) : x < d.nextTrend[p]
    BY <1>1, <1>2, <1>9, <1>12 DEF Valid
  <2> QED
    BY <1>2, <1>7, <2>1 DEF Valid
<1>15. Keeps(c, d)
  <2>1. LastSeries(c) \in Int /\ LastPoint(c) \in Int
    BY <1>2, LastIs DEF Ids
  <2> QED
    BY <1>7, <1>9, <2>1 DEF Keeps
<1>16. KeepsTrends(c, d)
  <2>1. ASSUME NEW p \in Owners(c)
        PROVE  /\ c.nextTrend[p] <= d.nextTrend[p]
               /\ \A x \in Live(d.trends[p]) : x \in Live(c.trends[p]) \/ c.nextTrend[p] <= x
    <3>1. CASE p = o
      BY <1>1, <1>12, <3>1
    <3>2. CASE p # o
      <4>1. c.nextTrend[p] \in Nat
        BY <1>10
      <4> QED
        BY <1>12, <3>2, <4>1
    <3> QED
      BY <3>1, <3>2
  <2> QED
    BY <1>9, <2>1 DEF KeepsTrends
<1>17. KeepsSelection(c, d)
  <2>1. /\ c.series = <<>> => ActiveSeries(c) = Undefined
        /\ c.series # <<>> => ActiveSeries(c) \in Live(c.series)
    BY ActiveIs
  <2> QED
    BY <1>7, <1>9, <2>1 DEF KeepsSelection
<1>18. Items(d) + Len(c.trends[o]) = Items(c) + Len(s)
  <2>1. TrendCount(d) + Len(c.trends[o]) = TrendCount(c) + Len(d.trends[o])
    <3>1. \A p \in Owners(c) \ {o} : Len(d.trends[p]) = Len(c.trends[p])
      BY <1>12
    <3>2. IsChart(c) /\ Owners(d) = Owners(c) /\ o \in Owners(c)
      BY <1>2, <1>9
    <3> QED
      BY ONLY <1>13, <3>1, <3>2, TrendCountStep
  <2>2. d.trends[o] = s
    BY <1>12
  <2>3. PICK body \in Int : Items(c) = body + TrendCount(c) /\ Items(d) = body + TrendCount(d)
    BY <1>2, <1>7, <1>13, BodyIs
  <2>5. TrendCount(c) \in Nat /\ TrendCount(d) \in Nat
    BY <1>2, <1>13, ItemsAre
  <2>6. Len(c.trends[o]) \in Nat /\ Len(s) \in Nat
    BY <1>1, <1>2, OwnersAreFinite
  <2>7. PICK a \in Nat : a = Len(c.trends[o])
    BY <2>6
  <2>8. PICK b \in Nat : b = Len(s)
    BY <2>6
  <2>9. TrendCount(d) + a = TrendCount(c) + b
    BY <2>1, <2>2, <2>7, <2>8
  <2>10. Items(d) + a = Items(c) + b
    BY ONLY <2>3, <2>5, <2>9, a \in Nat, b \in Nat, body \in Int
  <2> QED
    BY <2>7, <2>8, <2>10
<1> QED
  BY <1>2, <1>13, <1>14, <1>15, <1>16, <1>17, <1>18, OwnersAreFinite DEF Good

LEMMA AddKeeps ==
    ASSUME NEW c, Good(c), NEW o \in Owners(c),
           NEW d, d = [c EXCEPT !.trends[o] = Append(@, c.nextTrend[o]), !.nextTrend[o] = @ + 1]
    PROVE  /\ Good(d) /\ Keeps(c, d) /\ KeepsTrends(c, d) /\ KeepsSelection(c, d)
           /\ Items(d) = Items(c) + 1
<1>1. IsChart(c) /\ Valid(c)
  BY DEF Good
<1>2. PICK k : k = c.nextTrend[o]
  OBVIOUS
<1>3. PICK s : s = c.trends[o]
  OBVIOUS
<1>4. k \in Nat \ {0} /\ s \in Seq(Nat \ {0})
  BY <1>1, <1>2, <1>3, ChartIs
<1>5. Distinct(s) /\ \A t \in Live(s) : t < k
  BY <1>1, <1>2, <1>3 DEF Valid
<1>6. PICK r : r = Append(s, k)
  OBVIOUS
<1>7. PICK S : S = Nat \ {0}
  OBVIOUS
<1>8. /\ r \in Seq(S) /\ Len(r) = Len(s) + 1 /\ Len(s) \in Nat /\ Distinct(r)
      /\ \A t \in Live(r) : t \in Live(s) \/ t = k
  <2>1. s \in Seq(S) /\ k \in S /\ k \notin Live(s) /\ Distinct(s)
    BY <1>4, <1>5, <1>7
  <2> QED
    BY ONLY <1>6, <2>1, AppendIs
<1>9. Continues(c, o, r, k + 1)
  <2>1. \A t \in Live(s) : t \in Nat
    BY <1>4, LiveIs
  <2>2. \A t \in Live(r) : t < k + 1 /\ (t \in Live(c.trends[o]) \/ c.nextTrend[o] <= t)
    BY <1>4, <1>2, <1>3, <1>5, <1>8, <2>1
  <2>3. k + 1 \in Nat \ {0} /\ c.nextTrend[o] <= k + 1
    BY <1>4, <1>2
  <2> QED
    BY <1>7, <1>8, <2>2, <2>3 DEF Continues
<1>10. d = WithTrends(c, o, r, k + 1)
  BY <1>2, <1>3, <1>6 DEF WithTrends
<1>11. /\ Good(d) /\ Keeps(c, d) /\ KeepsTrends(c, d) /\ KeepsSelection(c, d)
       /\ Items(d) + Len(c.trends[o]) = Items(c) + Len(r)
  BY <1>9, <1>10, TrendsKeep
<1>12. Items(d) \in Nat /\ Items(c) \in Nat
  <2>1. IsChart(d)
    BY <1>11 DEF Good
  <2> QED
    BY <1>1, <2>1, ItemsAre
<1> QED
  <2>1. PICK n \in Nat : n = Len(s)
    BY <1>8
  <2>2. Items(d) + n = Items(c) + (n + 1)
    BY <1>3, <1>8, <1>11, <2>1
  <2> QED
    BY <1>11, <1>12, <2>2

LEMMA RestIs ==
    ASSUME NEW S, NEW s \in Seq(S), NEW n \in Nat, n = Len(s), NEW i \in 1..n,
           NEW b, b = SubSeq(s, i + 1, n)
    PROVE  b \in Seq(S) /\ Len(b) = n - i /\ \A j \in 1..(n - i) : b[j] = s[i + j]
<1>1. PICK m \in Nat : m = i + 1
  OBVIOUS
<1>2. b = SubSeq(s, m, n)
  BY <1>1
<1>3. Len(b) = n - i
  BY <1>1, <1>2
<1>4. \A j \in 1..(n - i) : b[j] = s[m + j - 1]
  BY <1>1, <1>2
<1>5. b \in Seq(S)
  BY <1>1, <1>2
<1> QED
  BY <1>1, <1>3, <1>4, <1>5

LEMMA JoinIs ==
    ASSUME NEW S, NEW a \in Seq(S), NEW b \in Seq(S), NEW r, r = a \o b
    PROVE  /\ r \in Seq(S) /\ Len(r) = Len(a) + Len(b)
           /\ \A j \in 1..Len(a) : r[j] = a[j]
           /\ \A j \in 1..Len(b) : r[Len(a) + j] = b[j]
<1>1. Len(a) \in Nat /\ Len(b) \in Nat
  OBVIOUS
<1> QED
  BY <1>1

LEMMA RemoveIs ==
    ASSUME NEW S, NEW s \in Seq(S), NEW i \in DOMAIN s, Distinct(s), NEW r, r = RemoveAt(s, i)
    PROVE  /\ r \in Seq(S) /\ Len(s) = Len(r) + 1 /\ Distinct(r)
           /\ Live(r) \subseteq Live(s)
<1>1. PICK n \in Nat : n = Len(s) /\ DOMAIN s = 1..n
  OBVIOUS
<1>2. PICK a : a = SubSeq(s, 1, i - 1)
  OBVIOUS
<1>3. PICK b : b = SubSeq(s, i + 1, n)
  OBVIOUS
<1>4. r = a \o b
  BY <1>1, <1>2, <1>3 DEF RemoveAt
<1>5. i \in 1..n
  BY <1>1
<1>6. a \in Seq(S) /\ Len(a) = i - 1 /\ \A j \in 1..(i - 1) : a[j] = s[j]
  BY <1>1, <1>2, <1>5
<1>7. b \in Seq(S) /\ Len(b) = n - i /\ \A j \in 1..(n - i) : b[j] = s[i + j]
  BY <1>1, <1>3, <1>5, RestIs
<1>8. /\ r \in Seq(S) /\ Len(r) = Len(a) + Len(b)
      /\ \A j \in 1..Len(a) : r[j] = a[j]
      /\ \A j \in 1..Len(b) : r[Len(a) + j] = b[j]
  <2>1. a \in Seq(S) /\ b \in Seq(S)
    BY <1>6, <1>7
  <2> QED
    BY ONLY <1>4, <2>1, JoinIs
<1>9. r \in Seq(S) /\ Len(r) = n - 1
  BY <1>5, <1>6, <1>7, <1>8
<1>10. ASSUME NEW j \in 1..(n - 1)
      PROVE  r[j] = s[IF j < i THEN j ELSE j + 1]
  <2>1. CASE j < i
    <3>1. j \in 1..(i - 1)
      BY <2>1, <1>5
    <3> QED
      BY <1>4, <1>6, <1>7, <2>1, <3>1
  <2>2. CASE ~(j < i)
    <3>1. j - (i - 1) \in 1..(n - i) /\ i + (j - (i - 1)) = j + 1
      BY <2>2, <1>5
    <3>2. PICK m \in 1..(n - i) : m = j - (i - 1)
      BY <3>1
    <3>3. j = Len(a) + m /\ m \in 1..Len(b)
      BY <1>5, <1>6, <1>7, <3>2
    <3>4. r[j] = b[m]
      BY <1>8, <3>3
    <3> QED
      BY <1>7, <2>2, <3>1, <3>2, <3>4
  <2> QED
    BY <2>1, <2>2
<1>11. Distinct(r)
  <2> SUFFICES ASSUME NEW j \in 1..(n - 1), NEW k \in 1..(n - 1), r[j] = r[k] PROVE j = k
    BY <1>5, <1>9 DEF Distinct, IsInjective
  <2>1. PICK x \in 1..n : x = IF j < i THEN j ELSE j + 1
    BY <1>5
  <2>2. PICK y \in 1..n : y = IF k < i THEN k ELSE k + 1
    BY <1>5
  <2>3. s[x] = s[y]
    BY <1>10, <2>1, <2>2
  <2>4. x = y
    BY <1>1, <2>3 DEF Distinct, IsInjective
  <2> QED
    BY <1>5, <2>1, <2>2, <2>4
<1>12. ASSUME NEW t \in Live(r) PROVE t \in Live(s)
  <2>1. PICK j \in 1..Len(r) : t = r[j]
    BY <1>9, LiveIs
  <2>2. j \in 1..(n - 1)
    BY <1>9
  <2>3. (IF j < i THEN j ELSE j + 1) \in 1..Len(s)
    BY <1>1, <1>5, <2>2
  <2> QED
    BY <1>10, <2>1, <2>2, <2>3, LiveIs
<1> QED
  BY <1>1, <1>5, <1>9, <1>11, <1>12

LEMMA DeleteKeeps ==
    ASSUME NEW c, Good(c), NEW o \in Owners(c), NEW i \in DOMAIN c.trends[o],
           NEW d, d = [c EXCEPT !.trends[o] = RemoveAt(@, i)]
    PROVE  /\ Good(d) /\ Keeps(c, d) /\ KeepsTrends(c, d) /\ KeepsSelection(c, d)
           /\ Items(d) <= Items(c)
<1>1. IsChart(c) /\ Valid(c)
  BY DEF Good
<1>2. PICK k \in Nat \ {0} : k = c.nextTrend[o]
  BY <1>1, ChartIs
<1>3. PICK s \in Seq(Nat \ {0}) : s = c.trends[o]
  BY <1>1, ChartIs
<1>4. Distinct(s) /\ \A t \in Live(s) : t < k
  BY <1>1, <1>2, <1>3 DEF Valid
<1>5. PICK r : r = RemoveAt(s, i)
  OBVIOUS
<1>6. /\ r \in Seq(Nat \ {0}) /\ Len(s) = Len(r) + 1 /\ Distinct(r)
      /\ Live(r) \subseteq Live(s)
  <2>1. PICK S : S = Nat \ {0}
    OBVIOUS
  <2>2. s \in Seq(S) /\ i \in DOMAIN s /\ Distinct(s)
    BY <1>3, <1>4, <2>1
  <2>3. r \in Seq(S) /\ Len(s) = Len(r) + 1 /\ Distinct(r) /\ Live(r) \subseteq Live(s)
    BY ONLY <1>5, <2>2, RemoveIs
  <2> QED
    BY <2>1, <2>3
<1>7. d = WithTrends(c, o, r, k)
  <2>1. PICK t : t = [c.trends EXCEPT ![o] = r]
    OBVIOUS
  <2>2. PICK u : u = [c.nextTrend EXCEPT ![o] = k]
    OBVIOUS
  <2>3. u = c.nextTrend
    BY <1>1, <1>2, <2>2, ChartIs
  <2>4. d = [c EXCEPT !.trends = t]
    BY <1>3, <1>5, <2>1
  <2>5. Fields(c)
    BY <1>1, ChartIs
  <2>6. d = [c EXCEPT !.trends = t, !.nextTrend = u]
    BY ONLY <2>3, <2>4, <2>5 DEF Fields
  <2> QED
    BY <2>1, <2>2, <2>6 DEF WithTrends
<1>8. /\ Good(d) /\ Keeps(c, d) /\ KeepsTrends(c, d) /\ KeepsSelection(c, d)
      /\ Items(d) + Len(c.trends[o]) = Items(c) + Len(r)
  <2>1. c.nextTrend[o] <= k /\ k \in Nat \ {0}
    BY <1>2
  <2>2. \A t \in Live(r) : t < k /\ (t \in Live(c.trends[o]) \/ c.nextTrend[o] <= t)
    BY <1>3, <1>4, <1>6
  <2>3. Continues(c, o, r, k)
    BY <1>6, <2>1, <2>2 DEF Continues
  <2> QED
    BY <1>7, <2>3, TrendsKeep
<1>9. Items(d) \in Nat /\ Items(c) \in Nat /\ Len(r) \in Nat
  <2>1. IsChart(d)
    BY <1>8 DEF Good
  <2>2. Len(r) \in Nat
    BY <1>6
  <2> QED
    BY <1>1, <2>1, <2>2, ItemsAre
<1> QED
  BY <1>3, <1>6, <1>8, <1>9

-----------------------------------------------------------------------------
(* The inductive invariant.                                                *)

CTypes ==
    /\ chart = [n \in Charts |-> chart[n]]
    /\ \A n \in Charts : Good(chart[n])
    /\ used \in [Charts -> [series : SUBSET Ids, points : SUBSET Ids]]
    /\ gone \in [Charts -> SUBSET (Ids \X Nat)]

\* The history covers every id there ever was.
UsedUpToLast ==
    \A n \in Charts :
        /\ \A i \in used[n].series : i <= LastSeries(chart[n])
        /\ \A i \in used[n].points : i <= LastPoint(chart[n])

\* A reference that is gone names a series that cannot come back, or a number
\* below the next one that no trend line of the series has.
GoneBelowNext ==
    \A n \in Charts : \A r \in gone[n] :
        /\ r[1] <= LastSeries(chart[n])
        /\ r[1] \in Owners(chart[n]) =>
             /\ r[2] < chart[n].nextTrend[r[1]]
             /\ r[2] \notin Live(chart[n].trends[r[1]])

WithinBudget == Total(chart, Charts) <= Budget

CInv == CTypes /\ UsedUpToLast /\ GoneBelowNext /\ WithinBudget

LEMMA HeldIs == \A S : Held(S) = Total(chart, S)
BY DEF Held, Total

LEMMA ReferenceIs ==
    ASSUME NEW c, NEW r
    PROVE  r \in References(c) <=>
             \E o \in Owners(c) : \E t \in Live(c.trends[o]) : r = <<o, t>>
BY DEF References

\* One chart is replaced by one that keeps what it had.
LEMMA InstallKeeps ==
    ASSUME CInv, NEW n \in Charts, NEW c, c = chart[n], NEW d, Good(d), Keeps(c, d), KeepsTrends(c, d),
           Items(d) + Total(chart, Charts \ {n}) <= Budget, Install(n, d)
    PROVE  CInv'
<1>1. /\ chart = [m \in Charts |-> chart[m]]
      /\ \A m \in Charts : Good(chart[m])
      /\ used \in [Charts -> [series : SUBSET Ids, points : SUBSET Ids]]
      /\ gone \in [Charts -> SUBSET (Ids \X Nat)]
  BY DEF CInv, CTypes
<1>2. /\ chart' = [chart EXCEPT ![n] = d]
      /\ used' = [used EXCEPT ![n] = [series |-> @.series \cup Live(d.series),
                                      points |-> @.points \cup Live(d.points)]]
      /\ gone' = [gone EXCEPT ![n] = @ \cup (References(c) \ References(d))]
  BY DEF Install
<1>3. /\ \A m \in Charts : chart'[m] = IF m = n THEN d ELSE chart[m]
      /\ \A m \in Charts \ {n} : used'[m] = used[m] /\ gone'[m] = gone[m]
      /\ used'[n].series = used[n].series \cup Live(d.series)
      /\ used'[n].points = used[n].points \cup Live(d.points)
      /\ gone'[n] = gone[n] \cup (References(c) \ References(d))
      /\ chart' = [m \in Charts |-> chart'[m]]
  BY <1>1, <1>2
<1>4. Good(c) /\ IsChart(c) /\ Valid(c) /\ IsChart(d) /\ Valid(d)
  BY <1>1 DEF Good
<1>5. /\ LastSeries(c) \in Int /\ LastPoint(c) \in Int /\ LastSeries(d) \in Int /\ LastPoint(d) \in Int
      /\ LastSeries(c) <= LastSeries(d) /\ LastPoint(c) <= LastPoint(d)
      /\ \A i \in Live(d.series) : i \in Ids /\ i <= LastSeries(d)
      /\ \A i \in Live(d.points) : i \in Ids /\ i <= LastPoint(d)
      /\ \A o \in Owners(c) : o \in Ids /\ o <= LastSeries(c)
  BY <1>4, LastIs, ChartIs DEF Keeps, Ids
<1>6. ASSUME NEW r \in References(c) \ References(d)
      PROVE  /\ r \in Ids \X Nat /\ r[1] <= LastSeries(c)
             /\ r[1] \in Owners(c) /\ r[2] \in Live(c.trends[r[1]])
             /\ r[1] \in Owners(d) => r[2] \notin Live(d.trends[r[1]])
  <2>1. PICK o \in Owners(c) : \E t \in Live(c.trends[o]) : r = <<o, t>>
    BY ReferenceIs
  <2>5. PICK t \in Live(c.trends[o]) : r = <<o, t>>
    BY <2>1
  <2>2. c.trends[o] \in Seq(Nat \ {0})
    BY <1>4, ChartIs
  <2>3. t \in Nat
    BY <2>2, LiveIs
  <2>4. o \in Owners(d) => t \notin Live(d.trends[o])
    BY <2>5, ReferenceIs
  <2> QED
    BY <1>5, <2>3, <2>4, <2>5
<1>7. CTypes'
  <2>1. \A m \in Charts : Good(chart'[m])
    BY <1>1, <1>3
  <2>2. used' \in [Charts -> [series : SUBSET Ids, points : SUBSET Ids]]
    <3>1. PICK u : u = [series |-> used[n].series \cup Live(d.series),
                        points |-> used[n].points \cup Live(d.points)]
      OBVIOUS
    <3>2. u \in [series : SUBSET Ids, points : SUBSET Ids]
      <4>1. Live(d.series) \subseteq Ids /\ Live(d.points) \subseteq Ids
        BY <1>5
      <4>2. used[n].series \subseteq Ids /\ used[n].points \subseteq Ids
        BY <1>1
      <4> QED
        BY <3>1, <4>1, <4>2
    <3>3. used' = [used EXCEPT ![n] = u]
      BY <1>2, <3>1
    <3> QED
      BY <1>1, <3>2, <3>3
  <2>3. gone' \in [Charts -> SUBSET (Ids \X Nat)]
    BY <1>1, <1>2, <1>6
  <2> QED
    BY <1>3, <2>1, <2>2, <2>3 DEF CTypes
<1>8. UsedUpToLast'
  <2>1. \A m \in Charts : /\ \A i \in used[m].series : i \in Ids /\ i <= LastSeries(chart[m])
                          /\ \A i \in used[m].points : i \in Ids /\ i <= LastPoint(chart[m])
    BY <1>1 DEF CInv, UsedUpToLast
  <2>2. /\ \A i \in used'[n].series : i <= LastSeries(d)
        /\ \A i \in used'[n].points : i <= LastPoint(d)
    BY <1>3, <1>5, <2>1 DEF Ids
  <2>3. \A m \in Charts : /\ \A i \in used'[m].series : i <= LastSeries(chart'[m])
                          /\ \A i \in used'[m].points : i <= LastPoint(chart'[m])
    BY <1>3, <2>1, <2>2
  <2> QED
    BY <2>3 DEF UsedUpToLast
<1>9. GoneBelowNext'
  <2>1. \A m \in Charts : \A r \in gone[m] :
          /\ r[1] <= LastSeries(chart[m])
          /\ r[1] \in Owners(chart[m]) =>
               /\ r[2] < chart[m].nextTrend[r[1]]
               /\ r[2] \notin Live(chart[m].trends[r[1]])
    BY DEF CInv, GoneBelowNext
  <2>2. ASSUME NEW o \in Owners(c)
        PROVE  c.nextTrend[o] \in Int /\ \A t \in Live(c.trends[o]) : t < c.nextTrend[o]
    BY <1>4, ChartIs DEF Valid
  <2>3. ASSUME NEW o \in Owners(d)
        PROVE  /\ d.nextTrend[o] \in Int
               /\ o \in Owners(c) \/ o > LastSeries(c)
    <3>1. d.nextTrend \in [Owners(d) -> Nat \ {0}]
      BY <1>4, ChartIs
    <3>2. \A i \in Live(d.series) : i \in Live(c.series) \/ i > LastSeries(c)
      BY DEF Keeps
    <3> QED
      BY <3>1, <3>2 DEF Owners
  <2>4. ASSUME NEW r \in gone'[n]
        PROVE  /\ r[1] <= LastSeries(d)
               /\ r[1] \in Owners(d) =>
                    /\ r[2] < d.nextTrend[r[1]]
                    /\ r[2] \notin Live(d.trends[r[1]])
    <3>1. r \in Ids \X Nat /\ r[1] \in Int /\ r[2] \in Int
      <4>1. r \in Ids \X Nat
        BY <1>1, <1>3, <1>6
      <4> QED
        BY <4>1 DEF Ids
    <3>2. r[1] <= LastSeries(c)
      BY <1>3, <1>6, <2>1
    <3>3. r[1] \in Owners(c) => r[2] < c.nextTrend[r[1]]
      BY <1>3, <1>6, <2>1, <2>2
    <3>4. ASSUME r[1] \in Owners(d)
          PROVE  /\ r[2] < d.nextTrend[r[1]]
                 /\ r[2] \notin Live(d.trends[r[1]])
      <4>1. r[1] \in Owners(c)
        BY <1>5, <2>3, <3>1, <3>2, <3>4
      <4>2. /\ c.nextTrend[r[1]] <= d.nextTrend[r[1]]
            /\ \A t \in Live(d.trends[r[1]]) :
                 t \in Live(c.trends[r[1]]) \/ c.nextTrend[r[1]] <= t
        BY <3>4, <4>1 DEF KeepsTrends
      <4>3. c.nextTrend[r[1]] \in Int /\ d.nextTrend[r[1]] \in Int
        BY <2>2, <2>3, <3>4, <4>1
      <4>4. r[2] < c.nextTrend[r[1]]
        BY <3>3, <4>1
      <4>5. r[2] \in Live(c.trends[r[1]]) => r[2] \notin Live(d.trends[r[1]])
        BY <1>3, <1>6, <2>1, <3>4, <4>1
      <4>6. r[2] \notin Live(d.trends[r[1]])
        BY <3>1, <4>2, <4>3, <4>4, <4>5
      <4> QED
        BY <3>1, <4>2, <4>3, <4>4, <4>6
    <3> QED
      BY <1>5, <3>1, <3>2, <3>4
  <2>5. \A m \in Charts : \A r \in gone'[m] :
          /\ r[1] <= LastSeries(chart'[m])
          /\ r[1] \in Owners(chart'[m]) =>
               /\ r[2] < chart'[m].nextTrend[r[1]]
               /\ r[2] \notin Live(chart'[m].trends[r[1]])
    <3> SUFFICES ASSUME NEW m \in Charts, NEW r \in gone'[m]
                 PROVE  /\ r[1] <= LastSeries(chart'[m])
                        /\ r[1] \in Owners(chart'[m]) =>
                             /\ r[2] < chart'[m].nextTrend[r[1]]
                             /\ r[2] \notin Live(chart'[m].trends[r[1]])
      OBVIOUS
    <3>1. CASE m = n
      <4>1. chart'[m] = d /\ r \in gone'[n]
        BY <1>3, <3>1
      <4> QED
        BY <2>4, <4>1
    <3>2. CASE m # n
      <4>1. chart'[m] = chart[m] /\ r \in gone[m]
        BY <1>3, <3>2
      <4> QED
        BY <2>1, <4>1
    <3> QED
      BY <3>1, <3>2
  <2> QED
    BY <2>5 DEF GoneBelowNext
<1>10. WithinBudget'
  <2>1. PICK q : q = chart'
    OBVIOUS
  <2>2. \A m \in Charts : IsChart(q[m])
    BY <1>1, <1>3, <2>1 DEF Good
  <2>3. Total(q, Charts) = Items(q[n]) + Total(q, Charts \ {n})
    BY <2>2, TotalStep
  <2>4. Total(q, Charts \ {n}) = Total(chart, Charts \ {n})
    BY <1>3, <2>1, TotalAgree
  <2>5. Total(q, Charts) <= Budget
    BY <1>3, <2>1, <2>3, <2>4
  <2> QED
    BY <2>1, <2>5 DEF WithinBudget
<1> QED
  BY <1>7, <1>8, <1>9, <1>10 DEF CInv

\* What a step does to the chart m: only SetActiveSeries selects.
KeptInStep(m) ==
    /\ Good(chart'[m]) /\ Keeps(chart[m], chart'[m])
    /\ KeepsSelection(chart[m], chart'[m]) \/ \E s \in Ids : SetActiveSeries(m, s)

LEMMA SameKeeps ==
    ASSUME NEW c, Good(c)
    PROVE  Keeps(c, c) /\ KeepsSelection(c, c)
<1>1. IsChart(c)
  BY DEF Good
<1>2. LastSeries(c) \in Int /\ LastPoint(c) \in Int
  BY <1>1, LastIs DEF Ids
<1>3. /\ c.series = <<>> => ActiveSeries(c) = Undefined
      /\ c.series # <<>> => ActiveSeries(c) \in Live(c.series)
  BY ActiveIs
<1> QED
  BY <1>2, <1>3 DEF Keeps, KeepsSelection

LEMMA InstallStep ==
    ASSUME CInv, NEW n \in Charts, NEW d, Good(d), Keeps(chart[n], d), KeepsTrends(chart[n], d),
           Items(d) + Total(chart, Charts \ {n}) <= Budget, Install(n, d),
           KeepsSelection(chart[n], d) \/ \E s \in Ids : SetActiveSeries(n, s)
    PROVE  CInv' /\ \A m \in Charts : KeptInStep(m)
<1>1. CInv'
  BY InstallKeeps
<1>2. chart' = [chart EXCEPT ![n] = d] /\ chart = [m \in Charts |-> chart[m]]
  BY DEF Install, CInv, CTypes
<1>3. \A m \in Charts : chart'[m] = IF m = n THEN d ELSE chart[m]
  BY <1>2
<1>4. ASSUME NEW m \in Charts PROVE KeptInStep(m)
  <2>1. CASE m = n
    <3>1. chart'[m] = d
      BY <1>3, <2>1
    <3> QED
      BY <2>1, <3>1 DEF KeptInStep
  <2>2. CASE m # n
    <3>1. chart'[m] = chart[m] /\ Good(chart[m])
      BY <1>3, <2>2 DEF CInv, CTypes
    <3> QED
      BY <3>1, SameKeeps DEF KeptInStep
  <2> QED
    BY <2>1, <2>2
<1> QED
  BY <1>1, <1>4

LEMMA BudgetOf ==
    ASSUME CInv, NEW n \in Charts
    PROVE  /\ Items(chart[n]) + Total(chart, Charts \ {n}) <= Budget
           /\ Items(chart[n]) \in Nat /\ Total(chart, Charts \ {n}) \in Nat /\ Budget \in Nat
           /\ Good(chart[n])
<1>1. \A m \in Charts : IsChart(chart[m])
  BY DEF CInv, CTypes, Good
<1>2. /\ Total(chart, Charts) = Items(chart[n]) + Total(chart, Charts \ {n})
      /\ Items(chart[n]) \in Nat /\ Total(chart, Charts \ {n}) \in Nat
  BY <1>1, TotalStep
<1> QED
  BY <1>2, ChartAssumption DEF CInv, CTypes, WithinBudget

LEMMA FitsIs ==
    ASSUME CInv, NEW n \in Charts, NEW d, Good(d), NEW extra \in Nat, Fits(n, d, extra)
    PROVE  Items(d) + extra + Total(chart, Charts \ {n}) <= Budget /\ Items(d) \in Nat
<1>1. extra + Items(d) + Total(chart, Charts \ {n}) <= Budget
  BY HeldIs DEF Fits
<1>2. Items(d) \in Nat /\ Total(chart, Charts \ {n}) \in Nat
  BY BudgetOf, ItemsAre DEF Good
<1> QED
  BY <1>1, <1>2, ChartAssumption

LEMMA SeriesCountStep ==
    ASSUME CInv, NEW n \in Charts, NEW count \in Nat, SetSeriesCount(n, count)
    PROVE  CInv' /\ \A m \in Charts : KeptInStep(m)
<1>1. PICK d : d = WithSeries(chart[n], count)
  OBVIOUS
<1>2. /\ chart[n].mode # "source" /\ Fits(n, d, 0)
      /\ LastSeries(chart[n]) + Added(chart[n].series, count) <= IdLimit
      /\ Install(n, d)
  BY <1>1 DEF SetSeriesCount
<1>3. Good(d) /\ Keeps(chart[n], d) /\ KeepsTrends(chart[n], d) /\ KeepsSelection(chart[n], d)
  BY <1>1, <1>2, BudgetOf, SeriesKeep
<1>4. Items(d) + Total(chart, Charts \ {n}) <= Budget
  BY <1>2, <1>3, FitsIs, BudgetOf
<1> QED
  BY <1>2, <1>3, <1>4, InstallStep

LEMMA PointCountStep ==
    ASSUME CInv, NEW n \in Charts, NEW count \in Nat, SetPointCount(n, count)
    PROVE  CInv' /\ \A m \in Charts : KeptInStep(m)
<1>1. PICK d : d = WithPoints(chart[n], count)
  OBVIOUS
<1>2. /\ chart[n].mode # "source" /\ Fits(n, d, 0)
      /\ chart[n].activePoint \in Ids => chart[n].activePoint \in Live(d.points)
      /\ LastPoint(chart[n]) + Added(chart[n].points, count) <= IdLimit
      /\ Install(n, d)
  BY <1>1 DEF SetPointCount
<1>3. Good(d) /\ Keeps(chart[n], d) /\ KeepsTrends(chart[n], d) /\ KeepsSelection(chart[n], d)
  BY <1>1, <1>2, BudgetOf, PointsKeep
<1>4. Items(d) + Total(chart, Charts \ {n}) <= Budget
  BY <1>2, <1>3, FitsIs, BudgetOf
<1> QED
  BY <1>2, <1>3, <1>4, InstallStep

LEMMA SelectStep ==
    ASSUME CInv, NEW n \in Charts, NEW s \in Ids, SetActiveSeries(n, s)
    PROVE  CInv' /\ \A m \in Charts : KeptInStep(m)
<1>1. PICK d : d = [chart[n] EXCEPT !.activeSeries = s]
  OBVIOUS
<1>2. s \in Live(chart[n].series) /\ Install(n, d)
  BY <1>1 DEF SetActiveSeries
<1>3. Good(d) /\ Keeps(chart[n], d) /\ KeepsTrends(chart[n], d) /\ Items(d) = Items(chart[n])
  BY <1>1, <1>2, BudgetOf, SelectKeeps
<1>4. Items(d) + Total(chart, Charts \ {n}) <= Budget
  BY <1>3, BudgetOf
<1> QED
  BY <1>2, <1>3, <1>4, InstallStep

LEMMA AddStep ==
    ASSUME CInv, NEW n \in Charts, NEW o, AddTrendline(n, o)
    PROVE  CInv' /\ \A m \in Charts : KeptInStep(m)
<1>1. PICK c : c = chart[n]
  OBVIOUS
<1>2. PICK d : d = [c EXCEPT !.trends[o] = Append(@, c.nextTrend[o]), !.nextTrend[o] = @ + 1]
  OBVIOUS
<1>3. o \in Owners(c) /\ Fits(n, c, 1) /\ Install(n, d) /\ Good(c)
  BY <1>1, <1>2, BudgetOf DEF AddTrendline
<1>4. /\ Good(d) /\ Keeps(c, d) /\ KeepsTrends(c, d) /\ KeepsSelection(c, d)
      /\ Items(d) = Items(c) + 1
  BY ONLY <1>2, <1>3, AddKeeps
<1>5. Items(d) + Total(chart, Charts \ {n}) <= Budget
  BY <1>3, <1>4, FitsIs, BudgetOf
<1> QED
  BY <1>1, <1>3, <1>4, <1>5, InstallStep

LEMMA DeleteStep ==
    ASSUME CInv, NEW n \in Charts, NEW o, NEW i, DeleteTrendline(n, o, i)
    PROVE  CInv' /\ \A m \in Charts : KeptInStep(m)
<1>1. PICK c : c = chart[n]
  OBVIOUS
<1>2. PICK d : d = [c EXCEPT !.trends[o] = RemoveAt(@, i)]
  OBVIOUS
<1>3. o \in Owners(c) /\ i \in DOMAIN c.trends[o] /\ Install(n, d) /\ Good(c)
  BY <1>1, <1>2, BudgetOf DEF DeleteTrendline
<1>4. /\ Good(d) /\ Keeps(c, d) /\ KeepsTrends(c, d) /\ KeepsSelection(c, d)
      /\ Items(d) <= Items(c)
  BY ONLY <1>2, <1>3, DeleteKeeps
<1>5. Items(d) \in Nat
  BY <1>4, ItemsAre DEF Good
<1>6. Items(d) + Total(chart, Charts \ {n}) <= Budget
  BY <1>1, <1>4, <1>5, BudgetOf
<1> QED
  BY <1>1, <1>3, <1>4, <1>6, InstallStep

LEMMA ReloadStep ==
    ASSUME CInv, NEW stored, Reload(stored), stored = [n \in Charts |-> stored[n]],
           \A n \in Charts : stored[n] = ThroughXml(chart[n]) \/ stored[n] = ThroughBin(chart[n])
    PROVE  CInv' /\ \A m \in Charts : KeptInStep(m)
<1>1. chart' = stored /\ gone' = [n \in Charts |-> {}] /\ used' = used
  BY DEF Reload
<1>2. ASSUME NEW n \in Charts
      PROVE  /\ Good(chart[n]) /\ Good(stored[n]) /\ Keeps(chart[n], stored[n])
             /\ KeepsSelection(chart[n], stored[n]) /\ Items(stored[n]) = Items(chart[n])
  BY FilesKeep DEF CInv, CTypes
<1>3. CTypes'
  BY <1>1, <1>2 DEF CInv, CTypes
<1>4. UsedUpToLast'
  <2>1. ASSUME NEW n \in Charts
        PROVE  /\ \A i \in used[n].series : i <= LastSeries(stored[n])
               /\ \A i \in used[n].points : i <= LastPoint(stored[n])
    <3>1. LastSeries(chart[n]) <= LastSeries(stored[n]) /\ LastPoint(chart[n]) <= LastPoint(stored[n])
      BY <1>2 DEF Keeps
    <3>2. /\ LastSeries(chart[n]) \in Int /\ LastSeries(stored[n]) \in Int
          /\ LastPoint(chart[n]) \in Int /\ LastPoint(stored[n]) \in Int
      BY <1>2, LastIs DEF Good, Ids
    <3>3. /\ \A i \in used[n].series : i \in Int /\ i <= LastSeries(chart[n])
          /\ \A i \in used[n].points : i \in Int /\ i <= LastPoint(chart[n])
      BY DEF CInv, CTypes, UsedUpToLast, Ids
    <3> QED
      BY <3>1, <3>2, <3>3
  <2> QED
    BY <1>1, <2>1 DEF UsedUpToLast
<1>5. GoneBelowNext'
  BY <1>1 DEF GoneBelowNext
<1>6. WithinBudget'
  <2>1. Total(stored, Charts) = Total(chart, Charts)
    BY <1>2, TotalAgree
  <2> QED
    BY <1>1, <2>1 DEF CInv, WithinBudget
<1>7. \A m \in Charts : KeptInStep(m)
  BY <1>1, <1>2 DEF KeptInStep
<1> QED
  BY <1>3, <1>4, <1>5, <1>6, <1>7 DEF CInv

LEMMA NextStep ==
    ASSUME CInv, [Next]_vars
    PROVE  CInv' /\ \A m \in Charts : KeptInStep(m)
<1>1. CASE UNCHANGED vars
  <2>1. chart' = chart /\ used' = used /\ gone' = gone
    BY <1>1 DEF vars
  <2>2. CInv'
    <3>1. CTypes' /\ UsedUpToLast' /\ GoneBelowNext' /\ WithinBudget'
      BY <2>1 DEF CInv, CTypes, UsedUpToLast, GoneBelowNext, WithinBudget
    <3> QED
      BY <3>1 DEF CInv
  <2>3. ASSUME NEW m \in Charts PROVE KeptInStep(m)
    <3>1. Good(chart[m]) /\ chart'[m] = chart[m]
      BY <2>1 DEF CInv, CTypes
    <3> QED
      BY <3>1, SameKeeps DEF KeptInStep
  <2> QED
    BY <2>2, <2>3
<1>2. CASE \E n \in Charts, count \in 0..Budget : SetSeriesCount(n, count) \/ SetPointCount(n, count)
  <2>1. \A count \in 0..Budget : count \in Nat
    BY ChartAssumption
  <2> QED
    BY <1>2, <2>1, SeriesCountStep, PointCountStep
<1>3. CASE \E n \in Charts, s \in Ids : SetActiveSeries(n, s)
  BY <1>3, SelectStep
<1>4. CASE \E n \in Charts, o \in Ids : AddTrendline(n, o)
  BY <1>4, AddStep
<1>5. CASE \E n \in Charts, o \in Ids, i \in 1..Budget : DeleteTrendline(n, o, i)
  BY <1>5, DeleteStep
<1>6. CASE Reload([n \in Charts |-> ThroughXml(chart[n])])
  <2>1. PICK q : q = [n \in Charts |-> ThroughXml(chart[n])]
    OBVIOUS
  <2>2. Reload(q) /\ q = [n \in Charts |-> q[n]] /\ \A n \in Charts : q[n] = ThroughXml(chart[n])
    BY <1>6, <2>1
  <2> QED
    BY <2>2, ReloadStep
<1>7. CASE Reload([n \in Charts |-> ThroughBin(chart[n])])
  <2>1. PICK q : q = [n \in Charts |-> ThroughBin(chart[n])]
    OBVIOUS
  <2>2. Reload(q) /\ q = [n \in Charts |-> q[n]] /\ \A n \in Charts : q[n] = ThroughBin(chart[n])
    BY <1>7, <2>1
  <2> QED
    BY <2>2, ReloadStep
<1> QED
  BY <1>1, <1>2, <1>3, <1>4, <1>5, <1>6, <1>7 DEF Next

-----------------------------------------------------------------------------
(* The theorems.                                                           *)

\* The inductive invariant: charts are valid and within the budget, ids and
\* trend line numbers that were ever given are covered by the history
\* (resize_chart, create_chart_trendline and delete_chart_trendline).
THEOREM ChartsInvariant == Spec => []CInv
<1>1. ASSUME Init PROVE CInv
  <2>1. chart \in [Charts -> {c \in Forms : Valid(c)}]
    BY <1>1 DEF Init
  <2>2. ASSUME NEW n \in Charts
        PROVE  Good(chart[n]) /\ IsChart(chart[n])
    BY <2>1, ChartAssumption DEF Good
  <2>3. ASSUME NEW n \in Charts
        PROVE  /\ used[n] = [series |-> Live(chart[n].series), points |-> Live(chart[n].points)]
               /\ used[n].series \subseteq Ids /\ used[n].points \subseteq Ids
               /\ \A i \in used[n].series : i <= LastSeries(chart[n])
               /\ \A i \in used[n].points : i <= LastPoint(chart[n])
    <3>1. used[n] = [series |-> Live(chart[n].series), points |-> Live(chart[n].points)]
      BY <1>1 DEF Init
    <3>2. used[n].series = Live(chart[n].series) /\ used[n].points = Live(chart[n].points)
      BY <3>1
    <3> QED
      BY <2>2, <3>1, <3>2, LastIs, ChartIs
  <2>4. CTypes
    <3>1. chart = [n \in Charts |-> chart[n]]
      BY <2>1
    <3>2. gone \in [Charts -> SUBSET (Ids \X Nat)]
      BY <1>1 DEF Init
    <3>3. used = [n \in Charts |-> used[n]]
      BY <1>1 DEF Init
    <3>4. used \in [Charts -> [series : SUBSET Ids, points : SUBSET Ids]]
      BY <2>3, <3>3
    <3> QED
      BY <2>2, <3>1, <3>2, <3>4 DEF CTypes
  <2>5. UsedUpToLast
    BY <2>3 DEF UsedUpToLast
  <2>6. GoneBelowNext
    BY <1>1 DEF Init, GoneBelowNext
  <2>7. WithinBudget
    BY <1>1, HeldIs DEF Init, WithinBudget
  <2> QED
    BY <2>4, <2>5, <2>6, <2>7 DEF CInv
<1>2. CInv /\ [Next]_vars => CInv'
  BY NextStep
<1> QED
  BY <1>1, <1>2, PTL DEF Spec

\* No sequence of operations and passages through a file leaves a chart that is
\* rejected, or a document over its budget (chart_budget_fits).
THEOREM ChartsValid == Spec => []ChartsStayValid
<1>1. CInv => ChartsStayValid
  BY HeldIs DEF CInv, CTypes, Good, WithinBudget, ChartsStayValid
<1> QED
  BY <1>1, ChartsInvariant, PTL

\* The reference of a deleted trend line never names another one, also when its
\* series was removed and others were added (create_chart_trendline).
THEOREM TrendlinesStayDeleted == Spec => []DeletedTrendlinesStayDeleted
<1>1. CInv => DeletedTrendlinesStayDeleted
  <2> SUFFICES ASSUME CInv, NEW n \in Charts, NEW r \in gone[n], r \in References(chart[n])
               PROVE  FALSE
    BY DEF DeletedTrendlinesStayDeleted
  <2>1. PICK o \in Owners(chart[n]) : \E t \in Live(chart[n].trends[o]) : r = <<o, t>>
    BY ReferenceIs
  <2>2. PICK t \in Live(chart[n].trends[o]) : r = <<o, t>>
    BY <2>1
  <2> QED
    BY <2>2 DEF CInv, GoneBelowNext
<1> QED
  BY <1>1, ChartsInvariant, PTL

\* A new element never gets an id its chart ever had, cells, mode and selection
\* stay with their elements, over every step (resize_chart, form files).
THEOREM ElementsKeep == Spec => ElementsKeepTheirs
<1> DEFINE Kept(n) ==
         LET c == chart[n] IN
         /\ (Live(chart'[n].series) \ Live(c.series)) \cap used[n].series = {}
         /\ (Live(chart'[n].points) \ Live(c.points)) \cap used[n].points = {}
         /\ Mode(chart'[n]) = Mode(c)
         /\ \A p \in DOMAIN chart'[n].cells :
              chart'[n].cells[p] = IF p \in DOMAIN c.cells THEN c.cells[p]
                                   ELSE IF Mode(c) = "explicit" THEN Undefined
                                   ELSE "sample"
         /\ (\A s \in Ids : ~SetActiveSeries(n, s)) =>
            ActiveSeries(chart'[n]) =
               IF chart'[n].series = <<>> THEN Undefined
               ELSE IF c.series = <<>> THEN Head(chart'[n].series)
               ELSE IF ActiveSeries(c) \in Live(chart'[n].series) THEN ActiveSeries(c)
               ELSE Last(chart'[n].series)
<1>1. ASSUME CInv, [Next]_vars, NEW n \in Charts PROVE Kept(n)
  <2>1. Good(chart'[n]) /\ Keeps(chart[n], chart'[n]) /\ Good(chart[n])
    BY <1>1, NextStep DEF KeptInStep, CInv, CTypes
  <2>2. (\A s \in Ids : ~SetActiveSeries(n, s)) => KeepsSelection(chart[n], chart'[n])
    BY <1>1, NextStep DEF KeptInStep
  <2>3. /\ LastSeries(chart[n]) \in Int /\ LastPoint(chart[n]) \in Int
        /\ \A i \in used[n].series : i \in Int /\ i <= LastSeries(chart[n])
        /\ \A i \in used[n].points : i \in Int /\ i <= LastPoint(chart[n])
    BY <1>1, <2>1, LastIs DEF CInv, CTypes, UsedUpToLast, Good, Ids
  <2>4. /\ (Live(chart'[n].series) \ Live(chart[n].series)) \cap used[n].series = {}
        /\ (Live(chart'[n].points) \ Live(chart[n].points)) \cap used[n].points = {}
    BY <2>1, <2>3 DEF Keeps
  <2> QED
    BY <2>1, <2>2, <2>4 DEF Keeps, KeepsSelection
<1>2. CInv /\ [Next]_vars => [\A n \in Charts : Kept(n)]_vars
  BY <1>1
<1> QED
  BY <1>2, ChartsInvariant, PTL DEF Spec, ElementsKeepTheirs
=============================================================================
