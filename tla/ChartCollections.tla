--------------------------- MODULE ChartCollections ---------------------------
(***************************************************************************)
(* The series, points, cells and trend lines of the charts of a form:      *)
(* resize_chart, chart_budget_fits and the trendline operations of         *)
(* src/model/ordinary_form.cpp, and what a chart is after it has been      *)
(* stored and read again (chart part of form_stream.cpp and form_xml.cpp). *)
(*                                                                         *)
(* A cell belongs to a series id and a point id.  Ids are handed out from  *)
(* a history that outlives the elements and is stored with the chart.      *)
(***************************************************************************)
EXTENDS Integers, Sequences, SequencesExt, FiniteSetsExt

CONSTANTS
    Charts,
    Budget,         \* max_chart_collection_items
    IdLimit,        \* the largest int64
    TrendLimit,     \* the largest uint64
    Forms,          \* the charts a form may have when it is first read
    Undefined

Summary == 1            \* the id reserved for the summary series
Absent == 0             \* an optional that has no value
Ids == 1..IdLimit
Modes == {"sample", "explicit", "source"}
Live(s) == ToSet(s)
Owners(c) == Live(c.series) \cup {Summary}

\* The collections of a chart.  A cell holds what a user entered, a sample or
\* nothing; its trend lines have numbers in the order they were added.
IsChart(c) ==
    c \in [series : Seq(Ids), points : Seq(Ids), mode : Modes \cup {"none"},
           lastSeries : 0..IdLimit, lastPoint : 0..IdLimit,
           activeSeries : 0..IdLimit, activePoint : (0..IdLimit) \cup {Undefined},
           cells : [DOMAIN c.cells -> {"user", "sample", Undefined}],
           trends : [Owners(c) -> Seq(Nat \ {0})], nextTrend : [Owners(c) -> Nat \ {0}]]

ASSUME ChartAssumption ==
    /\ IsFiniteSet(Charts)
    /\ Budget \in Nat /\ IdLimit \in Nat \ {0} /\ TrendLimit \in Nat \ {0}
    /\ Undefined \notin Int
    /\ \A c \in Forms : IsChart(c)

VARIABLES
    chart,      \* chart |-> its collections
    used,       \* history: chart |-> ids its series and points ever had
    gone        \* history: trend line references that were valid in this document

vars == <<chart, used, gone>>

LargestOf(s, floor) == Max(Live(s) \cup {floor})
Empty(c) == c.series = <<>> \/ c.points = <<>>

\* The mode an absent dataMode stands for.
DefaultMode(c) == IF Empty(c) THEN "sample" ELSE "explicit"
Mode(c) == IF c.mode = "none" THEN DefaultMode(c) ELSE c.mode

\* last_series_id, last_point_id: what is stored, and not less than live ids.
LastSeries(c) == Max(Live(c.series) \cup {IF c.lastSeries = Absent THEN Summary ELSE c.lastSeries})
LastPoint(c) == Max(Live(c.points) \cup {c.lastPoint})

Pairs(series, points) == Live(series) \X Live(points)

-----------------------------------------------------------------------------
(* What the validator and the encoder ask of a chart.                      *)

Distinct(s) == IsInjective(s)

Valid(c) ==
    /\ Distinct(c.series) /\ Summary \notin Live(c.series)
    /\ Distinct(c.points)
    /\ c.lastSeries # Absent => c.lastSeries >= LargestOf(c.series, Summary)
    /\ c.lastPoint # Absent => c.lastPoint >= LargestOf(c.points, 0)
    /\ DOMAIN c.cells = IF c.mode = "source" THEN {} ELSE Pairs(c.series, c.points)
    /\ c.activeSeries \in Live(c.series) \cup {Absent}
    /\ c.activePoint \in Live(c.points) \cup {Absent, Undefined}
    /\ \A o \in Owners(c) :
         /\ Distinct(c.trends[o])
         /\ \A t \in Live(c.trends[o]) : t < c.nextTrend[o]

Items(c) ==
    Len(c.series) + Len(c.points)
      + (IF c.mode = "source" THEN 0 ELSE Len(c.series) * Len(c.points))
      + SumFunction([o \in Owners(c) |-> Len(c.trends[o])])

\* What the charts of S hold.
Held(S) == SumFunction([m \in S |-> Items(chart[m])])

\* chart_budget_fits with the chart n replaced by c.
Fits(n, c, extra) ==
    extra + Items(c) + Held(Charts \ {n}) <= Budget

-----------------------------------------------------------------------------
(* Resizing.                                                               *)

\* The first n elements, then new ones with the ids after the last one given.
Resized(s, n, last) ==
    [i \in 1..n |-> IF i <= Len(s) THEN s[i] ELSE last + i - Len(s)]

Added(s, n) == IF n > Len(s) THEN n - Len(s) ELSE 0

\* Every remaining pair keeps its cell; a new one is filled as the mode says.
Cells(c, series, points) ==
    [p \in Pairs(series, points) |->
        IF p \in DOMAIN c.cells THEN c.cells[p]
        ELSE IF Mode(c) = "explicit" THEN Undefined ELSE "sample"]

\* get_prop_val of ActiveSeries.
ActiveSeries(c) ==
    IF c.activeSeries # Absent THEN c.activeSeries
    ELSE IF c.series = <<>> THEN Undefined ELSE Head(c.series)

\* The explicit ActiveSeries after resizing.
Selected(c, series) ==
    IF series = <<>> THEN Absent
    ELSE IF ActiveSeries(c) \in Live(series) \cup {Undefined} THEN c.activeSeries
    ELSE Last(series)

WithSeries(c, n) ==
    LET series == Resized(c.series, n, LastSeries(c))
        Kept(o) == o \in Owners(c)
        owners == Live(series) \cup {Summary}
    IN  [c EXCEPT !.series = series,
                  !.lastSeries = LastSeries(c) + Added(c.series, n),
                  !.mode = Mode(c),
                  !.activeSeries = Selected(c, series),
                  !.cells = Cells(c, series, c.points),
                  !.trends = [o \in owners |-> IF Kept(o) THEN c.trends[o] ELSE <<>>],
                  !.nextTrend = [o \in owners |-> IF Kept(o) THEN c.nextTrend[o] ELSE 1]]

WithPoints(c, n) ==
    LET points == Resized(c.points, n, LastPoint(c))
    IN  [c EXCEPT !.points = points,
                  !.lastPoint = LastPoint(c) + Added(c.points, n),
                  !.mode = Mode(c),
                  !.cells = Cells(c, c.series, points)]

References(c) == UNION {{o} \X Live(c.trends[o]) : o \in Owners(c)}

Install(n, c) ==
    /\ chart' = [chart EXCEPT ![n] = c]
    /\ used' = [used EXCEPT ![n] = [series |-> @.series \cup Live(c.series),
                                    points |-> @.points \cup Live(c.points)]]
    /\ gone' = [gone EXCEPT ![n] = @ \cup (References(chart[n]) \ References(c))]

\* set_prop_val of SeriesCount; the other outcomes change nothing.
SetSeriesCount(n, count) ==
    LET c == chart[n]
    IN  /\ c.mode # "source"
        /\ count # Len(c.series)
        /\ Fits(n, WithSeries(c, count), 0)
        /\ LastSeries(c) + Added(c.series, count) <= IdLimit
        /\ Install(n, WithSeries(c, count))

\* Mutant: points are removed under an explicit ActivePoint.
SetPointCountAnyway(n, count) ==
    LET c == chart[n]
    IN  /\ c.mode # "source"
        /\ count # Len(c.points)
        /\ Fits(n, WithPoints(c, count), 0)
        /\ LastPoint(c) + Added(c.points, count) <= IdLimit
        /\ Install(n, WithPoints(c, count))

\* set_prop_val of PointCount refuses to remove an explicitly active point.
SetPointCount(n, count) ==
    LET c == chart[n]
    IN  /\ c.mode # "source"
        /\ count # Len(c.points)
        /\ Fits(n, WithPoints(c, count), 0)
        /\ c.activePoint \in Ids => c.activePoint \in Live(WithPoints(c, count).points)
        /\ LastPoint(c) + Added(c.points, count) <= IdLimit
        /\ Install(n, WithPoints(c, count))

SetActiveSeries(n, s) ==
    /\ s \in Live(chart[n].series)
    /\ Install(n, [chart[n] EXCEPT !.activeSeries = s])

-----------------------------------------------------------------------------
(* Trend lines.                                                            *)

\* Mutant: the number of a new trend line is its position.
AddTrendlineByPosition(n, o) ==
    LET c == chart[n]
    IN  /\ o \in Owners(c)
        /\ Fits(n, c, 1)
        /\ Len(c.trends[o]) + 1 < TrendLimit
        /\ Install(n, [c EXCEPT !.trends[o] = Append(@, Len(@) + 1),
                                !.nextTrend[o] = Len(c.trends[o]) + 2])

AddTrendline(n, o) ==
    LET c == chart[n]
    IN  /\ o \in Owners(c)
        /\ Fits(n, c, 1)
        /\ c.nextTrend[o] < TrendLimit
        /\ Install(n, [c EXCEPT !.trends[o] = Append(@, c.nextTrend[o]),
                                !.nextTrend[o] = @ + 1])

DeleteTrendline(n, o, i) ==
    LET c == chart[n]
    IN  /\ o \in Owners(c) /\ i \in DOMAIN c.trends[o]
        /\ Install(n, [c EXCEPT !.trends[o] = RemoveAt(@, i)])

-----------------------------------------------------------------------------
(* Storing the form and reading it again.                                  *)

Renumbered(c) ==
    [c EXCEPT !.trends = [o \in Owners(c) |-> [i \in 1..Len(@[o]) |-> i]],
              !.nextTrend = [o \in Owners(c) |-> Len(c.trends[o]) + 1]]

\* lastAssignedId and dataMode are left out where they say nothing new.
WithoutDefaults(c) ==
    [c EXCEPT !.lastSeries = IF @ = LargestOf(c.series, Summary) THEN Absent ELSE @,
              !.lastPoint = IF @ = LargestOf(c.points, 0) THEN Absent ELSE @,
              !.mode = IF @ = DefaultMode(c) THEN "none" ELSE @]

\* Mutant: the history of ids is not stored.
ThroughXmlForgetful(c) ==
    [WithoutDefaults(Renumbered(c)) EXCEPT !.lastSeries = Absent, !.lastPoint = Absent]

ThroughXml(c) == WithoutDefaults(Renumbered(c))

\* Form.bin holds positions of the active elements; the first is the default.
ThroughBin(c) ==
    [WithoutDefaults(Renumbered(c)) EXCEPT
        !.activeSeries = IF c.series # <<>> /\ @ = Head(c.series) THEN Absent ELSE @,
        !.activePoint = IF c.points # <<>> /\ @ = Head(c.points) THEN Absent ELSE @]

Reload(stored) ==
    /\ chart' = stored
    /\ gone' = [n \in Charts |-> {}]
    /\ UNCHANGED used

-----------------------------------------------------------------------------
Start(series, points, mode, lastSeries, lastPoint, activePoint) ==
    [series |-> series, points |-> points, mode |-> mode,
     lastSeries |-> lastSeries, lastPoint |-> lastPoint,
     activeSeries |-> Absent, activePoint |-> activePoint,
     cells |-> [p \in IF mode = "source" THEN {} ELSE Pairs(series, points) |-> "user"],
     trends |-> [o \in Live(series) \cup {Summary} |-> <<>>],
     nextTrend |-> [o \in Live(series) \cup {Summary} |-> 1]]

Init ==
    /\ chart \in [Charts -> {c \in Forms : Valid(c)}]
    /\ Held(Charts) <= Budget
    /\ used = [n \in Charts |-> [series |-> Live(chart[n].series),
                                 points |-> Live(chart[n].points)]]
    /\ gone = [n \in Charts |-> {}]

Next ==
    \/ \E n \in Charts, count \in 0..Budget : SetSeriesCount(n, count) \/ SetPointCount(n, count)
    \/ \E n \in Charts, s \in Ids : SetActiveSeries(n, s)
    \/ \E n \in Charts, o \in Ids : AddTrendline(n, o)
    \/ \E n \in Charts, o \in Ids, i \in 1..Budget : DeleteTrendline(n, o, i)
    \/ Reload([n \in Charts |-> ThroughXml(chart[n])])
    \/ Reload([n \in Charts |-> ThroughBin(chart[n])])

Spec == Init /\ [][Next]_vars

-----------------------------------------------------------------------------
(* What the collections promise.                                           *)

\* No sequence of resizings, trend line edits and passages through a file
\* leaves a chart that the validator or the encoder rejects: the matrix has one
\* cell for each pair, references name live elements, the history covers them;
\* and the charts of a document never hold more elements together than a
\* document with charts may have when it is read.
ChartsStayValid ==
    /\ \A n \in Charts : Valid(chart[n])
    /\ Held(Charts) <= Budget

\* A new series or point never gets an id that any element of its kind ever had
\* in this chart, also when that one was removed and the form stored since.
\* What is in a cell stays with its series and point, the mode of the data is
\* what it was before, and new cells are filled according to it.
\* docs/ordinary-form-target-contract.md: a removed active series is replaced by
\* the last remaining one; anything else leaves the selection that is read as it
\* is, storing the form too, although Form.bin holds only a position.
ElementsKeepTheirs ==
    [][\A n \in Charts : LET c == chart[n] IN
         /\ (Live(chart'[n].series) \ Live(c.series)) \cap used[n].series = {}
         /\ (Live(chart'[n].points) \ Live(c.points)) \cap used[n].points = {}
         /\ Mode(chart'[n]) = Mode(c)
         /\ \A p \in DOMAIN chart'[n].cells :
              chart'[n].cells[p] = IF p \in DOMAIN c.cells THEN c.cells[p]
                                   ELSE IF Mode(c) = "explicit" THEN Undefined
                                   ELSE "sample"
         /\ (\A s \in Ids : ~SetActiveSeries(n, s)) =>
            ActiveSeries(chart'[n]) =
               IF chart'[n].series = <<>> THEN Undefined
               ELSE IF c.series = <<>> THEN Head(chart'[n].series)
               ELSE IF ActiveSeries(c) \in Live(chart'[n].series) THEN ActiveSeries(c)
               ELSE Last(chart'[n].series)]_vars

\* Within the life of a document a reference to a deleted trend line never
\* names another one.
DeletedTrendlinesStayDeleted ==
    \A n \in Charts : References(chart[n]) \cap gone[n] = {}
=============================================================================
