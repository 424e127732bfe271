------------------------------ MODULE LinkedRows ------------------------------
(* Collections that Form.bin keeps as rows with keys, in any order, each   *)
(* with the key of the next: the items and links of a dendrogram, the      *)
(* points and series of a Gantt chart.  The decoders walk the chain and    *)
(* refuse one that does not pass every row once; the encoders number the   *)
(* rows of a dendrogram anew and keep the identifiers of a Gantt chart.    *)
EXTENDS Integers, Sequences, FiniteSets, SequencesExt

CONSTANTS
    LargestId,      \* that the tables of a Gantt chart have room for (uint32)
    Colours         \* of the palette of a Gantt chart (16)

NextOf(rows) == [k \in {rows[i].key : i \in DOMAIN rows} |->
                    rows[CHOOSE i \in DOMAIN rows : rows[i].key = k].next]

RowAt(rows, k) == rows[CHOOSE i \in DOMAIN rows : rows[i].key = k]

UniqueKeys(rows) == \A i, j \in DOMAIN rows : i # j => rows[i].key # rows[j].key

\* The first n keys of the chain; 0 is the end.
Walk(rows, first, n) ==
    LET next == NextOf(rows)
        at[i \in 1..n] ==
            IF i = 1 THEN first ELSE IF at[i - 1] \in DOMAIN next THEN next[at[i - 1]] ELSE 0
    IN  [i \in 1..n |-> at[i]]

\* The chain passes every row once and then ends.
WholeChain(rows, first) ==
    LET walk == Walk(rows, first, Len(rows))
    IN  /\ {walk[i] : i \in DOMAIN walk} = DOMAIN NextOf(rows)
        /\ rows # <<>> => NextOf(rows)[walk[Len(rows)]] = 0

InOrder(rows, first) ==
    LET walk == Walk(rows, first, Len(rows)) IN [i \in DOMAIN walk |-> RowAt(rows, walk[i])]

-----------------------------------------------------------------------------
(* A dendrogram: items, each with a value and texts, and links between two *)
(* of them that form no cycle.                                             *)

\* validate_dendrogram_graph merges the trees of the endpoints, link by link.
Tree(forest, item) == CHOOSE t \in forest : item \in t

MergedBy(graph) ==
    FoldLeft(LAMBDA forest, link :
                 LET a == Tree(forest, link.first)
                     b == Tree(forest, link.second)
                 IN  IF forest = {} \/ a = b THEN {} ELSE (forest \ {a, b}) \cup {a \cup b},
             {{graph.items[i].value} : i \in DOMAIN graph.items}, graph.links)

Edge(link) == {link.first, link.second}

ItemsValid(graph) ==
    /\ \A i \in DOMAIN graph.items : graph.items[i].value # "" /\ graph.items[i].texts > 0
    /\ \A i, j \in DOMAIN graph.items : i # j => graph.items[i].value # graph.items[j].value

LinksValid(graph) ==
    LET values == {graph.items[i].value : i \in DOMAIN graph.items} IN
    /\ \A i \in DOMAIN graph.links :
          /\ graph.links[i].first # graph.links[i].second
          /\ Edge(graph.links[i]) \subseteq values
          /\ graph.links[i].texts > 0
    /\ \A i, j \in DOMAIN graph.links : i # j => Edge(graph.links[i]) # Edge(graph.links[j])

GraphValid(graph) ==
    ItemsValid(graph) /\ LinksValid(graph) /\ (graph.links # <<>> => MergedBy(graph) # {})

\* A collection of n rows names the first and the last of its chain.
Sentinel(n) == IF n = 0 THEN <<0, 0>> ELSE <<1, n>>

CollectionReadable(rows, sentinel) ==
    /\ \A i \in DOMAIN rows : rows[i].key \in 1..Len(rows) /\ rows[i].next \in 0..Len(rows)
    /\ UniqueKeys(rows)
    /\ sentinel = Sentinel(Len(rows))
    /\ rows # <<>> => WholeChain(rows, 1) /\ NextOf(rows)[Len(rows)] = 0

ItemsDecoded(found) ==
    LET order == InOrder(found.items, 1)
    IN  [i \in DOMAIN order |-> [value |-> order[i].value, texts |-> order[i].texts]]

LinksDecoded(found) ==
    LET order == InOrder(found.links, 1)
        named(k) == RowAt(found.items, k).value
    IN  [i \in DOMAIN order |->
            [first |-> named(order[i].first), second |-> named(order[i].second),
             texts |-> order[i].texts, distance |-> order[i].distance]]

GraphDecoded(found) == [items |-> ItemsDecoded(found), links |-> LinksDecoded(found)]

\* validate_dendrogram_distance: digits with a sign and a point at most.
DistanceReadable(distance) == distance.spelling # "exponent"

GraphReadable(found) ==
    /\ CollectionReadable(found.items, found.itemEnds)
    /\ CollectionReadable(found.links, found.linkEnds)
    /\ \A i \in DOMAIN found.links :
          /\ Edge(found.links[i]) \subseteq DOMAIN NextOf(found.items)
          /\ DistanceReadable(found.links[i].distance)
    /\ GraphValid(GraphDecoded(found))

\* dendrogram_item_row and dendrogram_link_row, in the order of the model.
GraphEncoded(graph) ==
    LET next(i, n) == IF i < n THEN i + 1 ELSE 0
        n == Len(graph.items)
        m == Len(graph.links)
        keyOf(v) == CHOOSE i \in 1..n : graph.items[i].value = v
    IN  [items |-> [i \in 1..n |->
                      [key |-> i, next |-> next(i, n), value |-> graph.items[i].value,
                       texts |-> graph.items[i].texts]],
         itemEnds |-> Sentinel(n),
         links |-> [i \in 1..m |->
                      [key |-> i, next |-> next(i, m), first |-> keyOf(graph.links[i].first),
                       second |-> keyOf(graph.links[i].second), texts |-> graph.links[i].texts,
                       distance |-> graph.links[i].distance]],
         linkEnds |-> Sentinel(m)]

\* The parser of Form.xml overlooks cycles; the writer does not, and spells
\* every distance canonically.
GraphParses(graph) == ItemsValid(graph) /\ LinksValid(graph)

GraphPrinted(graph) ==
    [graph EXCEPT !.links = [i \in DOMAIN graph.links |->
        [graph.links[i] EXCEPT !.distance.spelling = "canonical"]]]

-----------------------------------------------------------------------------
(* A Gantt chart: points and series, each with an identifier, and the      *)
(* intervals of pairs of them.                                             *)

Ids(rows) == {rows[i].key : i \in DOMAIN rows}

ChartValid(chart) ==
    LET points == {chart.points[i].id : i \in DOMAIN chart.points}
        series == {chart.series[i].id : i \in DOMAIN chart.series}
    IN  /\ Cardinality(points) = Len(chart.points) /\ Cardinality(series) = Len(chart.series)
        /\ 0 \notin points \cup series
        /\ \A i \in DOMAIN chart.intervals :
              /\ chart.intervals[i].point \in points /\ chart.intervals[i].series \in series
              /\ chart.intervals[i].begin <= chart.intervals[i].end

\* encode_gantt_chart_info refuses colours and identifiers without room.
ChartFits(chart) ==
    \A table \in {chart.points, chart.series} :
        \A i \in DOMAIN table : ~table[i].coloured /\ table[i].id <= LargestId

\* gantt_dimension_table: the last row first, the colours in turn.
CacheKey(ordinal) == (((ordinal - 1) % Colours) + 1) * 2

PaletteSize(n) == 2 * (IF n < Colours THEN n ELSE Colours) + 1

TableEncoded(members) ==
    LET n == Len(members)
        row(i) == [key |-> members[i].id, inner |-> members[i].id,
                   next |-> IF i < n THEN members[i + 1].id ELSE 0,
                   value |-> members[i].value, cache |-> CacheKey(i)]
    IN  [rows |-> [i \in 1..n |-> row(n + 1 - i)],
         ends |-> IF n = 0 THEN <<0, 0>> ELSE <<members[1].id, members[n].id>>,
         palette |-> PaletteSize(n)]

PairOf(interval) == <<interval.point, interval.series>>

\* Pairs by the number that point and series make, the point above.
PairBefore(p, q) == p[1] < q[1] \/ (p[1] = q[1] /\ p[2] < q[2])

PairsOf(intervals) ==
    SetToSortSeq({PairOf(intervals[i]) : i \in DOMAIN intervals}, PairBefore)

OrdinalAt(intervals, i) ==
    Cardinality({j \in 1..i : PairOf(intervals[j]) = PairOf(intervals[i])})

ChartEncoded(chart) ==
    [points |-> TableEncoded(chart.points), series |-> TableEncoded(chart.series),
     intervals |-> [i \in DOMAIN chart.intervals |->
                      [point |-> chart.intervals[i].point, series |-> chart.intervals[i].series,
                       inner |-> PairOf(chart.intervals[i]),
                       ordinal |-> OrdinalAt(chart.intervals, i),
                       begin |-> chart.intervals[i].begin, end |-> chart.intervals[i].end]],
     pairs |-> PairsOf(chart.intervals)]

\* The head of a chain is the row that no other names.
Heads(rows) == Ids(rows) \ {rows[i].next : i \in DOMAIN rows}

Head1(rows) == IF Heads(rows) = {} THEN 0 ELSE CHOOSE k \in Heads(rows) : TRUE

TableReadable(table) ==
    LET rows == table.rows IN
    /\ \A i \in DOMAIN rows : rows[i].key = rows[i].inner
    /\ UniqueKeys(rows)
    /\ \A i, j \in DOMAIN rows : i # j /\ rows[i].next # 0 => rows[i].next # rows[j].next
    /\ table.palette = PaletteSize(Len(rows))
    /\ Cardinality(Heads(rows)) <= 1
    /\ rows # <<>> => Heads(rows) # {} /\ WholeChain(rows, Head1(rows))

TableDecoded(table) ==
    LET order == InOrder(table.rows, Head1(table.rows))
    IN  [i \in DOMAIN order |->
            [id |-> order[i].key, value |-> order[i].value, coloured |-> FALSE]]

\* require_gantt_dimension_table_match: the same rows by their identifiers.
TableMatches(table, expected) ==
    /\ ToSet(table.rows) = ToSet(expected.rows)
    /\ table.ends = expected.ends

ChartDecoded(found) ==
    [points |-> TableDecoded(found.points), series |-> TableDecoded(found.series),
     intervals |-> [i \in DOMAIN found.intervals |->
                      [point |-> found.intervals[i].point, series |-> found.intervals[i].series,
                       begin |-> found.intervals[i].begin, end |-> found.intervals[i].end]]]

ChartReadable(found) ==
    /\ TableReadable(found.points) /\ TableReadable(found.series)
    /\ \A i \in DOMAIN found.intervals :
          LET interval == found.intervals[i]
          IN  /\ interval.point \in Ids(found.points.rows)
              /\ interval.series \in Ids(found.series.rows)
              /\ interval.inner = PairOf(interval)
              /\ interval.ordinal = OrdinalAt(found.intervals, i)
    /\ LET chart == ChartDecoded(found)
       IN  /\ ChartFits(chart)
           /\ TableMatches(found.points, TableEncoded(chart.points))
           /\ TableMatches(found.series, TableEncoded(chart.series))
           /\ found.pairs = PairsOf(chart.intervals)
           /\ ChartValid(chart)

=============================================================================
