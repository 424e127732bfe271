----------------------------- MODULE MCControlData -----------------------------
(* Data of controls as this program, another program or a person writes    *)
(* it: what the encoders write, with one or two places changed, rows in    *)
(* any order, tables that are shared, chains of any form; values with      *)
(* every field of a record changed, kinds and versions mixed, trees at and *)
(* past their limits; and elements of Form.xml, right and wrong.           *)
EXTENDS ControlData

Found(h, o, f) ==
    /\ holder = h /\ origin = o /\ source = f
    /\ held = <<>> /\ reported = FALSE /\ rewritten = <<>> /\ step = "found"

DataIdle ==
    /\ holder = "GanttChart" /\ origin = "Form.xml" /\ source = <<>>
    /\ held = <<>> /\ reported = FALSE /\ rewritten = <<>> /\ step = "idle"

-----------------------------------------------------------------------------
(* Spreadsheet documents.                                                  *)

Places == {<<1, 1>>, <<1, 2>>, <<2, 1>>}

Layouts == {<<>>, <<<<2, 2>>>>, <<<<1, 1>>, <<1, 2>>>>, <<<<1, 2>>, <<2, 1>>>>}

Fillings ==
    {<<t>> : t \in {"", "a"}}
    \cup {<<t, <<Term[t], n>>, c>> : t \in {"string", "number", "dateTime"}, n \in 0..1,
                                     c \in {"none", "readOnly"}}

MCCell(p, f) == IF Len(f) = 1 THEN TextCell(p[1], p[2], f[1])
                              ELSE TypedCell(p[1], p[2], f[1], f[2], f[3])

Sheets(fillings) ==
    UNION {{SheetEncoded([i \in DOMAIN l |-> MCCell(l[i], f[i])]) : f \in [DOMAIN l -> fillings]}
              : l \in Layouts}

\* Two cells that share a format, or a type, or have theirs in turn.
WithReferences(s, refs) ==
    LET at(i, j) == Len(SelectSeq(FlattenSeq([k \in 1..(i - 1) |-> s.rows[k].cells]), IsTyped))
                      + Len(SelectSeq(SubSeq(s.rows[i].cells, 1, j), IsTyped))
    IN  [s EXCEPT !.rows = [i \in DOMAIN s.rows |->
            [s.rows[i] EXCEPT !.cells = [j \in DOMAIN s.rows[i].cells |->
                IF IsTyped(s.rows[i].cells[j])
                THEN [s.rows[i].cells[j] EXCEPT !.reference = refs[at(i, j)]]
                ELSE s.rows[i].cells[j]]]]]

Shared(s) ==
    IF Len(s.types) # 2 THEN {s}
    ELSE {s,
          WithReferences([s EXCEPT !.formats = <<0>>, !.types = <<s.types[1]>>], <<1, 1>>),
          [s EXCEPT !.formats = <<0, 0>>, !.types = <<s.types[2]>>],
          [s EXCEPT !.formats = <<1, 0>>, !.types = <<s.types[2], s.types[1]>>],
          WithReferences([s EXCEPT !.formats = <<1, 0>>], <<2, 1>>),
          WithReferences([s EXCEPT !.types = <<s.types[2], s.types[1]>>], <<2, 1>>)}

ChangedCells(c) ==
    {[c EXCEPT !.column = n] : n \in 0..LastIndex}
    \cup {[c EXCEPT !.flags = n] : n \in {0, 1, 2, 3, 4, 16}}
    \cup {[c EXCEPT !.reference = n] : n \in 0..3}
    \cup {[c EXCEPT !.value = v] :
            v \in {Absent, <<"number", 2>>} \cup ({"string", "number", "date"} \X (0..1))}
    \cup {[c EXCEPT !.value = <<"string", 0>>, !.flags = 2], [c EXCEPT !.value = Absent, !.flags = 0]}
    \cup {[c EXCEPT !.editor = e] :
            e \in {Absent} \cup [type : {"string", "dateTime"}, readOnly : {"editable", "readOnly"}]}
    \cup {[c EXCEPT !.text = t] : t \in {NoText, "", "a", "blank", "bilingual"}}

Changed(s) ==
    {[s EXCEPT !.width = n] : n \in 0..2} \cup {[s EXCEPT !.height = n] : n \in 0..2}
    \cup {[s EXCEPT !.owned = ~s.owned]}
    \cup UNION {{[s EXCEPT !.formats[i] = n] : n \in 0..2} : i \in DOMAIN s.formats}
    \cup UNION {{[s EXCEPT !.types[i] = t] : t \in OneEntry \cup {"pair"}} : i \in DOMAIN s.types}
    \cup {[s EXCEPT !.formats = Append(@, 0)], [s EXCEPT !.types = Append(@, "string")]}
    \cup (IF s.formats = <<>> THEN {} ELSE {[s EXCEPT !.formats = Front(@)]})
    \cup (IF s.types = <<>> THEN {} ELSE {[s EXCEPT !.types = Front(@)]})
    \cup UNION {{[s EXCEPT !.rows[i].index = n] : n \in 0..LastIndex} : i \in DOMAIN s.rows}
    \cup {[s EXCEPT !.rows[i].cells = <<>>] : i \in DOMAIN s.rows}
    \cup UNION {UNION {{[s EXCEPT !.rows[i].cells[j] = c] : c \in ChangedCells(s.rows[i].cells[j])}
                          : j \in DOMAIN s.rows[i].cells} : i \in DOMAIN s.rows}

FewFillings == {<<"string", <<"string", 0>>, "readOnly">>, <<"string", <<"string", 1>>, "none">>}

SheetsOfBin ==
    \/ \E s \in Sheets(Fillings) : \E t \in Shared(s) : \E u \in {t} \cup Changed(t) :
          Found("SpreadsheetDocumentField", "Form.bin", u)
    \/ \E s \in Sheets(FewFillings) : \E t \in Shared(s) : \E u \in Changed(t) :
          \E v \in Changed(u) : Found("SpreadsheetDocumentField", "Form.bin", v)

XmlFillings ==
    {<<"a">>, <<"pair", <<>>, "none">>}
    \cup {<<t, v, c>> : t \in {"string", "dateOnly"}, v \in {Absent, <<"string", 0>>, <<"string", 1>>},
                        c \in {"none", "plain", "readOnly"}}

XmlFilling(f) == IF Len(f) = 1 \/ f[2] = Absent THEN f ELSE <<f[1], <<Term[f[1]], f[2][2]>>, f[3]>>

XmlCells == {MCCell(p, XmlFilling(f)) : p \in Places \cup {<<0, 1>>}, f \in XmlFillings}

SheetsOfXml ==
    \/ \E c \in XmlCells : Found("SpreadsheetDocumentField", "Form.xml", <<c>>)
    \/ \E c, d \in XmlCells : Found("SpreadsheetDocumentField", "Form.xml", <<c, d>>)

-----------------------------------------------------------------------------
(* Dendrograms.                                                            *)

Names == <<"a", "b", "c", "d">>

Odd == [number |-> 1, spelling |-> "other"]

MCItem(key, next, value) == [key |-> key, next |-> next, value |-> value, texts |-> 1]

MCLink(key, next, first, second) ==
    [key |-> key, next |-> next, first |-> first, second |-> second, texts |-> 1, distance |-> Odd]

OneLink == {<<MCLink(1, 0, 1, 2)>>, <<>>}

Dendrograms(items, links) ==
    [items |-> items, itemEnds |-> Sentinel(Len(items)), links |-> links,
     linkEnds |-> Sentinel(Len(links))]

Items(n) == [i \in 1..n |-> MCItem(i, IF i < n THEN i + 1 ELSE 0, Names[i])]

\* Chains of three rows of any form, and of four with distinct keys.
ChainsOfItems ==
    \/ \E n \in 1..3 : \E key \in [1..n -> 0..n], next \in [1..n -> 0..(n + 1)] :
          \E links \in OneLink :
             Found("Dendrogram", "Form.bin",
                   Dendrograms([i \in 1..n |-> MCItem(key[i], next[i], Names[i])], links))
    \/ \E key \in {k \in [1..4 -> 1..4] : {k[i] : i \in 1..4} = 1..4}, next \in [1..4 -> 0..4] :
          Found("Dendrogram", "Form.bin",
                Dendrograms([i \in 1..4 |-> MCItem(key[i], next[i], Names[i])],
                            <<MCLink(1, 0, 2, 3)>>))

ChainsOfLinks ==
    \/ \E key, next \in [1..2 -> 0..2], first, second \in [1..2 -> 0..3] :
          Found("Dendrogram", "Form.bin",
                Dendrograms(Items(3), [i \in 1..2 |-> MCLink(key[i], next[i], first[i], second[i])]))
    \/ \E key \in {<<1, 2, 3>>, <<3, 1, 2>>}, first, second \in [1..3 -> 1..3] :
          Found("Dendrogram", "Form.bin",
                Dendrograms(Items(3), [i \in 1..3 |->
                    MCLink(key[i], IF key[i] = 3 THEN 0 ELSE key[i] + 1, first[i], second[i])]))

OddDendrograms ==
    \E n \in 0..2 : \E links \in OneLink :
        LET d == Dendrograms(Items(n), links) IN
        \/ \E a, b \in 0..2 : Found("Dendrogram", "Form.bin", [d EXCEPT !.itemEnds = <<a, b>>])
        \/ \E a, b \in 0..2 : Found("Dendrogram", "Form.bin", [d EXCEPT !.linkEnds = <<a, b>>])
        \/ \E i \in 1..n : \E v \in {"", "a", "b"}, t \in 0..1 :
              Found("Dendrogram", "Form.bin",
                    [d EXCEPT !.items[i].value = v, !.items[i].texts = t])
        \/ \E i \in DOMAIN links : \E t \in 0..1, s \in {"canonical", "other", "exponent"} :
              Found("Dendrogram", "Form.bin",
                    [d EXCEPT !.links[i].texts = t, !.links[i].distance.spelling = s])

Named(links) ==
    [i \in DOMAIN links |-> [first |-> links[i][1], second |-> links[i][2], texts |-> 1,
                             distance |-> Odd]]

DendrogramsOfXml ==
    \/ \E n \in 0..3 : \E values \in [1..n -> {"", "a", "b"}], t \in 0..1 :
          Found("Dendrogram", "Form.xml",
                [items |-> [i \in 1..n |-> [value |-> values[i], texts |-> t]], links |-> <<>>])
    \/ \E n \in 0..3 : \E ends \in [1..n -> {"a", "b", "c", "z"} \X {"a", "b", "c"}] :
          Found("Dendrogram", "Form.xml",
                [items |-> [i \in 1..3 |-> [value |-> Names[i], texts |-> 1]],
                 links |-> Named(ends)])

-----------------------------------------------------------------------------
(* Gantt charts.                                                           *)

Members == {<<>>, <<2>>, <<2, 1>>, <<1, 2, 3>>, <<3, 1, 2>>}

MCMembers(ids) == [i \in DOMAIN ids |-> [id |-> ids[i], value |-> Names[i], coloured |-> FALSE]]

MCInterval(pair) == [point |-> pair[1], series |-> pair[2], begin |-> 1, end |-> 2]

ChartsOf(points, series, pairs) ==
    [points |-> MCMembers(points), series |-> MCMembers(series),
     intervals |-> [i \in DOMAIN pairs |-> MCInterval(pairs[i])]]

Pairs == {<<>>, <<<<1, 2>>>>, <<<<2, 2>>, <<1, 2>>, <<2, 2>>>>, <<<<2, 1>>, <<2, 1>>>>}

GanttCharts == {ChartsOf(p, s, i) : p \in Members, s \in {<<>>, <<2>>, <<2, 1>>}, i \in Pairs}

ChangedTables(t) ==
    {t, [t EXCEPT !.rows = Reverse(@)], [t EXCEPT !.palette = @ + 2]}
    \cup {[t EXCEPT !.ends = <<a, b>>] : a, b \in 0..3}
    \cup UNION {{[t EXCEPT !.rows[i].next = n] : n \in 0..4} : i \in DOMAIN t.rows}
    \cup UNION {{[t EXCEPT !.rows[i].cache = n] : n \in {0, 2, 4}} : i \in DOMAIN t.rows}
    \cup UNION {{[t EXCEPT !.rows[i].key = n] : n \in 1..9} : i \in DOMAIN t.rows}
    \cup UNION {{[t EXCEPT !.rows[i].key = n, !.rows[i].inner = n] : n \in 1..9}
                    : i \in DOMAIN t.rows}

ChangedIntervals(v) ==
    {[v EXCEPT !.point = n] : n \in 1..3} \cup {[v EXCEPT !.series = n] : n \in 1..3}
    \cup {[v EXCEPT !.inner = <<1, n>>] : n \in 1..2}
    \cup {[v EXCEPT !.point = 1, !.inner[1] = 1], [v EXCEPT !.begin = 3]}
    \cup {[v EXCEPT !.ordinal = n] : n \in 1..3}

ChangedCharts(g) ==
    {[g EXCEPT !.points = t] : t \in UNION {ChangedTables(u) : u \in ChangedTables(g.points)}}
    \cup {[g EXCEPT !.series = t] : t \in ChangedTables(g.series)}
    \cup UNION {{[g EXCEPT !.intervals[i] = v] : v \in ChangedIntervals(g.intervals[i])}
                    : i \in DOMAIN g.intervals}
    \cup {[g EXCEPT !.pairs = Reverse(@)], [g EXCEPT !.pairs = Append(@, <<1, 1>>)]}

ChartsOfBin ==
    \E c \in GanttCharts : \E g \in {ChartEncoded(c)} \cup ChangedCharts(ChartEncoded(c)) :
        Found("GanttChart", "Form.bin", g)

ChartsOfXml ==
    \E c \in GanttCharts : \E d \in {c} \cup
        {[c EXCEPT !.points[i].id = n] : i \in DOMAIN c.points, n \in {0, 1, 9}} \cup
        {[c EXCEPT !.points[i].coloured = TRUE] : i \in DOMAIN c.points} :
        Found("GanttChart", "Form.xml", d)

DataInit ==
    \/ SheetsOfBin \/ SheetsOfXml
    \/ ChainsOfItems \/ ChainsOfLinks \/ OddDendrograms \/ DendrogramsOfXml
    \/ ChartsOfBin \/ ChartsOfXml

-----------------------------------------------------------------------------
(* Colours.                                                                *)

ColoursOfBin ==
    \E version \in 3..5, k \in 0..5, again \in -1..4,
       id \in {-1, 0, 1, 15, 255, 256, 65535, 65536, 16777215, 16777216} :
        Found("Colour", "Form.bin",
              [version |-> version, kind |-> k, id |-> id, again |-> again])

ColoursOfXml ==
    \E k \in {"absolute", "automatic", "styleReference"}, red, blue \in {0, 255}, green \in 0..1,
       alpha \in {254, 255}, style \in {<<>>, <<1, 15>>, <<3, -1>>, <<0>>, <<0, 0>>} :
        Found("Colour", "Form.xml", [kind |-> k, red |-> red, green |-> green, blue |-> blue,
                                     alpha |-> alpha, style |-> style])

-----------------------------------------------------------------------------
(* Fonts: the flags decide which fields a record has.                      *)

SomeFlags == SUBSET {"faceName", "height", "bold", "scale"}

FieldOf(f) == CASE f = "faceName" -> "Arial" [] f = "height" -> 8 [] f = "bold" -> 700
                [] f = "italic" -> TRUE [] OTHER -> FontFields[f]

MCFont(version, k, flags) ==
    [version |-> version, kind |-> k, flags |-> flags,
     selector |-> CASE k = "windowsFont" -> 2 [] k = "styleReference" -> TextFont [] OTHER -> NoSelector,
     fields |-> [f \in IF k = "absolute" THEN DOMAIN FontFields ELSE flags \ {"scale"} |->
                    IF f \in flags THEN FieldOf(f) ELSE FontFields[f]],
     scale |-> IF version = 8 THEN 50 ELSE NoScale]

ChangedField(r, f, v) == IF f \in DOMAIN r.fields THEN [r EXCEPT !.fields[f] = v] ELSE r

FontsOfBin ==
    \/ \E k \in FontKinds, flags \in SUBSET (DOMAIN FontFields \cup {"scale"}) :
          Found("Font", "Form.bin", MCFont(8, k, flags))
    \/ \E version \in 6..9, k \in FontKinds, flags \in SomeFlags :
        LET r == MCFont(version, k, flags) IN
        \/ Found("Font", "Form.bin", r)
        \/ \E n \in {-20, -1, 0, 4, 5} : Found("Font", "Form.bin", [r EXCEPT !.selector = n])
        \/ \E n \in {-1, 100} : Found("Font", "Form.bin", [r EXCEPT !.scale = n])
        \/ \E n \in {400, 500} : Found("Font", "Form.bin", ChangedField(r, "bold", n))
        \/ \E n \in {0, 9} : Found("Font", "Form.bin", ChangedField(r, "height", n))
        \/ Found("Font", "Form.bin", ChangedField(r, "faceName", ""))
        \/ \E f \in DOMAIN FontFields :
              Found("Font", "Form.bin", [r EXCEPT !.flags = @ \cup {f}])

FontsOfXml ==
    \E k \in FontKinds, set \in SUBSET {"faceName", "height", "bold"}, name \in {"", "Arial"},
       height \in {0, 80, 85}, scale \in {1000, 1005}, override \in BOOLEAN,
       selector \in {NoSelector, 2, 5}, style \in {"none", "TextFont", "other"} :
        Found("Font", "Form.xml",
              [kind |-> k, selector |-> selector, style |-> style, scale |-> scale,
               override |-> override,
               fields |-> [f \in set |-> CASE f = "faceName" -> name [] f = "height" -> height
                                           [] OTHER -> TRUE]])

-----------------------------------------------------------------------------
(* Borders.                                                                *)

Owners == {"UsualGroup", "Splitter", "InputField", "Chart", "Button"}

BordersOfBin ==
    \E owner \in Owners, k \in 0..1, ref \in {-18, 0, 1}, type \in {0, 4, 6, 7, 8, 200},
       width \in {0, 1, 2, 6}, state \in {0, 1, 3}, factory \in {"common", "group", "zero", "none"} :
        Found("Border", "Form.bin",
              [owner |-> owner, border |-> [kind |-> k, ref |-> ref, type |-> type, width |-> width,
                                            state |-> state, factory |-> factory]])

BordersOfXml ==
    \E owner \in Owners, style \in {"none", "ControlBorder", "other"}, type \in {0, 1, 6, 8},
       width \in {0, 1, 2, 5, 6} :
        Found("Border", "Form.xml",
              [owner |-> owner, border |-> [style |-> style, type |-> type, width |-> width]])

-----------------------------------------------------------------------------
(* Texts.                                                                  *)

TextsUpTo(n) == UNION {[1..m -> {"a", "CR", "LF"}] : m \in 0..n}

MCText(language, text) == [language |-> language, text |-> text]

Languages == {"ru", "en", "wrong"}

StoredText(folds, count, items) == [folds |-> folds, count |-> count, items |-> items]

TextsOfBin ==
    \E folds \in BOOLEAN :
        \/ \E n \in 0..1 : Found("Text", "Form.bin", StoredText(folds, n, <<>>))
        \/ \E l \in Languages, t \in TextsUpTo(4), n \in 1..3 :
              Found("Text", "Form.bin", StoredText(folds, n, <<MCText(l, t)>>))
        \/ \E l, m \in Languages, t, u \in TextsUpTo(2) :
              Found("Text", "Form.bin", StoredText(folds, 2, <<MCText(l, t), MCText(m, u)>>))
        \/ Found("Text", "Form.bin",
                 StoredText(folds, 3, <<MCText("ru", <<>>), MCText("en", <<>>), MCText("de", <<>>)>>))

TextsOfXml ==
    \E folds \in BOOLEAN :
        \/ \E t \in TextsUpTo(4) :
              Found("Text", "Form.xml", [folds |-> folds, value |-> PlainText(t)])
        \/ \E l, m \in Languages, t, u \in TextsUpTo(2), n \in 1..2 :
              Found("Text", "Form.xml",
                    [folds |-> folds,
                     value |-> Translations(SubSeq(<<MCText(l, t), MCText(m, u)>>, 1, n))])

-----------------------------------------------------------------------------
(* Types.                                                                  *)

StoredEntry(token, uuid, q) == [token |-> token, uuid |-> uuid, q |-> q]

Uuids == {"none", "null", "list", "tree", "catalog"}

StoredEntries ==
    {StoredEntry(t, u, <<>>) : t \in {"#", "L", "R", "T"}, u \in Uuids}
    \cup {StoredEntry("N", "none", q) : q \in {<<>>} \cup ((0..2) \X (0..3) \X (0..1))}
    \cup {StoredEntry("S", "none", q) : q \in {<<>>} \cup ((0..1) \X (0..1))}
    \cup {StoredEntry("D", "none", q) : q \in {<<>>} \cup ((0..2) \X (0..2))}
    \cup {StoredEntry(t, "none", q) : t \in {"B", "X"}, q \in {<<>>, <<1, 1>>}}

NamedEntries ==
    {[TypeEntry(t, u, <<>>) EXCEPT !.name = n] :
        t \in {"unknown", "object", "list", "reference", "valueList", "boolean"}, u \in Uuids,
        n \in {"none", "plain", "two words", "blank"}}
    \cup {TypeEntry("numeric", "none", q) : q \in (0..2) \X (0..3) \X (0..1)}
    \cup {TypeEntry(t, "none", q) : t \in {"string", "binary"}, q \in (0..1) \X (0..1)}
    \cup {TypeEntry("date", "none", q) : q \in (0..1) \X (0..1)}

TypesOfBin ==
    \/ Found("TypeDomain", "Form.bin", <<>>)
    \/ \E e \in StoredEntries : Found("TypeDomain", "Form.bin", <<e>>)
    \/ \E e \in StoredEntries, f \in {StoredEntry("#", "list", <<>>), StoredEntry("S", "none", <<0, 0>>)} :
          Found("TypeDomain", "Form.bin", <<e, f>>)

TypesOfXml ==
    \/ \E e \in NamedEntries : Found("TypeDomain", "Form.xml", <<e>>)
    \/ \E e \in NamedEntries, f \in {TypeEntry("unknown", "none", <<>>), TypeEntry("string", "none", <<0, 0>>)} :
          Found("TypeDomain", "Form.xml", <<f, e>>)

-----------------------------------------------------------------------------
(* Values of points.  A structure has numbers as names, 0 for none.        *)

Scalar(n) == [is |-> "scalar", as |-> n]
TypesOf(entries) == [is |-> "types", entries |-> entries]
Collection(is, keys, items) == [is |-> is, count |-> Len(items), keys |-> keys, items |-> items]
Array(items) == Collection("array", <<>>, items)

ValueList(ids, items, pictures, last) ==
    [is |-> "list", count |-> Len(items), types |-> <<>>, ids |-> ids, items |-> items,
     pictures |-> pictures, available |-> <<>>, last |-> last]

Nest[n \in 0..4] == IF n = 0 THEN Scalar(1) ELSE Array(<<Nest[n - 1]>>)

ListOf(v) == ValueList(<<1>>, <<v>>, <<FALSE>>, 1)

Several == <<Scalar(0), Scalar(1), Foreign, Nest[1], Nest[2], Nest[3], Nest[4], Array(<<>>),
             Array(<<Scalar(1), Scalar(2), Scalar(3)>>),
             TypesOf(<<StoredEntry("B", "none", <<>>)>>),
             TypesOf(<<StoredEntry("N", "none", <<1, 2, 0>>), StoredEntry("R", "catalog", <<>>)>>),
             TypesOf(<<StoredEntry("S", "none", <<0, 0>>)>>),
             TypesOf(<<StoredEntry("S", "none", <<0, 1>>)>>),
             ListOf(Scalar(1)), ListOf(Nest[1]), ListOf(Nest[2]),
             [ListOf(Scalar(1)) EXCEPT !.available = <<ValueList(<<>>, <<>>, <<>>, -1)>>],
             [ListOf(Scalar(1)) EXCEPT !.types = <<StoredEntry("N", "none", <<1, 2, 0>>)>>],
             [Array(<<Scalar(1)>>) EXCEPT !.count = 2],
             Array([i \in 1..(MaxNodes - 1) |-> Scalar(1)]),
             Array([i \in 1..MaxNodes |-> Scalar(1)])>>

OddCollections ==
    \E i, j \in DOMAIN Several :
        LET items == <<Several[i], Several[j]>> IN
        \/ Found("ChartValues", "Form.bin", items)
        \/ Found("ChartValues", "Form.bin", <<Array(items)>>)
        \/ \E names \in {<<1, 2>>, <<2, 1>>, <<1, 1>>, <<0, 1>>} :
              Found("ChartValues", "Form.bin", <<Collection("structure", names, items)>>)
        \/ \E a, b \in 1..2 :
              Found("ChartValues", "Form.bin",
                    <<Collection("map", <<Scalar(a), Scalar(b)>>, items)>>)
        \/ Found("ChartValues", "Form.bin",
                 <<Collection("map", <<Scalar(1), Several[i]>>, <<Scalar(2), Several[j]>>)>>)

OddLists ==
    \E i \in {2, 3, 4, 10} : \E a, b \in -1..2 : \E p, q \in BOOLEAN : \E last \in -2..3 :
        LET l == ValueList(<<a, b>>, <<Scalar(1), Several[i]>>, <<p, q>>, last) IN
        \/ Found("ChartValues", "Form.bin", <<l>>)
        \/ Found("ChartValues", "Form.bin", <<[l EXCEPT !.available = <<ListOf(Scalar(1))>>]>>)

XmlList(ids, last) ==
    [is |-> "list", types |-> <<>>, ids |-> ids, items |-> [i \in DOMAIN ids |-> Scalar(i)],
     pictures |-> [i \in DOMAIN ids |-> FALSE], available |-> <<>>, last |-> last]

XmlTypes(name, q) == TypesOf(<<[TypeEntry("reference", "catalog", <<>>) EXCEPT !.name = name],
                               TypeEntry("string", "none", q)>>)

ValuesOfXml ==
    \/ \E ids \in {<<>>, <<1>>, <<2, 1>>, <<1, 1>>}, last \in {<<>>, <<0>>, <<1>>, <<3>>} :
          Found("ChartValues", "Form.xml", <<XmlList(ids, last)>>)
    \/ \E n \in {"none", "plain", "two words", "blank"}, q \in (0..1) \X (0..1) :
          Found("ChartValues", "Form.xml", <<XmlTypes(n, q)>>)
    \/ \E i, j \in DOMAIN Several :
          /\ Several[i] # Foreign /\ Several[j] # Foreign
          /\ Found("ChartValues", "Form.xml",
                   Each(<<Several[i], Scalar(0), Several[j]>>, ValueDecoded))

ValuesInit ==
    \/ ColoursOfBin \/ ColoursOfXml \/ FontsOfBin \/ FontsOfXml \/ BordersOfBin \/ BordersOfXml
    \/ TextsOfBin \/ TextsOfXml \/ TypesOfBin \/ TypesOfXml
    \/ OddCollections \/ OddLists \/ ValuesOfXml

=============================================================================
