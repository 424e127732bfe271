----------------------------- MODULE TypedValues -----------------------------
(* Values of any type: descriptions of types, arrays, structures, maps and *)
(* value lists of further values, as the points of a chart have them.  A   *)
(* form from outside may nest them without end, so a tree is limited in    *)
(* depth and in the number of its nodes: in Form.bin every value has the   *)
(* limit to itself, in the model and in Form.xml they share one.           *)
EXTENDS Integers, Sequences, FiniteSets, SequencesExt

CONSTANTS
    MaxDepth,       \* max_typed_value_depth
    MaxNodes        \* max_typed_value_nodes

-----------------------------------------------------------------------------
(* Descriptions of types.  An entry of Form.bin is a token, maybe an       *)
(* identifier, and qualifiers: length, precision, sign of a number, length *)
(* and variability of a string, how often a date has the letters D and T.  *)

Collections == [list |-> "valueList", table |-> "valueTable", tree |-> "valueTree"]

TermOf == [L |-> "list", R |-> "reference", T |-> "type", N |-> "numeric", S |-> "string",
           B |-> "boolean", D |-> "date"]

ReferenceLike == {"object", "list", "reference", "type"}

DefaultQualifiers(term) ==
    CASE term = "numeric" -> <<0, 0, 0>>
      [] term \in {"string", "binary"} -> <<0, 1>>
      [] term = "date" -> <<1, 1>>
      [] OTHER -> <<>>

TypeEntry(term, uuid, q) == [term |-> term, uuid |-> uuid, name |-> "none", q |-> q]

EntryReadable(e) ==
    /\ e.token \in DOMAIN TermOf \cup {"#"}
    /\ e.token = "B" => e.q = <<>>
    /\ e.token = "N" /\ e.q # <<>> => (e.q[1] = 0 => e.q[2] = 0)
    /\ e.token = "D" /\ e.q # <<>> => e.q[1] <= 1 /\ e.q[2] <= 1

EntryDecoded(e) ==
    IF e.token = "#"
    THEN CASE e.uuid = "none" -> TypeEntry("unknown", "none", <<>>)
           [] e.uuid \in DOMAIN Collections -> TypeEntry(Collections[e.uuid], "none", <<>>)
           [] OTHER -> TypeEntry("object", e.uuid, <<>>)
    ELSE TypeEntry(TermOf[e.token], e.uuid,
                   IF e.q = <<>> THEN DefaultQualifiers(TermOf[e.token]) ELSE e.q)

EntryWritable(d) ==
    /\ d.term # "binary"
    /\ d.name # "none" =>
          d.term \in ReferenceLike /\ d.uuid \notin {"none", "null"} /\ d.name = "plain"
    /\ d.term = "object" => d.uuid \notin DOMAIN Collections \cup {"none"}
    /\ d.uuid # "none" => d.term \in ReferenceLike
    /\ d.term = "numeric" => (d.q[1] = 0 => d.q[2] = 0)

\* The length of a string decides whether it is variable.
EntryEncoded(d) ==
    LET known == {u \in DOMAIN Collections : Collections[u] = d.term}
        short == d.q = DefaultQualifiers(d.term) \/ (d.term = "string" /\ d.q[1] = 0)
    IN  [token |-> IF d.term \in {"unknown", "object"} \/ known # {} THEN "#"
                   ELSE CHOOSE t \in DOMAIN TermOf : TermOf[t] = d.term,
         uuid |-> IF known # {} THEN CHOOSE u \in known : TRUE ELSE d.uuid,
         q |-> IF short THEN <<>> ELSE d.q]

\* write_type_domain of Form.xml; only it minds more decimals than digits.
TooPrecise(d) == d.term = "numeric" /\ d.q[1] # 0 /\ d.q[2] > d.q[1]

Nameable(d) ==
    d.name # "none" => d.term \in ReferenceLike /\ d.uuid \notin {"none", "null"} /\ d.name # "blank"

EntryPrints(d) ==
    /\ d.term = "object" => d.uuid \notin {"none", "tree"}
    /\ d.uuid # "none" => d.term \in ReferenceLike
    /\ d.term = "numeric" => (d.q[1] = 0 => d.q[2] = 0)
    /\ Nameable(d) /\ ~TooPrecise(d)

\* parse_type_domain
EntryParses(x) ==
    /\ x.term = "object" => x.uuid \notin {"none", "tree"}
    /\ x.uuid # "none" => x.term \in ReferenceLike
    /\ Nameable(x) /\ ~TooPrecise(x)

EntryParsed(x) == IF x.term = "numeric" /\ x.q[1] = 0 THEN [x EXCEPT !.q[2] = 0] ELSE x

All(entries, Test(_)) == \A i \in DOMAIN entries : Test(entries[i])
Each(entries, Turned(_)) == [i \in DOMAIN entries |-> Turned(entries[i])]

Nameless(d) == [d EXCEPT !.name = "none"]

\* validate_typed_description: names are no part of a type.
Stable(entries) ==
    /\ All(entries, EntryWritable)
    /\ Each(Each(entries, EntryEncoded), EntryDecoded) = Each(entries, Nameless)

-----------------------------------------------------------------------------
(* Trees.  A value is a scalar, a foreign one (of a type this program does *)
(* not know), a description, a collection with items and maybe keys, or a  *)
(* value list: identifiers, items, pictures, and the values that may be    *)
(* chosen.  Fixed collections, marks and presentations go along unchanged; *)
(* a presentation is a node of its own.                                    *)

Undefined == [is |-> "scalar", as |-> 0]
Foreign == [is |-> "foreign"]

Keyed(v) == IF v.is = "map" THEN v.keys ELSE <<>>

\* The values in a value, and how much deeper they lie.
Parts(v) ==
    CASE v.is = "list" -> [i \in DOMAIN v.items |-> <<v.items[i], 2>>]
                            \o [i \in DOMAIN v.available |-> <<v.available[i], 1>>]
      [] v.is \in {"array", "structure", "map"} ->
            [i \in DOMAIN v.items |-> <<v.items[i], 1>>]
              \o [i \in DOMAIN Keyed(v) |-> <<v.keys[i], 1>>]
      [] OTHER -> <<>>

RECURSIVE NodesOf(_, _)
NodesOf(v, depth) ==
    <<[value |-> v, depth |-> depth]>>
      \o FlattenSeq([i \in DOMAIN Parts(v) |-> NodesOf(Parts(v)[i][1], depth + Parts(v)[i][2])])

AllNodes(v) == NodesOf(v, 0)

\* What counts besides the values: types, items, presentations, pictures.
Besides(v) ==
    CASE v.is = "types" -> Len(v.entries)
      [] v.is = "list" -> Len(v.types) + 2 * Len(v.items)
                            + Len(SelectSeq(v.pictures, LAMBDA p : p))
      [] OTHER -> 0

Size(nodes) == FoldLeft(LAMBDA n, node : n + 1 + Besides(node.value), 0, nodes)

Shallow(v) ==
    LET nodes == AllNodes(v) IN \A i \in DOMAIN nodes : nodes[i].depth <= MaxDepth

Everywhere(v, Test(_)) ==
    LET nodes == AllNodes(v) IN \A i \in DOMAIN nodes : Test(nodes[i].value)

\* decode_typed_value_node counts for every value anew,
StoredFits(v) == Shallow(v) /\ Size(AllNodes(v)) <= MaxNodes

\* OrdinaryFormDocument::validate for all values of the form,
ValuesFit(vs) ==
    /\ All(vs, Shallow)
    /\ FoldLeft(LAMBDA n, v : n + Size(AllNodes(v)), 0, vs) <= MaxNodes

\* and the parser of Form.xml for those that are in the file.
XmlFits(vs) == ValuesFit(SelectSeq(vs, LAMBDA v : v # Undefined))

-----------------------------------------------------------------------------
(* A value list knows the largest identifier it ever gave; in the model    *)
(* and in Form.xml it may go without saying.                               *)

Latest(ids) == FoldLeft(LAMBDA n, id : IF id > n THEN id ELSE n, -1, ids)

EffectiveLast(v) == IF v.last = <<>> THEN Latest(v.ids) ELSE v.last[1]

Distinct(s) == \A i, j \in DOMAIN s : s[i] = s[j] => i = j

NodeReadable(v) ==
    CASE v.is = "foreign" -> FALSE
      [] v.is = "types" -> All(v.entries, EntryReadable)
      [] v.is = "list" -> /\ v.count = Len(v.items) /\ All(v.types, EntryReadable)
                          /\ \A i \in DOMAIN v.ids : v.ids[i] >= 0
                          /\ v.last >= Latest(v.ids)
      [] v.is \in {"array", "structure", "map"} -> v.count = Len(v.items)
      [] OTHER -> TRUE

\* validate_typed_value_node
NodeValid(v) ==
    CASE v.is = "types" -> Stable(v.entries)
      [] v.is = "structure" -> Distinct(v.keys) /\ \A i \in DOMAIN v.keys : v.keys[i] # 0
      [] v.is = "map" -> Distinct(v.keys) /\ \A i \in DOMAIN v.keys : v.keys[i].is = "scalar"
      [] v.is = "list" -> Stable(v.types) /\ Distinct(v.ids) /\ EffectiveLast(v) >= Latest(v.ids)
      [] OTHER -> TRUE

NodePrints(v) ==
    CASE v.is = "types" -> All(v.entries, EntryPrints)
      [] v.is = "list" -> All(v.types, EntryPrints)
      [] OTHER -> TRUE

NodeParses(x) ==
    CASE x.is = "types" -> All(x.entries, EntryParses)
      [] x.is = "structure" -> Distinct(x.keys) /\ \A i \in DOMAIN x.keys : x.keys[i] # 0
      [] x.is = "list" -> /\ All(x.types, EntryParses) /\ Distinct(x.ids)
                          /\ x.ids # <<>> => EffectiveLast(x) >= Latest(x.ids)
      [] OTHER -> TRUE

-----------------------------------------------------------------------------
(* From one form into another.                                             *)

RECURSIVE ValueDecoded(_)
ValueDecoded(v) ==
    CASE v.is = "types" -> [v EXCEPT !.entries = Each(@, EntryDecoded)]
      [] v.is = "list" ->
            [is |-> "list", types |-> Each(v.types, EntryDecoded), ids |-> v.ids,
             items |-> Each(v.items, ValueDecoded), pictures |-> v.pictures,
             available |-> Each(v.available, ValueDecoded),
             last |-> IF v.last = Latest(v.ids) THEN <<>> ELSE <<v.last>>]
      [] v.is \in {"array", "structure", "map"} ->
            [is |-> v.is, items |-> Each(v.items, ValueDecoded),
             keys |-> IF v.is = "map" THEN Each(v.keys, ValueDecoded) ELSE v.keys]
      [] OTHER -> v

RECURSIVE ValueEncoded(_)
ValueEncoded(v) ==
    CASE v.is = "types" -> [v EXCEPT !.entries = Each(@, EntryEncoded)]
      [] v.is = "list" ->
            [is |-> "list", count |-> Len(v.items), types |-> Each(v.types, EntryEncoded),
             ids |-> v.ids, items |-> Each(v.items, ValueEncoded), pictures |-> v.pictures,
             available |-> Each(v.available, ValueEncoded), last |-> EffectiveLast(v)]
      [] v.is \in {"array", "structure", "map"} ->
            [is |-> v.is, count |-> Len(v.items), items |-> Each(v.items, ValueEncoded),
             keys |-> IF v.is = "map" THEN Each(v.keys, ValueEncoded) ELSE v.keys]
      [] OTHER -> v

InKeyOrder(v) ==
    LET at == SetToSortSeq(DOMAIN v.keys, LAMBDA i, j : v.keys[i].as < v.keys[j].as)
    IN  [v EXCEPT !.keys = [i \in DOMAIN at |-> v.keys[at[i]]],
                  !.items = [i \in DOMAIN at |-> v.items[at[i]]]]

\* write_typed_value_node: a map is written in the order of its keys.
RECURSIVE ValuePrinted(_)
ValuePrinted(v) ==
    CASE v.is = "list" ->
            [v EXCEPT !.items = Each(@, ValuePrinted), !.available = Each(@, ValuePrinted),
                      !.last = IF EffectiveLast(v) = Latest(v.ids) THEN <<>> ELSE v.last]
      [] v.is = "map" -> InKeyOrder([v EXCEPT !.items = Each(@, ValuePrinted)])
      [] v.is \in {"array", "structure"} -> [v EXCEPT !.items = Each(@, ValuePrinted)]
      [] OTHER -> v

RECURSIVE ValueParsed(_)
ValueParsed(x) ==
    CASE x.is = "types" -> [x EXCEPT !.entries = Each(@, EntryParsed)]
      [] x.is = "list" ->
            [x EXCEPT !.types = Each(@, EntryParsed), !.items = Each(@, ValueParsed),
                      !.available = Each(@, ValueParsed)]
      [] x.is \in {"array", "structure", "map"} ->
            [x EXCEPT !.items = Each(@, ValueParsed),
                      !.keys = IF x.is = "map" THEN Each(@, ValueParsed) ELSE @]
      [] OTHER -> x

-----------------------------------------------------------------------------
(* All values of a form.                                                   *)

\* A chart leaves a value out that is of a type it does not know.
PointsDecoded(vs) == Each(vs, LAMBDA v : IF v = Foreign THEN Undefined ELSE ValueDecoded(v))

ValuesValid(vs) == ValuesFit(vs) /\ All(vs, LAMBDA v : Everywhere(v, NodeValid))

PointsReadable(vs) ==
    /\ All(vs, LAMBDA v : v # Foreign => StoredFits(v) /\ Everywhere(v, NodeReadable))
    /\ ValuesValid(PointsDecoded(vs))

ValuesPrint(vs) == All(vs, LAMBDA v : Everywhere(v, NodePrints))

ValuesParse(vs) ==
    /\ XmlFits(vs) /\ All(vs, LAMBDA v : Everywhere(v, NodeParses))
    /\ ValuesValid(Each(vs, ValueParsed))

=============================================================================
