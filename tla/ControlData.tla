------------------------------ MODULE ControlData ------------------------------
(* What some kinds of control hold besides their properties: the cells of  *)
(* a spreadsheet document, the graph of a dendrogram, the dimensions and   *)
(* intervals of a Gantt chart; the items of a menu; the controls of a form *)
(* or a panel with what they are bound to; and the values that are records *)
(* of their own.  Each comes from Form.bin ("dump") or from a Form.xml     *)
(* written by hand, may pass through Form.xml, and goes into Form.bin      *)
(* ("build").                                                              *)
EXTENDS SpreadsheetCells, LinkedRows, Menus, ChildGeometry, PlatformValues,
        TypedValues

-----------------------------------------------------------------------------
(* The values of PlatformValues and TypedValues under common names: a      *)
(* colour, a font, a border with the control it is of, a text with the way *)
(* its property keeps line ends, the type of a field, and the values of    *)
(* the points of a chart.                                                  *)

ValueHolders == {"Colour", "Font", "Border", "Text", "TypeDomain", "ChartValues"}

ValueReadable(h, found) ==
    CASE h = "Colour" -> ColourReadable(found)
      [] h = "Font" -> FontReadable(found)
      [] h = "Border" -> BorderReadable(found.owner, found.border)
      [] h = "Text" -> TextReadable(found)
      [] h = "TypeDomain" -> All(found, EntryReadable)
      [] OTHER -> PointsReadable(found)

StoredDecoded(h, found) ==
    CASE h = "Colour" -> ColourDecoded(found)
      [] h = "Font" -> FontDecoded(found)
      [] h = "Border" -> [found EXCEPT !.border = BorderDecoded(@)]
      [] h = "Text" -> [folds |-> found.folds, value |-> TextDecoded(found)]
      [] h = "TypeDomain" -> Each(found, EntryDecoded)
      [] OTHER -> PointsDecoded(found)

StoredWritable(h, d) ==
    CASE h = "Colour" -> ColourWritable(d)
      [] h = "Font" -> FontWritable(d)
      [] h = "Border" -> BorderWritable(d.owner, d.border)
      [] h = "Text" -> TextsValid(d.value)
      [] h = "TypeDomain" -> All(d, EntryWritable)
      [] OTHER -> ValuesValid(d)

StoredEncoded(h, d) ==
    CASE h = "Colour" -> ColourEncoded(d)
      [] h = "Font" -> FontEncoded(d)
      [] h = "Border" -> [d EXCEPT !.border = BorderEncoded(d.owner, @)]
      [] h = "Text" -> TextEncoded(d.folds, d.value)
      [] h = "TypeDomain" -> Each(d, EntryEncoded)
      [] OTHER -> Each(d, ValueEncoded)

\* Only the profile of a chart is compared with what would be written back.
ValueWarns(h, found) ==
    h = "ChartValues" /\ StoredEncoded(h, StoredDecoded(h, found)) # found

ValuePrints(h, d) ==
    CASE h = "Colour" -> ColourSound(d)
      [] h = "Font" -> FontSound(d)
      [] h = "Border" -> BorderValid(d.border)
      [] h = "Text" -> TextPrints(d.value)
      [] h = "TypeDomain" -> All(d, EntryPrints)
      [] OTHER -> ValuesPrint(d)

StoredPrinted(h, d) ==
    CASE h = "Text" -> [d EXCEPT !.value = TextPrinted(@)]
      [] h = "ChartValues" -> Each(d, ValuePrinted)
      [] OTHER -> d

ValueParses(h, x) ==
    CASE h = "Colour" -> ColourSound(x)
      [] h = "Font" -> FontSound(x)
      [] h = "Border" -> BorderValid(x.border)
      [] h = "Text" -> TextsValid(x.value)
      [] h = "TypeDomain" -> All(x, EntryParses)
      [] OTHER -> ValuesParse(x)

StoredParsed(h, x) ==
    CASE h = "TypeDomain" -> Each(x, EntryParsed)
      [] h = "ChartValues" -> Each(x, ValueParsed)
      [] OTHER -> x

-----------------------------------------------------------------------------

\* Where lines are kept with LF only, every "dump" drops one CR of those
\* before it; here a line end is an LF with all of them.
LineEndsOnly(text) ==
    LET ends(i) == \E j \in (i + 1)..Len(text) :
                      text[j] = "LF" /\ \A k \in i..(j - 1) : text[k] = "CR"
        at == SetToSortSeq({i \in DOMAIN text : ~ends(i)}, <)
    IN  [i \in DOMAIN at |-> text[at[i]]]

\* A type has no name in Form.bin, and a string of any length is variable.
SameEntry(d) ==
    IF d.term = "string" /\ d.q[1] = 0 THEN [Nameless(d) EXCEPT !.q = <<0, 1>>] ELSE Nameless(d)

\* A map has no order, and a value list has always given an identifier.
RECURSIVE Meaning(_)
Meaning(v) ==
    CASE v.is = "types" -> [v EXCEPT !.entries = Each(@, SameEntry)]
      [] v.is = "list" ->
            [v EXCEPT !.types = Each(@, SameEntry), !.items = Each(@, Meaning),
                      !.available = Each(@, Meaning),
                      !.last = IF @ = <<>> THEN <<Latest(v.ids)>> ELSE @]
      [] v.is = "map" ->
            [k \in ToSet(v.keys) |-> Meaning(v.items[CHOOSE i \in DOMAIN v.keys : v.keys[i] = k])]
      [] v.is \in {"array", "structure"} -> [v EXCEPT !.items = Each(@, Meaning)]
      [] OTHER -> v

SameValue(h, d) ==
    CASE h = "Text" ->
            LET items == TextEncoded(FALSE, d.value).items
            IN  IF d.folds THEN InLines(items, LineEndsOnly) ELSE items
      [] h = "TypeDomain" -> Each(d, SameEntry)
      [] h = "ChartValues" -> Each(d, Meaning)
      [] OTHER -> d

\* Form.bin may hold a number with more decimals than digits; only the
\* writer of Form.xml, the last of all, minds it.
TooPreciseForXml(h, d) ==
    \/ h = "TypeDomain" /\ \E i \in DOMAIN d : TooPrecise(d[i])
    \/ h = "ChartValues" /\ ~All(d, LAMBDA v : Everywhere(v, LAMBDA n :
          CASE n.is = "types" -> All(n.entries, LAMBDA e : ~TooPrecise(e))
            [] n.is = "list" -> All(n.types, LAMBDA e : ~TooPrecise(e))
            [] OTHER -> TRUE))

-----------------------------------------------------------------------------

VARIABLES
    holder,     \* the kind of the control, or of the value
    origin,     \* "Form.bin" or "Form.xml"
    source,     \* what that file holds
    held,       \* the same, in the model
    reported,   \* the decoder could not keep all of it (OOF1140)
    rewritten,  \* what "build" wrote
    step        \* "found", "dumped", "loaded", "built", "refused" or "idle"

dataVars == <<holder, origin, source, held, reported, rewritten, step>>

Holders == ValueHolders \cup {"SpreadsheetDocumentField", "Dendrogram", "GanttChart", "Menu",
                            "ChildItems"}

-----------------------------------------------------------------------------
(* The codecs of the kinds.                                                *)

DataReadable(h, found) ==
    CASE h \in ValueHolders -> ValueReadable(h, found)
      [] h = "SpreadsheetDocumentField" -> SheetReadable(found)
      [] h = "Dendrogram" -> GraphReadable(found)
      [] h = "Menu" -> MenuReadable(found)
      [] h = "ChildItems" -> ChildrenReadable(found)
      [] OTHER -> ChartReadable(found)

DataDecoded(h, found) ==
    CASE h \in ValueHolders -> StoredDecoded(h, found)
      [] h = "SpreadsheetDocumentField" -> CellsDecoded(found)
      [] h = "Dendrogram" -> GraphDecoded(found)
      [] h = "Menu" -> MenuDecoded(found)
      [] h = "ChildItems" -> ChildrenDecoded(found)
      [] OTHER -> ChartDecoded(found)

\* How the rows of the other kinds are ordered and numbered is overlooked.
DataWarns(h, found) ==
    CASE h \in ValueHolders -> ValueWarns(h, found)
      [] h = "Menu" -> MenuWarns(found)
      [] h = "ChildItems" -> ChildrenWarn(found)
      [] OTHER -> h = "SpreadsheetDocumentField" /\ SheetWarns(found)

DataWritable(h, d) ==
    CASE h \in ValueHolders -> StoredWritable(h, d)
      [] h = "SpreadsheetDocumentField" -> CellsValid(d)
      [] h = "Dendrogram" -> GraphValid(d)
      [] h = "Menu" -> MenuWritable(d)
      [] h = "ChildItems" -> ChildrenWritable(d)
      [] OTHER -> ChartValid(d) /\ ChartFits(d)

DataEncoded(h, d) ==
    CASE h \in ValueHolders -> StoredEncoded(h, d)
      [] h = "SpreadsheetDocumentField" -> SheetEncoded(d)
      [] h = "Dendrogram" -> GraphEncoded(d)
      [] h = "Menu" -> MenuEncoded(d)
      [] h = "ChildItems" -> ChildrenEncoded(d)
      [] OTHER -> ChartEncoded(d)

\* write_control; only a dendrogram is checked once more.
DataPrints(h, d) ==
    CASE h \in ValueHolders -> ValuePrints(h, d)
      [] OTHER -> h = "Dendrogram" => GraphValid(d)

DataPrinted(h, d) ==
    CASE h \in ValueHolders -> StoredPrinted(h, d)
      [] h = "SpreadsheetDocumentField" -> CellsPrinted(d)
      [] h = "Dendrogram" -> GraphPrinted(d)
      [] OTHER -> d

\* parse_control and OrdinaryFormDocument::validate.
DataParses(h, x) ==
    CASE h \in ValueHolders -> ValueParses(h, x)
      [] h = "SpreadsheetDocumentField" -> XmlCellsReadable(x) /\ CellsValid(CellsParsed(x))
      [] h = "Dendrogram" -> GraphParses(x)
      [] h = "Menu" -> MenuValid(x)
      [] h = "ChildItems" -> ChildrenParse(x)
      [] OTHER -> ChartValid(x)

DataParsed(h, x) ==
    CASE h \in ValueHolders -> StoredParsed(h, x)
      [] h = "SpreadsheetDocumentField" -> CellsParsed(x)
      [] h = "Dendrogram" -> GraphPrinted(x)
      [] OTHER -> x

\* What is the same in a platform that reads it: false goes without saying,
\* and a number has many spellings.
SameData(h, d) ==
    CASE h \in ValueHolders -> SameValue(h, d)
      [] h = "ChildItems" -> SameChildren(d)
      [] OTHER -> DataPrinted(h, d)

-----------------------------------------------------------------------------

DumpData ==
    /\ step = "found" /\ origin = "Form.bin"
    /\ DataReadable(holder, source)
    /\ held' = DataDecoded(holder, source)
    /\ reported' = DataWarns(holder, source)
    /\ step' = "dumped"
    /\ UNCHANGED <<holder, origin, source, rewritten>>

ParseData ==
    /\ step = "found" /\ origin = "Form.xml"
    /\ DataParses(holder, source)
    /\ held' = DataParsed(holder, source)
    /\ step' = "loaded"
    /\ UNCHANGED <<holder, origin, source, reported, rewritten>>

RefuseData ==
    /\ \/ step = "found" /\ origin = "Form.bin" /\ ~DataReadable(holder, source)
       \/ step = "found" /\ origin = "Form.xml" /\ ~DataParses(holder, source)
       \/ step \in {"dumped", "loaded"} /\ ~DataWritable(holder, held)
    /\ step' = "refused"
    /\ UNCHANGED <<holder, origin, source, held, reported, rewritten>>

DataThroughXml ==
    /\ step = "dumped"
    /\ DataPrints(holder, held)
    /\ DataParses(holder, DataPrinted(holder, held))
    /\ held' = DataParsed(holder, DataPrinted(holder, held))
    /\ step' = "loaded"
    /\ UNCHANGED <<holder, origin, source, reported, rewritten>>

BuildData ==
    /\ step \in {"dumped", "loaded"}
    /\ DataWritable(holder, held)
    /\ rewritten' = DataEncoded(holder, held)
    /\ step' = "built"
    /\ UNCHANGED <<holder, origin, source, held, reported>>

DataNext == DumpData \/ ParseData \/ RefuseData \/ DataThroughXml \/ BuildData

-----------------------------------------------------------------------------

\* What "dump" accepts, Form.xml takes and "build" accepts; and what "build"
\* writes, from Form.bin or from a Form.xml that was written by hand, is
\* dumped without a warning as what it was: every cell with its type and its
\* value, every link with its ends, every row in its place (decode_X and
\* encode_X, whose tables of formats, keys, chains and dependants are built
\* anew), every item of a menu in its collection, every control with its
\* bindings and its place in the tab order, every colour, font, border, text,
\* type and tree of values with all its parts.
\* One value only is refused after Form.bin was read: see TooPreciseForXml.
DataComesBack ==
    /\ step = "dumped" =>
          /\ DataWritable(holder, held)
          /\ \/ DataPrints(holder, held) /\ DataParses(holder, DataPrinted(holder, held))
             \/ TooPreciseForXml(holder, held)
    /\ step \in {"loaded", "built"} /\ origin = "Form.bin" =>
          SameData(holder, held) = SameData(holder, DataDecoded(holder, source))
    /\ step = "built" =>
          /\ DataReadable(holder, rewritten)
          /\ ~DataWarns(holder, rewritten)
          /\ SameData(holder, DataDecoded(holder, rewritten)) = SameData(holder, held)

=============================================================================
