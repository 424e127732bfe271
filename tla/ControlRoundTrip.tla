--------------------------- MODULE ControlRoundTrip ---------------------------
(* One control of a form, as Form.bin keeps it and as the model does:      *)
(* "dump" decodes the record of the control, an editor sets and resets its *)
(* properties, Form.xml keeps those that differ from the default of the    *)
(* metamodel, "build" writes a record of what is left.  decode_X and       *)
(* encode_X of form_stream.cpp are one another's inverse, and Form.xml     *)
(* loses nothing, only if three tables of every kind X (two of FieldKinds  *)
(* or DataKinds, one of PropertyDefaults) say the same.                   *)
EXTENDS PropertyDefaults

CONSTANTS
    Kinds,          \* the kinds of control that are tried
    MaxEdits        \* properties set on a control, by its kind

VARIABLES
    kind,       \* the kind of the control
    record,     \* what Form.bin holds of it; of no more account once it is edited
    control,    \* its explicit properties, in the model
    warned,     \* the decoder could not keep all of the record (OOF1140)
    stage       \* "stored", "dumped", "edited", "loaded", "built" or "refused"

vars == <<kind, record, control, warned, stage>>

-----------------------------------------------------------------------------
(* The three tables, by kind.                                              *)

Reads ==
    [ProgressBar |-> ProgressBarReads @@ MetaReads, TrackBar |-> TrackBarReads @@ MetaReads,
     ListBox |-> ListBoxReads @@ MetaReads, CheckBox |-> CheckBoxReads @@ MetaReads,
     ChoiceField |-> ChoiceFieldReads @@ MetaReads,
     TextDocumentField |-> TextDocumentReads @@ MetaReads,
     CalendarField |-> CalendarReads @@ MetaReads,
     HTMLDocumentField |-> HTMLDocumentReads @@ MetaReads,
     PivotChart |-> PivotChartReads @@ MetaReads, SchemaField |-> SchemaReads @@ MetaReads,
     Button |-> ButtonReads @@ MetaReads, CommandBar |-> CommandBarReads @@ MetaReads,
     UsualGroup |-> UsualGroupReads @@ MetaReads,
     PictureDecoration |-> PictureReads @@ MetaReads, Splitter |-> SplitterReads @@ MetaReads,
     LabelDecoration |-> LabelReads @@ MetaReads, RadioButton |-> RadioReads @@ MetaReads,
     InputField |-> InputFieldReads @@ MetaReads, Table |-> TableReads @@ MetaReads,
     SpreadsheetDocumentField |-> SheetReads @@ MetaReads,
     Dendrogram |-> DendrogramReads @@ MetaReads, GanttChart |-> GanttReads @@ MetaReads,
     TableColumn |-> ColumnReads]

Writes ==
    [ProgressBar |-> ProgressBarWrites @@ MetaWrites, TrackBar |-> TrackBarWrites @@ MetaWrites,
     ListBox |-> ListBoxWrites @@ MetaWrites, CheckBox |-> CheckBoxWrites @@ MetaWrites,
     ChoiceField |-> ChoiceFieldWrites @@ MetaWrites,
     TextDocumentField |-> TextDocumentWrites @@ MetaWrites,
     CalendarField |-> CalendarWrites @@ MetaWrites,
     HTMLDocumentField |-> HTMLDocumentWrites @@ MetaWrites,
     PivotChart |-> PivotChartWrites @@ MetaWrites, SchemaField |-> SchemaWrites @@ MetaWrites,
     Button |-> ButtonWrites @@ MetaWrites, CommandBar |-> CommandBarWrites @@ MetaWrites,
     UsualGroup |-> UsualGroupWrites @@ MetaWrites,
     PictureDecoration |-> PictureWrites @@ MetaWrites,
     Splitter |-> SplitterWrites @@ MetaWrites, LabelDecoration |-> LabelWrites @@ MetaWrites,
     RadioButton |-> RadioWrites @@ MetaWrites,
     InputField |-> InputFieldWrites @@ MetaWrites, Table |-> TableWrites @@ MetaWrites,
     SpreadsheetDocumentField |-> SheetWrites @@ MetaWrites,
     Dendrogram |-> DendrogramWrites @@ MetaWrites, GanttChart |-> GanttWrites @@ MetaWrites,
     TableColumn |-> ColumnWrites]

\* Where the canonical record of the kind has a property.
CommonInfo == [State |-> 17, Events |-> Events, DataPath |-> Link] @@ MetaSlot @@ BaseSlot

Layout ==
    [ProgressBar |-> ProgressBarInfo @@ CommonInfo, TrackBar |-> TrackBarInfo @@ CommonInfo,
     ListBox |-> ListBoxInfo @@ CommonInfo, CheckBox |-> CheckBoxInfo @@ CommonInfo,
     ChoiceField |-> ChoiceFieldInfo @@ CommonInfo, TextDocumentField |-> CommonInfo,
     CalendarField |-> CalendarInfo @@ CommonInfo,
     HTMLDocumentField |-> HTMLDocumentInfo @@ CommonInfo,
     PivotChart |-> ComplexInfo @@ CommonInfo, SchemaField |-> ComplexInfo @@ CommonInfo,
     Button |-> ButtonInfo @@ CommonInfo, CommandBar |-> CommandBarInfo @@ CommonInfo,
     UsualGroup |-> UsualGroupInfo @@ CommonInfo,
     PictureDecoration |-> PictureInfo @@ CommonInfo, Splitter |-> SplitterInfo @@ CommonInfo,
     LabelDecoration |-> LabelInfo @@ CommonInfo, RadioButton |-> RadioInfo @@ CommonInfo,
     InputField |-> InputFieldInfo @@ CommonInfo, Table |-> TableInfo @@ CommonInfo,
     SpreadsheetDocumentField |-> SheetInfo @@ CommonInfo,
     Dendrogram |-> DendrogramInfo @@ CommonInfo, GanttChart |-> GanttInfo @@ CommonInfo,
     TableColumn |-> ColumnInfo]

-----------------------------------------------------------------------------
(* The rules between several slots.                                        *)

\* Slots that are no property of the model.
Unnamed ==
    {"State", "Pressed", "PictureSizeCopy", "PivotTypeCopy", "TextEditCopy", "Length", "Precision",
     "Scalar", "ListContext", "TreeFlags", "SourceType", "HorizontalCopy", "VerticalCopy", "View",
     "TailWord", "ChartSettings", "BeginCopy", "ViewWord", "ViewColour", "LayoutValue",
     "WidthCopy", "SpareWidth", "EditorType", "Pair"}

\* Unknown codes of these are reported and read as the default.
Lenient(k) ==
    CASE k = "ListBox" -> {"ReadOnly"}
      [] k = "Button" -> {"State", "Pressed"}
      [] k = "Dendrogram" -> {"TailWord", "ChartSettings"}
      [] k = "GanttChart" -> {"TailWord", "ChartSettings", "ViewWord", "ViewColour"}
      [] OTHER -> {}

\* These kinds refuse a record that no model describes; the others report it.
Strict == {"CommandBar", "HTMLDocumentField", "Dendrogram", "GanttChart"}

\* The value 2 has more than the ten digits of a counter.
Fits(value, type) == value = 1 \/ (value = 2 /\ type = NumberType)

\* A radio button that is alone in its group.  v[p] is the value of p.
RadioStands(v) ==
    /\ v["DataPath"] # Unbound => v["ValueType"] = v["DataPath"]
    /\ \/ /\ v["FirstInGroup"] = 1 /\ v["DataPath"] # Unbound
          /\ v["ValueType"] \in Numbers /\ Fits(v["SelectionValue"], v["ValueType"])
       \/ v["DataPath"] = Unbound /\ v["ValueType"] = EmptyType /\ v["SelectionValue"] = 0

Agree(k, v) ==
    CASE k = "PictureDecoration" -> v["PictureSizeCopy"] = v["PictureSize"]
      [] k = "LabelDecoration" ->
           v["PictureSizeCopy"] = v["PictureSize"] \/ (v["Picture"] = 0 /\ v["PictureSizeCopy"] = 0)
      [] k = "PivotChart" -> v["PivotTypeCopy"] = v["PivotChartType"]
      [] k = "RadioButton" -> RadioStands(v)
      [] k = "InputField" -> InputFieldAgrees(v)
      [] k = "Table" -> TableAgrees(v)
      [] k = "SpreadsheetDocumentField" -> SheetAgrees(v)
      [] k = "GanttChart" -> GanttAgrees(v)
      [] k = "TableColumn" -> ColumnAgrees(v)
      [] OTHER -> TRUE

\* What the slots mean together.
Meant(k, v) ==
    CASE k = "InputField" -> InputFieldMeans(v)
      [] k = "GanttChart" -> GanttMeans(v)
      [] OTHER -> v

\* Slots that no property accounts for and that are reported.
Excess(k, v) ==
    CASE k = "InputField" -> InputFieldWarns(v)
      [] k = "Table" -> TableWarns(v)
      [] k = "GanttChart" -> GanttWarns(v)
      [] k = "TableColumn" -> ColumnWarns(v)
      [] OTHER -> FALSE

\* A field that is bound has a type even if none is said.
Effective(k, v) == IF k = "InputField" THEN Typed(v) ELSE v

\* What an encoder checks between the properties: c are those of the
\* control, v the values of all.
Sound(k, c, v) ==
    CASE k = "RadioButton" -> RadioStands(v)
      [] k = "InputField" -> InputFieldSound(c, v)
      [] k = "Table" -> TableSound(c, v)
      [] k = "GanttChart" -> GanttSound(c, v)
      [] k = "TableColumn" -> ColumnSound(c, v)
      [] OTHER -> TRUE

\* What an encoder writes into slots whatever the property there is.
Copied(k, v) ==
    CASE k = "Button" -> [State |-> 2, Pressed |-> 1]
      [] k = "CommandBar" -> [State |-> 2]
      [] k = "PivotChart" -> [PivotTypeCopy |-> v["PivotChartType"]]
      [] k = "PictureDecoration" -> [PictureSizeCopy |-> v["PictureSize"]]
      [] k = "LabelDecoration" ->
           [PictureSizeCopy |->
               IF v["Picture"] = 0 /\ v["PictureSize"] = 4 THEN 0 ELSE v["PictureSize"]]
      [] k = "InputField" -> InputFieldCopies(v)
      [] k = "Table" -> [TreeFlags |-> v["Tree"], SourceType |-> v["DataPath"]]
      [] k = "SpreadsheetDocumentField" -> SheetCopies(v)
      [] k = "Dendrogram" -> [TailWord |-> 0, ChartSettings |-> 0]
      [] k = "GanttChart" -> [TailWord |-> 0, ChartSettings |-> 0] @@ GanttCopies(v)
      [] k = "TableColumn" -> ColumnCopies(v)
      [] OTHER -> Empty

-----------------------------------------------------------------------------
(* decode_X                                                                *)

Slots == [k \in Kinds |-> {Reads[k][p].at : p \in DOMAIN Reads[k]} \cup {Rest}]

Stored(k, r) == [p \in DOMAIN Reads[k] |-> r[Reads[k][p].at]]

Known(k, r, p) == r[Reads[k][p].at] \in Reads[k][p].legal

Readable(k, r) ==
    /\ \A p \in DOMAIN Reads[k] \ Lenient(k) : Known(k, r, p)
    /\ Agree(k, Stored(k, r))
    /\ k \in Strict => r[Rest] = 0

\* Mutant: an unknown flag is read as the default without a word.
WarnsOfRest(k, r) == r[Rest] # 0

Warns(k, r) ==
    \/ r[Rest] # 0
    \/ \E p \in Lenient(k) : ~Known(k, r, p)
    \/ Excess(k, Stored(k, r))

\* Always made explicit, even when it is what goes without saying.
AlwaysSaid(k) == IF k = "LabelDecoration" THEN {"HorizontalAlign"} ELSE {}

Decoded(k, r) ==
    LET meant == Meant(k, Stored(k, r))
        said == {p \in DOMAIN Reads[k] \ Unnamed :
                    /\ Known(k, r, p)
                    /\ meant[p] # Reads[k][p].default \/ p \in AlwaysSaid(k)}
    IN  [p \in said |-> meant[p]]

-----------------------------------------------------------------------------
(* encode_X                                                                *)

Value(k, c) == c @@ [p \in DOMAIN Writes[k] |-> Writes[k][p].default]

Writable(k, c) ==
    /\ DOMAIN c \subseteq DOMAIN Writes[k]
    /\ \A p \in DOMAIN c : c[p] \in Writes[k][p].legal
    /\ Sound(k, c, Effective(k, Value(k, c)))

Written(k, c) ==
    LET v == Effective(k, Value(k, c)) IN Copied(k, v) @@ v

\* The property that the canonical record holds in a slot.
Holds == [k \in Kinds |->
    [s \in Slots[k] \ {Rest} |-> CHOOSE p \in DOMAIN Reads[k] : Layout[k][p] = s]]

Encoded(k, c) ==
    LET written == Written(k, c) IN
    (Rest :> 0) @@ [s \in Slots[k] \ {Rest} |-> written[Holds[k][s]]]

-----------------------------------------------------------------------------
(* Records that another program wrote: a canonical one of the kind with    *)
(* other codes, known and unknown, in one or two slots.                    *)

\* Controls whose records are canonical.
Starts(k) ==
    CASE k = "InputField" -> InputFieldStarts
      [] k = "Table" -> TableStarts
      [] k = "GanttChart" -> GanttStarts
      [] k = "TableColumn" -> ColumnStarts
      [] OTHER -> {Empty}

Canonical == [k \in Kinds |-> {Encoded(k, c) : c \in Starts(k)}]

\* The known codes and the unknown codes of a slot.
Probes == [k \in Kinds |->
    (Rest :> 0..1) @@
    [s \in Slots[k] \ {Rest} |->
        LET f == Reads[k][CHOOSE p \in DOMAIN Reads[k] : Reads[k][p].at = s]
        IN  f.legal \cup f.bad]]

Init ==
    /\ kind \in Kinds
    /\ \E base \in Canonical[kind], s \in Slots[kind] :
          \E t \in {u \in Slots[kind] : s <= u} :
             \E a \in Probes[kind][s], b \in Probes[kind][t] :
                record = [base EXCEPT ![s] = a, ![t] = b]
    /\ control = Empty
    /\ warned = FALSE
    /\ stage = "stored"

Dump ==
    /\ stage = "stored"
    /\ Readable(kind, record)
    /\ control' = Decoded(kind, record)
    /\ warned' = Warns(kind, record)
    /\ stage' = "dumped"
    /\ UNCHANGED <<kind, record>>

RefuseDump ==
    /\ stage = "stored"
    /\ ~Readable(kind, record)
    /\ stage' = "refused"
    /\ UNCHANGED <<kind, record, control, warned>>

\* Editing starts from the canonical control.
Editable ==
    \/ stage = "dumped" /\ record \in Canonical[kind]
    \/ stage = "edited"

Defaults == [k \in Kinds |-> Default(k)]

\* Set by other operations than set_prop_val, or by hand in Form.xml.
OtherwiseSet(k) ==
    IF k = "TableColumn" THEN DOMAIN Writes[k]
    ELSE {"DataPath", "Events", "Columns", "TypeLink", "Extension", "ValueType"}
            \cap DOMAIN Writes[k]

\* The values of every property: a path leads to an attribute of any type,
\* and what set_prop_val applies is not always what build accepts.
Values == [k \in Kinds |->
    [p \in OtherwiseSet(k) |-> IF p = "DataPath" THEN LinkCodes ELSE Writes[k][p].legal]
    @@ [p \in DOMAIN Defaults[k] |-> Applied(k, p)]]

\* Properties that are there only for some types of what is edited.
ForStrings == PairFlags \cup {"Mask"}

Available(k, c, p) ==
    LET v == Effective(k, Value(k, c))
    IN  CASE k = "InputField" /\ p \in ForStrings ->
               /\ ~Listed(v)
               /\ v["ValueType"] = StringType \/ (v["ValueType"] \in Composites /\ p # "Mask")
          [] k = "InputField" /\ p \in {"MinValue", "MaxValue"} -> Bounded(v)
          [] k = "Table" /\ p = "Tree" -> v["DataPath"] = TreeType
          [] OTHER -> TRUE

\* What set_prop_val sets besides the property.
Implied(k, p, code) ==
    CASE k = "InputField" /\ p = "Mask" /\ code # 0 -> [Wrap |-> 0]
      [] k = "InputField" /\ p = "ListChoiceMode" -> [ChoiceListButton |-> code]
      [] OTHER -> Empty

SetProperty ==
    /\ Editable
    /\ Cardinality(DOMAIN control) < MaxEdits[kind]
    /\ \E p \in DOMAIN Values[kind] \ DOMAIN control :
          /\ Available(kind, control, p)
          /\ \E code \in Values[kind][p] :
                control' = Implied(kind, p, code) @@ (p :> code) @@ control
    /\ stage' = "edited" /\ record' = Empty
    /\ UNCHANGED <<kind, warned>>

ResetProperty ==
    /\ Editable
    /\ \E p \in DOMAIN control :
          /\ Available(kind, control, p)
          /\ control' = [q \in DOMAIN control \ {p} |-> control[q]]
    /\ stage' = "edited" /\ record' = Empty
    /\ UNCHANGED <<kind, warned>>

\* write_property_set leaves out a property that has its default, and so
\* does the parser.
Kept(k, c) == {p \in DOMAIN c : p \in DOMAIN Defaults[k] => c[p] # Defaults[k][p]}

ThroughXml ==
    /\ stage \in {"dumped", "edited"}
    /\ control' = [p \in Kept(kind, control) |-> control[p]]
    /\ stage' = "loaded"
    /\ UNCHANGED <<kind, record, warned>>

Build ==
    /\ stage \in {"dumped", "edited", "loaded"}
    /\ Writable(kind, control)
    /\ record' = Encoded(kind, control)
    /\ stage' = "built"
    /\ UNCHANGED <<kind, control, warned>>

RefuseBuild ==
    /\ stage \in {"dumped", "edited", "loaded"}
    /\ ~Writable(kind, control)
    /\ stage' = "refused"
    /\ UNCHANGED <<kind, record, control, warned>>

Next == Dump \/ RefuseDump \/ SetProperty \/ ResetProperty \/ ThroughXml \/ Build \/ RefuseBuild

Spec == Init /\ [][Next]_vars

-----------------------------------------------------------------------------
(* Properties.                                                             *)

\* Slots that the code reads and forgets: what it writes there is constant,
\* or another copy of the same.
Forgotten(k, v) ==
    CASE k = "LabelDecoration" -> {"PictureSizeCopy"}
      [] k = "InputField" ->
           {"TextEditCopy"}
           \cup (IF v["ValueType"] \in Composites THEN {"Length"} \cup PairFlags ELSE {})
           \cup (IF Listed(v) THEN {"Scalar", "Extension"} ELSE {})
           \cup (IF v["TypeLink"] = 0 THEN {"TypeLinkItem"} ELSE {})
      [] k = "SpreadsheetDocumentField" -> {"View"}
      [] k = "GanttChart" -> {"LayoutValue"}
      [] k = "TableColumn" -> {"WidthCopy", "SpareWidth"}
      [] OTHER -> {"State", "Pressed"} \cap DOMAIN v

\* A record that is dumped without a warning is built again as it was, for
\* every kind of control (decode_X and encode_X of form_stream.cpp); only
\* the state of a button, the second size of the picture of a label, the
\* caches of an input field and two widths of a column (see Forgotten) are
\* written anew.
UnwarnedIsLossless ==
    [][stage = "dumped" /\ ~warned /\ stage' = "built" =>
          LET v == Stored(kind, record)
              forgotten == {Reads[kind][p].at : p \in Forgotten(kind, v)}
          IN  \A s \in Slots[kind] \ forgotten : record'[s] = record[s]]_vars

\* Five kinds have rules between their properties that an editor can break.
CrossRuled == {"RadioButton", "InputField", "Table", "GanttChart", "TableColumn"}

\* Properties that set_prop_val gives values that "build" refuses: a path to
\* an attribute of another type, colours, fonts and borders that no control
\* has (encode_control_color, write_font, encode_control_border), alignments
\* of a button and a label (form_stream.cpp:11267, 11518), numbers below the
\* least of a track bar (11670-11689), days of a calendar (12143).
Unchecked(k) ==
    {"DataPath", "Border"} \cup ColourProperties \cup FontProperties
    \cup CASE k \in {"Button", "LabelDecoration"} -> {"HorizontalAlign"}
           [] k = "TrackBar" -> IntegerProperties(k)
           [] k = "CalendarField" -> {"BeginOfDisplayPeriod", "EndOfDisplayPeriod"}
           [] OTHER -> {}

\* Whatever "dump" accepts, with or without a warning, "build" accepts
\* (require_allowed_properties in every encode_X), and still does after any
\* values that set_prop_val applies to any other properties than those of
\* Unchecked: property_value_matches, the metamodel and the encoder agree.
ControlCanBeBuilt ==
    \/ stage = "dumped"
    \/ /\ stage = "edited" /\ kind \notin CrossRuled
       /\ \A p \in Unchecked(kind) \cap DOMAIN control \cap DOMAIN Writes[kind] :
             control[p] \in Writes[kind][p].legal
    => Writable(kind, control)

\* Form.xml leaves out what goes without saying (equals_descriptor_default),
\* and the record that is built is the same.
XmlKeepsTheRecord ==
    [][stage' = "loaded" /\ Writable(kind, control) =>
          Writable(kind, control') /\ Encoded(kind, control') = Encoded(kind, control)]_vars

\* What "build" writes is accepted by "dump" without a warning, and every
\* property comes back with the value it has in the control, explicit or
\* not (the self-verification of encode_document, form_stream.cpp:14677).
BuiltIsDumped ==
    stage = "built" =>
        /\ Readable(kind, record)
        /\ ~Warns(kind, record)
        /\ Effective(kind, Value(kind, Decoded(kind, record)))
              = Effective(kind, Value(kind, control))

=============================================================================
