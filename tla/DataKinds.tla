------------------------------ MODULE DataKinds ------------------------------
(* The kinds of control whose slots depend on one another: an input field, *)
(* whose record repeats the type of what is entered; a table; the root of  *)
(* a spreadsheet, a dendrogram and a Gantt chart.  Besides the three       *)
(* tables of a kind (see FieldKinds), for each: the rules between stored   *)
(* values that its decoder requires, what the values mean together, and    *)
(* what its encoder requires and adds.                                     *)
(* v[p] is the stored value of p, or that of a control; c[p] is an         *)
(* explicit one.                                                           *)
EXTENDS FieldKinds

\* No value: a property that is only explicit.
NotSaid == -3

-----------------------------------------------------------------------------
(* Input fields.                                                           *)

Composites == {CompositeType, TextOrReferenceType}
References == {ReferenceType} \cup Composites
Scalars == Numbers \cup {StringType, DateOnlyType}
InputTypes == Scalars \cup References

\* The record repeats two numbers of the type: a length, and the digits of
\* a fraction.
InputLength(type) ==
    CASE type \in {CounterType, StringType, TextOrReferenceType} -> 1
      [] type = NumberType -> 2
      [] OTHER -> 0
InputPrecision(type) == IF type = NumberType THEN 1 ELSE 0

\* input_field_flag_mappings; the stored flag of TextEdit is inverted.
InputFlagSlot ==
    [Wrap |-> Info(4), ChooseType |-> Nested(6), ListChoiceMode |-> Nested(9),
     MarkNegatives |-> Info(27), ChoiceButton |-> Info(7), OpenButton |-> Info(10),
     ClearButton |-> Info(8), SpinButton |-> Info(9), ChoiceListButton |-> Info(6),
     MultiLine |-> Info(26), ExtendedEdit |-> Info(38), PasswordMode |-> Info(5),
     AutoMarkIncomplete |-> Info(35), AutoChoiceIncomplete |-> Info(36), TextEdit |-> Nested(5)]

InputFlag(p) == Flag(IF p \in {"Wrap", "ChooseType", "TextEdit"} THEN 1 ELSE 0)

\* A scalar has a second copy of three flags, of the mask and of the bounds.
PairFlags == {"MultiLine", "ExtendedEdit", "PasswordMode"}

Paired == PairFlags \cup {"Mask", "MinValue", "MaxValue"}
NoPair == [p \in Paired |-> NotSaid]
ScalarPairs == [Paired -> 0..1] \cup {NoPair}

InputValues ==
    [MinValue |-> Either(0), MaxValue |-> Either(0), Mask |-> Either(0), ReadOnly |-> Flag(0),
     HorizontalAlign |-> Codes(0..4, 4), VerticalAlign |-> Codes(0..2, 0),
     Picture |-> Either(0), ChoiceButtonPicture |-> Either(0), ChoiceListHeight |-> AnyInteger(0),
     ChoiceListWidth |-> AnyInteger(0), Shortcut |-> Either(0), Format |-> Either(0),
     IncompleteChoiceMode |-> Codes(0..1, 0), TypeLinkItem |-> AtLeast(1, 1)]

InputFieldInfo ==
    InputFlagSlot
    @@ [MinValue |-> Info(19), MaxValue |-> Info(20), Mask |-> Info(21), ReadOnly |-> Info(13),
        HorizontalAlign |-> Info(17), VerticalAlign |-> Info(18), Picture |-> Info(28),
        ChoiceButtonPicture |-> Info(29), ChoiceListHeight |-> Info(31),
        ChoiceListWidth |-> Info(32), Shortcut |-> Info(33), Format |-> Info(34),
        IncompleteChoiceMode |-> Info(37), TypeLinkItem |-> Nested(7), ValueType |-> Nested(1),
        TypeLink |-> Nested(8), Extension |-> Nested(13), TextEditCopy |-> Info(12),
        Length |-> Info(14), Precision |-> Info(15), Scalar |-> Nested(3),
        ListContext |-> Nested(23)]

\* Length, precision and pair are cached for the editor of the type.
InputFieldReads ==
    BaseReads("InputField", Decorated)
    @@ [p \in DOMAIN InputFlagSlot |-> At(InputFlagSlot[p], InputFlag(p))]
    @@ [p \in DOMAIN InputValues |-> At(InputFieldInfo[p], InputValues[p])]
    @@ [ValueType |-> At(Nested(1), Path(InputTypes, Unbound)), TypeLink |-> At(Nested(8), Either(0)),
        Extension |-> At(Nested(13), Codes(0..2, 0)), TextEditCopy |-> At(Info(12), Flag(1)),
        Length |-> At(Info(14), Codes(0..2, 0)), Precision |-> At(Info(15), Codes(0..1, 0)),
        Scalar |-> At(Nested(3), [legal |-> ScalarPairs, bad |-> {}, default |-> NoPair]),
        ListContext |-> At(Nested(23), Flag(0))]
    @@ EventReads @@ LinkRead({Unbound} \cup InputTypes, Unbound)

InputFieldWrites ==
    BaseWrites("InputField", {"Enabled", "ToolTip", "ButtonTextColor", "FieldTextColor",
                              "ButtonBackColor", "FieldBackColor"} \cup Decorated)
    @@ [p \in DOMAIN InputFlagSlot |-> InputFlag(p)] @@ InputValues
    @@ [ValueType |-> Path(InputTypes, Unbound), TypeLink |-> Either(0), Extension |-> Codes(0..2, 0)]
    @@ EventWrites @@ LinkWrite({Unbound} \cup InputTypes, Unbound)

\* What is entered is text or a choice from a list, or a number with bounds.
Listed(v) == v["ListChoiceMode"] = 1
Extended(v) == v["Extension"] # 0
Bounded(v) == v["ValueType"] \in Numbers /\ ~Listed(v)

\* The type of a field that is bound is that of the attribute.
Typed(v) ==
    IF v["DataPath"] = Unbound THEN v ELSE [v EXCEPT !["ValueType"] = v["DataPath"]]

HasPair(v) ==
    \/ ~Listed(v) /\ ~Extended(v)
    \/ Extended(v) /\ v["ValueType"] \in Composites

Plain(v) == \A p \in PairFlags : v[p] = 0

\* The flags that count: those of the pair, if two editors share the field.
FlagValue(v, p) ==
    IF v["ValueType"] \in Composites /\ ~Listed(v) THEN v["Scalar"][p] ELSE v[p]

PairAgrees(v) ==
    /\ \A p \in PairFlags : v["Scalar"][p] = FlagValue(v, p)
    /\ v["Scalar"]["Mask"] = v["Mask"]
    /\ \A p \in {"MinValue", "MaxValue"} :
          v["Scalar"][p] = IF Bounded(v) THEN v[p] ELSE 0

\* The cache of one of the two editors of a composite type.
CacheAgrees(v) ==
    /\ v["Precision"] = 0
    /\ Listed(v) => v["ValueType"] = CompositeType /\ Plain(v)
    /\ \/ v["Length"] = 0 /\ Plain(v)
       \/ /\ v["Length"] = InputLength(v["ValueType"])
          /\ \A p \in PairFlags : v[p] = FlagValue(v, p)

QualifiersAgree(v) ==
    LET type == v["ValueType"]
    IN  /\ type = StringType => v["Length"] = IF v["Mask"] = 0 THEN InputLength(type) ELSE 0
        /\ type = DateOnlyType => v["Length"] = 0
        /\ type \in Numbers =>
              v["Length"] = InputLength(type) /\ v["Precision"] = InputPrecision(type)

\* The types an input field may have, and what is for strings only.
TypeServes(v) ==
    /\ v["ValueType"] \in Scalars \/ Extended(v) \/ Listed(v)
    /\ Extended(v) => v["ValueType"] \in References
    /\ v["Mask"] # 0 => v["ValueType"] = StringType /\ ~Listed(v)

InputFieldAgrees(v) ==
    /\ TypeServes(v)
    /\ v["DataPath"] # Unbound => v["DataPath"] = v["ValueType"]
    /\ (v["Scalar"] # NoPair) = HasPair(v)
    /\ v["ListContext"] = v["ListChoiceMode"]
    /\ QualifiersAgree(v)
    /\ HasPair(v) => PairAgrees(v)
    /\ v["ValueType"] \in Composites => CacheAgrees(v)

InputFieldMeans(v) ==
    [p \in DOMAIN v |->
        CASE p \in PairFlags -> FlagValue(v, p)
          [] p = "Extension" /\ Listed(v) -> 0
          [] p = "TypeLinkItem" /\ v["TypeLink"] = 0 -> 1
          [] p \in {"MinValue", "MaxValue"} /\ ~Bounded(v) -> 0
          [] p = "ValueType" /\ v["DataPath"] # Unbound -> Unbound
          [] OTHER -> v[p]]

InputFieldWarns(v) ==
    \/ v["ValueType"] = ReferenceType /\ v["Length"] # 0
    \/ v["ValueType"] \notin Numbers \cup Composites /\ v["Precision"] # 0
    \/ ~Bounded(v) /\ (v["MinValue"] # 0 \/ v["MaxValue"] # 0)

InputFieldSound(c, v) ==
    /\ {"ValueType", "DataPath"} \subseteq DOMAIN c => c["ValueType"] = c["DataPath"]
    /\ v["ValueType"] # Unbound
    /\ TypeServes(v)
    /\ Extended(v) => ~Listed(v)
    /\ v["ValueType"] \in Composites /\ Listed(v) => v["ValueType"] = CompositeType /\ Plain(v)
    /\ v["TypeLinkItem"] # 1 => v["TypeLink"] # 0
    /\ DOMAIN c \cap {"MinValue", "MaxValue"} # {} => Bounded(v)

InputFieldCopies(v) ==
    [TextEditCopy |-> v["TextEdit"], ListContext |-> v["ListChoiceMode"],
     Length |-> IF v["Mask"] # 0 \/ v["ValueType"] \in Composites
                THEN 0 ELSE InputLength(v["ValueType"]),
     Precision |-> InputPrecision(v["ValueType"]),
     Scalar |-> IF HasPair(v) THEN [p \in Paired |-> v[p]] ELSE NoPair]
    @@ (IF v["ValueType"] \in Composites THEN [p \in PairFlags |-> 0] ELSE Empty)

InputFieldStarts ==
    {[ValueType |-> type] : type \in {StringType, NumberType, DateOnlyType}}
    \cup {[ValueType |-> type, Extension |-> 1] : type \in References}
    \cup {[ValueType |-> type, ListChoiceMode |-> 1] : type \in {ReferenceType, CompositeType}}
    \cup {[DataPath |-> StringType]}

-----------------------------------------------------------------------------
(* Tables.                                                                 *)

\* table_boolean_flags are bits of one number, table_boolean_slots codes.
TableFlags ==
    [AutoInsertNewRow |-> Flag(0), Footer |-> Flag(0), Header |-> Flag(1),
     EnableStartDrag |-> Flag(0), EnableDrag |-> Flag(0), ChangeSettingOfColumns |-> Flag(1),
     ChangePositionOfColumns |-> Flag(1), ReadOnly |-> Flag(1), ChangeRowSet |-> Flag(1),
     HorizontalLines |-> Flag(1), VerticalLines |-> Flag(1), UseAlternationRowColor |-> Flag(0)]

\* table_enum_specs
TableEnums ==
    [HorizontalScrollBar |-> Codes(0..2, 2), VerticalScrollBar |-> Codes(0..2, 2),
     RowInputMode |-> Codes(0..3, 0), RowSelectionMode |-> Codes(0..1, 0),
     SelectionMode |-> Codes(0..1, 0), InitialListView |-> Codes(0..2, 0),
     InitialTreeView |-> Codes(0..2, 0), Output |-> Codes(0..2, 0)]

FixedColumns == [legal |-> {0, 1, 256}, bad |-> {-1, 257}, default |-> 0]

\* Of 16 bits.
RowHeight == [legal |-> {-1, 0, 1, 2, 256, 257}, bad |-> {32768}, default |-> 1]
TableNumbers ==
    [FixedLeft |-> FixedColumns, FixedRight |-> FixedColumns, HeaderHeight |-> RowHeight,
     FooterHeight |-> RowHeight]

OwnSelectionColour == 70
AlternateStyle == 80
TextStyleFont == 30
TableAppearance ==
    [HeaderBackColor |-> Either(Automatic), HeaderTextColor |-> Either(Automatic),
     FooterBackColor |-> Either(Automatic), FooterTextColor |-> Either(Automatic),
     SelectionBackColor |-> Either(OwnSelectionColour),
     SelectionTextColor |-> Either(SelectedTextStyle),
     AlternationRowBackColor |-> Either(AlternateStyle),
     HeaderFont |-> Either(TextStyleFont), FooterFont |-> Either(TextStyleFont)]

TableValues == TableFlags @@ TableEnums @@ TableNumbers @@ TableAppearance

TableInfo ==
    [AutoInsertNewRow |-> Nested(1), Footer |-> Nested(2), Header |-> Nested(3),
     EnableStartDrag |-> Nested(4), EnableDrag |-> Nested(5), ChangeSettingOfColumns |-> Nested(6),
     ChangePositionOfColumns |-> Nested(7), ReadOnly |-> Nested(8), TreeFlags |-> Nested(9),
     ChangeRowSet |-> Info(22), HorizontalLines |-> Info(34), VerticalLines |-> Info(35),
     UseAlternationRowColor |-> Info(38), HorizontalScrollBar |-> Info(9),
     VerticalScrollBar |-> Info(10), RowInputMode |-> Info(13), RowSelectionMode |-> Info(14),
     SelectionMode |-> Info(15), InitialListView |-> Info(20), InitialTreeView |-> Info(21),
     Output |-> Info(24), FixedLeft |-> Info(11), FixedRight |-> Info(12),
     HeaderHeight |-> Info(16), FooterHeight |-> Info(17), HeaderBackColor |-> Info(2),
     HeaderTextColor |-> Info(3), FooterBackColor |-> Info(4), FooterTextColor |-> Info(5),
     SelectionBackColor |-> Info(6), SelectionTextColor |-> Info(7),
     AlternationRowBackColor |-> Info(8), HeaderFont |-> Info(18), FooterFont |-> Info(19),
     Columns |-> Info(23), Tree |-> 14, SourceType |-> 15]

\* Handlers: none, of events of any table, of one that a tree alone has.
TreeEvents == 2
TableEvents == Codes(0..TreeEvents, 0)
TableTypes == {TableType, TreeType}
ColumnCounts == [legal |-> {0, 1, 256}, bad |-> {257}, default |-> 0]

TableReads ==
    BaseReads("Table", {"Font", "BorderColor", "Border"})
    @@ [p \in DOMAIN TableValues |-> At(TableInfo[p], TableValues[p])]
    @@ [Columns |-> At(Info(23), ColumnCounts), Tree |-> At(14, Flag(1)),
        TreeFlags |-> At(Nested(9), Flag(1)), SourceType |-> At(15, Path(TableTypes, Unbound)),
        Events |-> At(Events, TableEvents)]
    @@ LinkRead(TableTypes, Unbound)

TableWrites ==
    BaseWrites("Table", {"Enabled", "ToolTip", "Font", "BorderColor", "FieldBackColor", "Border"})
    @@ TableValues
    @@ [Columns |-> ColumnCounts, Tree |-> Flag(1), Events |-> TableEvents]
    @@ LinkWrite(TableTypes, Unbound)

\* What only a tree may have or lack.
TableServes(v) ==
    v["DataPath"] = TableType => v["Events"] # TreeEvents /\ v["Columns"] # 0

TableAgrees(v) ==
    /\ TableServes(v)
    /\ v["SourceType"] = v["DataPath"]
    /\ IF v["DataPath"] = TreeType THEN v["TreeFlags"] = v["Tree"] ELSE v["Tree"] = 1

TableWarns(v) == v["DataPath"] = TableType /\ v["TreeFlags"] # 1

TableSound(c, v) ==
    /\ TableServes(v)
    /\ v["DataPath"] # Unbound
    /\ v["DataPath"] = TableType => "Tree" \notin DOMAIN c

TableStarts == {[DataPath |-> TableType, Columns |-> 1], [DataPath |-> TreeType]}

-----------------------------------------------------------------------------
(* The root of a spreadsheet; its cells are in SpreadsheetCells.           *)

SheetValues ==
    [p \in {"Enabled", "HorizontalScrollBar", "VerticalScrollBar", "EnableStartDrag", "EnableDrag"}
        |-> Flag(1)]
    @@ [BorderColor |-> Either(Automatic), Border |-> BorderField("SpreadsheetDocumentField"),
        ShowSelection |-> Codes(0..1, 0)]

SheetInfo ==
    [Enabled |-> Info(8), HorizontalScrollBar |-> Info(15), VerticalScrollBar |-> Info(16),
     EnableStartDrag |-> Info(25), EnableDrag |-> Info(26), BorderColor |-> Info(9),
     Border |-> Info(10), ShowSelection |-> Info(27), HorizontalCopy |-> Info(31),
     VerticalCopy |-> Info(32), View |-> Info(14)]

\* View: a sheet that was never shown, or was; either is read as the first.
SheetReads ==
    [p \in DOMAIN SheetValues |-> At(SheetInfo[p], SheetValues[p])]
    @@ [HorizontalCopy |-> At(Info(31), Flag(1)), VerticalCopy |-> At(Info(32), Flag(1)),
        View |-> At(Info(14), Flag(0))]
    @@ EventReads

SheetWrites == SheetValues @@ EventWrites

SheetAgrees(v) ==
    /\ v["HorizontalCopy"] = v["HorizontalScrollBar"]
    /\ v["VerticalCopy"] = v["VerticalScrollBar"]

SheetCopies(v) ==
    [HorizontalCopy |-> v["HorizontalScrollBar"], VerticalCopy |-> v["VerticalScrollBar"], View |-> 0]

-----------------------------------------------------------------------------
(* The roots of the two controls that embed a chart.  TailWord and         *)
(* ChartSettings: words that no property stands for.                       *)

Word == Codes({0}, 0)
ChartWords == [TailWord |-> At(Nested(1), Word), ChartSettings |-> At(Nested(2), Word)]

DendrogramReads ==
    [Orientation |-> At(Info(4), Codes(0..1, 0)), BackColor |-> At(Nested(7), Either(FormBackStyle))]
    @@ ChartWords @@ EventReads

DendrogramInfo ==
    [Orientation |-> Info(4), BackColor |-> Nested(7), TailWord |-> Nested(1),
     ChartSettings |-> Nested(2)]

DendrogramWrites ==
    [Orientation |-> Codes(0..1, 0), BackColor |-> Either(FormBackStyle)] @@ EventWrites

\* Seconds, minutes, hours, days, weeks, months, quarters, years.
PeriodicUnits == [legal |-> {5, 10, 20, 30, 40, 50, 60, 70}, bad |-> {0, 15}, default |-> 50]

GanttInfo ==
    [PeriodicVariantUnit |-> Info(9), PeriodicVariantRepetition |-> Info(10),
     AutoFullInterval |-> Info(11), FullIntervalBegin |-> Info(12), FullIntervalEnd |-> Info(13),
     BeginCopy |-> Info(14), ViewWord |-> Info(15), ViewColour |-> Info(25),
     LayoutValue |-> Nested(3)]
    @@ DendrogramInfo

\* LayoutValue: a share of the width, which the platform adjusts.
GanttReads ==
    [PeriodicVariantUnit |-> At(Info(9), PeriodicUnits),
     PeriodicVariantRepetition |-> At(Info(10), AtLeast(1, 1)),
     AutoFullInterval |-> At(Info(11), Flag(1)),
     FullIntervalBegin |-> At(Info(12), Codes(0..2, NotSaid)),
     FullIntervalEnd |-> At(Info(13), Codes(0..2, NotSaid)),
     BeginCopy |-> At(Info(14), Codes(0..2, 0)),
     ViewWord |-> At(Info(15), Word), ViewColour |-> At(Info(25), Word),
     LayoutValue |-> At(Nested(3), [legal |-> 0..1, bad |-> {2}, default |-> 0]),
     BackColor |-> At(Nested(7), Either(FormBackStyle))]
    @@ ChartWords @@ EventReads

GanttWrites ==
    [PeriodicVariantUnit |-> PeriodicUnits, PeriodicVariantRepetition |-> AtLeast(1, 1),
     AutoFullInterval |-> Flag(1), FullIntervalBegin |-> Codes(0..2, NotSaid),
     FullIntervalEnd |-> Codes(0..2, NotSaid), BackColor |-> Either(FormBackStyle)]
    @@ EventWrites

Automated(v) == v["AutoFullInterval"] = 1

GanttAgrees(v) == ~Automated(v) => v["FullIntervalBegin"] < v["FullIntervalEnd"]

GanttMeans(v) ==
    IF Automated(v)
    THEN [v EXCEPT !["FullIntervalBegin"] = NotSaid, !["FullIntervalEnd"] = NotSaid]
    ELSE v

GanttWarns(v) ==
    \/ Automated(v) /\ (v["FullIntervalBegin"] # 0 \/ v["FullIntervalEnd"] # 0)
    \/ v["BeginCopy"] # IF Automated(v) THEN 0 ELSE v["FullIntervalBegin"]

GanttSound(c, v) ==
    IF Automated(v)
    THEN DOMAIN c \cap {"FullIntervalBegin", "FullIntervalEnd"} = {}
    ELSE /\ {"FullIntervalBegin", "FullIntervalEnd"} \subseteq DOMAIN c
         /\ v["FullIntervalBegin"] < v["FullIntervalEnd"]

GanttCopies(v) ==
    LET date(p) == IF v[p] = NotSaid THEN 0 ELSE v[p]
    IN  [FullIntervalBegin |-> date("FullIntervalBegin"), FullIntervalEnd |-> date("FullIntervalEnd"),
         BeginCopy |-> date("FullIntervalBegin"), ViewWord |-> 0, ViewColour |-> 0,
         LayoutValue |-> 0]

GanttStarts ==
    {Empty, [AutoFullInterval |-> 0, FullIntervalBegin |-> 1, FullIntervalEnd |-> 2]}

-----------------------------------------------------------------------------
(* One column of a table: form_stream.cpp keeps its editor, an input       *)
(* field, a choice field or a check box, as a packet inside the record of  *)
(* the column, and the type of what is edited in both.  The tables and     *)
(* rules are those of DataKinds; a slot that an editor does not have holds *)
(* nothing there.                                                          *)

InputEditor == 0
ChoiceEditor == 1
CheckEditor == 2

\* What goes without saying for a type, for a pair of the editor.
ColumnScalars == {StringType, BooleanType, NumberType, CounterType, DateOnlyType}
ColumnTypes == {EmptyType, ListType} \cup ColumnScalars

\* The pair of an input field: none, that of a scalar, that of a value list.
PairOfType(type) ==
    CASE type \in ColumnScalars -> 1
      [] type = ListType -> 2
      [] OTHER -> 0

\* The name, the path and the header must be there (validate); a header may
\* not have a language twice.
Required(bad) == [legal |-> {1, 2}, bad |-> bad, default |-> 1]

\* Form units; -1 is any negative number, -2 no number.
Widths == [legal |-> {0, 210, 300}, bad |-> {-1, -2}, default |-> 210]
AnyWidth(default) == [legal |-> {-1, 0, 30, 210, 300}, bad |-> {-2}, default |-> default]

ColumnFields ==
    [Name |-> Required({0}), Path |-> Required({0}), Header |-> Required({0, -1}),
     Width |-> Widths, TextFont |-> Either(0), Visible |-> Flag(1),
     Editor |-> Codes(InputEditor..CheckEditor, InputEditor),
     ValueType |-> Path(ColumnTypes, EmptyType)]

EditorFields == [Enabled |-> Flag(1), ReadOnly |-> Flag(0)]

ColumnInfo ==
    [Name |-> Info(30), Path |-> Info(2), Header |-> Info(1), Width |-> Info(45),
     WidthCopy |-> Info(4), SpareWidth |-> Info(32), TextFont |-> Info(22), Visible |-> Info(9),
     Editor |-> Info(38), ValueType |-> Info(35), EditorType |-> Nested(1), Pair |-> Nested(3),
     Length |-> Nested(14), Enabled |-> Nested(5), ReadOnly |-> Nested(13)]

\* Width is read from one of three slots.
ColumnReads ==
    [p \in DOMAIN ColumnFields |-> At(ColumnInfo[p], ColumnFields[p])]
    @@ [p \in DOMAIN EditorFields |-> At(ColumnInfo[p], EditorFields[p])]
    @@ [WidthCopy |-> At(Info(4), AnyWidth(210)), SpareWidth |-> At(Info(32), AnyWidth(30)),
        EditorType |-> At(Nested(1), Path(ColumnTypes \cup {NotSaid}, EmptyType)),
        Pair |-> At(Nested(3), Codes(0..2, 0)), Length |-> At(Nested(14), Codes(0..1, 0))]

\* The properties of the other two editors may be set to what they are.
ColumnWrites ==
    ColumnFields @@ EditorFields
    @@ [p \in {"ToolTip", "Caption", "Font"} |-> Codes({0}, 0)]

EditorProperties(editor) ==
    CASE editor = InputEditor -> {"Enabled", "ReadOnly"}
      [] editor = ChoiceEditor -> {"Enabled", "ToolTip"}
      [] OTHER -> {"Enabled", "ToolTip", "Caption", "Font"}

EditorIsPlain(v) == v["Enabled"] = 1 /\ v["ValueType"] = EmptyType

\* A pair may be missing, but not be that of another type.
ColumnAgrees(v) ==
    IF v["Editor"] = InputEditor
    THEN v["EditorType"] = v["ValueType"] /\ v["Pair"] \in {0, PairOfType(v["ValueType"])}
    ELSE /\ EditorIsPlain(v)
         /\ v["EditorType"] = NotSaid /\ v["Pair"] = 0 /\ v["Length"] = 0 /\ v["ReadOnly"] = 0

\* The cache is that of a string.
TextLength(type) == IF type = StringType THEN 1 ELSE 0

ColumnWarns(v) ==
    v["Pair"] # PairOfType(v["ValueType"]) \/ v["Length"] # TextLength(v["ValueType"])

ColumnSound(c, v) ==
    /\ DOMAIN c \cap {"Enabled", "ReadOnly", "ToolTip", "Caption", "Font"}
          \subseteq EditorProperties(v["Editor"])
    /\ v["Editor"] # InputEditor => EditorIsPlain(v)

ColumnCopies(v) ==
    [WidthCopy |-> v["Width"], SpareWidth |-> 30,
     EditorType |-> IF v["Editor"] = InputEditor THEN v["ValueType"] ELSE NotSaid,
     Pair |-> PairOfType(v["ValueType"]), Length |-> TextLength(v["ValueType"])]

ColumnStarts ==
    {Empty, [Editor |-> ChoiceEditor], [Editor |-> CheckEditor]}
    \cup {[ValueType |-> type] : type \in {StringType, NumberType, ListType}}

=============================================================================
