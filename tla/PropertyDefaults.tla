--------------------------- MODULE PropertyDefaults ---------------------------
(* What the metamodel says of the properties of a control: which ones an   *)
(* editor may set and Form.xml may hold, and the value of one that is not  *)
(* set.  The codes are those of ControlRecords.  A property of Default is  *)
(* one with PersistenceClass::persisted_editable in metamodel.cpp; the     *)
(* alias SelButtonPicture is ChoiceButtonPicture under another name.       *)
EXTENDS DataKinds

Fields == {"CheckBox", "ChoiceField", "RadioButton", "InputField"}
Decorations == {"PictureDecoration", "LabelDecoration"}
Bars == {"ProgressBar", "TrackBar"}
Charts == {"PivotChart", "Dendrogram", "GanttChart"}
Common ==
    Fields \cup Decorations \cup Bars
    \cup {"CommandBar", "Button", "UsualGroup", "Splitter", "ListBox", "CalendarField",
            "Table"}

-----------------------------------------------------------------------------
(* Properties that are classified for several kinds at once.               *)

Base == [p \in {"Enabled", "ToolTip", "BorderColor", "TextColor", "FieldTextColor", "BackColor",
                "FieldBackColor", "ButtonTextColor", "ButtonBackColor", "Font", "Transparent",
                "Border", "Output"} |->
    CASE p = "Enabled" -> Common \cup {"TextDocumentField"}
      [] p = "ToolTip" -> Common
      [] p = "BorderColor" -> Common \cup {"TextDocumentField", "HTMLDocumentField", "SchemaField"}
      [] p = "TextColor" ->
           {"CheckBox", "UsualGroup", "RadioButton", "TrackBar"} \cup Decorations
      [] p = "FieldTextColor" -> Fields \cup {"ListBox", "CalendarField"}
      [] p = "BackColor" ->
           {"CheckBox", "UsualGroup", "RadioButton", "CommandBar", "Splitter"} \cup Charts
           \cup Decorations \cup Bars
      [] p = "FieldBackColor" -> Fields \cup {"ListBox", "CalendarField", "Table"}
      [] p = "ButtonTextColor" ->
           {"ChoiceField", "InputField", "CalendarField", "CommandBar", "Button"}
      [] p = "ButtonBackColor" ->
           {"ChoiceField", "InputField", "CalendarField", "TrackBar", "CommandBar", "Button"}
      [] p = "Font" ->
           Fields \cup Decorations
           \cup {"Button", "TextDocumentField", "CommandBar", "CalendarField", "ProgressBar", "UsualGroup",
                 "Table"}
      [] p = "Transparent" ->
           Fields \cup Decorations \cup {"UsualGroup", "CommandBar", "TrackBar"}
      [] p = "Border" ->
           Fields \cup Decorations \cup Bars
           \cup {"CalendarField", "ListBox", "Splitter", "TextDocumentField", "HTMLDocumentField",
                 "UsualGroup", "CommandBar", "Table"}
      [] p = "Output" -> {"HTMLDocumentField", "SchemaField"}]

\* Mutant: the font of a group is automatic when it is not said.
BaseDefaultPlain(k, p) ==
    CASE p = "Enabled" -> 1
      [] p = "ButtonTextColor" -> ButtonTextStyle
      [] p = "ButtonBackColor" /\ k # "CommandBar" -> ButtonBackStyle
      [] p = "BackColor" /\ k \in Charts -> FormBackStyle
      [] OTHER -> 0

BaseDefault(k, p) ==
    CASE p = "Enabled" -> 1
      [] p = "ButtonTextColor" -> ButtonTextStyle
      [] p = "ButtonBackColor" /\ k # "CommandBar" -> ButtonBackStyle
      [] p = "BackColor" /\ k \in Charts -> FormBackStyle
      [] p = "Font" /\ k = "UsualGroup" -> BoldFont
      [] p = "Border" /\ k = "UsualGroup" -> RoundedBorder
      [] p = "Border" /\ k \in {"CalendarField", "ChoiceField", "InputField", "ListBox", "ProgressBar",
                                "HTMLDocumentField", "Table"} -> StyleBorder
      [] OTHER -> 0

-----------------------------------------------------------------------------
(* Properties of one kind.                                                 *)

NoDefault == -2         \* DefaultKind::none: never taken for granted

Zero(names) == [p \in names |-> 0]
One(names) == [p \in names |-> 1]

CommandBarDefaults ==
    Zero({"AutoFill", "ButtonsAlignment"}) @@ One({"Secondary"})
    @@ [Orientation |-> 2, ActionSource |-> 2]

ButtonDefaults ==
    Zero({"Caption", "MultiLine", "PictureLocation", "PictureSize", "MenuMode", "Shortcut",
          "DefaultButton"})
    @@ One({"HorizontalAlign", "VerticalAlign"}) @@ [Picture |-> NoDefault]

RadioDefaults ==
    Zero({"Caption", "SelectionValue", "HorizontalAlign"}) @@ One({"TitleLocation", "VerticalAlign"})
    @@ [ValueType |-> NoDefault]

PictureDefaults ==
    Zero({"Hyperlink", "EnableStartDrag", "EnableDrag", "Shortcut", "NonselectedPictureText",
          "PictureSize"})
    @@ One({"UseContextMenu", "Zoomable"}) @@ [Picture |-> NoDefault]

LabelDefaults ==
    Zero({"Format", "MarkNegatives", "ScrollingText", "Hyperlink", "Shortcut", "Caption"})
    @@ One({"LabelPictureLocation", "VerticalAlign"})
    @@ [PictureSize |-> 4, Picture |-> NoDefault, HorizontalAlign |-> NoDefault]

ChoiceFieldDefaults ==
    Zero({"ChoiceButton", "ClearButton", "SpinButton", "OpenButton", "ReadOnly",
          "ChoiceListHeight", "ChoiceListWidth"})
    @@ [p \in {"Picture", "ChoiceButtonPicture"} |-> NoDefault]

CheckBoxDefaults ==
    Zero({"ThreeState", "Caption", "HorizontalAlign"}) @@ One({"TitleLocation", "VerticalAlign"})

CalendarDefaults ==
    Zero({"BeginOfDisplayPeriod", "EndOfDisplayPeriod", "SelectionMode", "EnableStartDrag",
          "EnableDrag"})
    @@ One({"ShowCurrentDate", "CalendarNavigation"})
    @@ [HolidayColor |-> SpecialTextStyle, SelectionBackColor |-> SelectionBackStyle,
        SelectionTextColor |-> SelectedTextStyle]

ListBoxDefaults == Zero({"ShowPicture", "ShowCheckBox"}) @@ One({"ReadOnly"})

ProgressBarDefaults ==
    Zero({"MinValue", "ShowPercent"}) @@ One({"Step", "ShowStyle"})
    @@ [MaxValue |-> 100, Orientation |-> 2]

TrackBarDefaults ==
    Zero({"MinValue"}) @@ One({"Step"})
    @@ [MaxValue |-> 100, LargeStep |-> 10, MarkingStep |-> 5, MarkingAppearance |-> 2,
        Orientation |-> 2]

InputFieldDefaults ==
    Zero({"MarkNegatives", "ChoiceButton", "OpenButton", "ClearButton", "SpinButton",
          "ChoiceListButton", "ListChoiceMode", "MultiLine", "ExtendedEdit", "PasswordMode",
          "AutoMarkIncomplete", "AutoChoiceIncomplete", "ReadOnly", "VerticalAlign",
          "ChoiceListHeight", "ChoiceListWidth", "IncompleteChoiceMode", "MinValue", "MaxValue",
          "Mask", "Format", "Shortcut"})
    @@ One({"Wrap", "ChooseType", "TextEdit"}) @@ [HorizontalAlign |-> 4]
    @@ [p \in {"Picture", "ChoiceButtonPicture", "ValueType"} |-> NoDefault]

TableDefaults ==
    Zero({"AutoInsertNewRow", "Footer", "EnableStartDrag", "EnableDrag", "UseAlternationRowColor",
          "RowInputMode", "RowSelectionMode", "SelectionMode", "InitialListView", "InitialTreeView",
          "Output", "FixedLeft", "FixedRight", "HeaderBackColor", "HeaderTextColor",
          "FooterBackColor", "FooterTextColor"})
    @@ One({"Header", "ChangeSettingOfColumns", "ChangePositionOfColumns", "ReadOnly", "ChangeRowSet",
            "HorizontalLines", "VerticalLines", "HeaderHeight", "FooterHeight", "Tree"})
    @@ [p \in {"HorizontalScrollBar", "VerticalScrollBar"} |-> 2]
    @@ [p \in {"HeaderFont", "FooterFont"} |-> TextStyleFont]
    @@ [SelectionBackColor |-> OwnSelectionColour, SelectionTextColor |-> SelectedTextStyle,
        AlternationRowBackColor |-> AlternateStyle]

SheetDefaults ==
    One({"Enabled", "HorizontalScrollBar", "VerticalScrollBar", "EnableStartDrag", "EnableDrag"})
    @@ Zero({"BorderColor", "ShowSelection"}) @@ [Border |-> StyleBorder]

DendrogramDefaults == Zero({"Orientation"})

GanttDefaults ==
    One({"PeriodicVariantRepetition", "AutoFullInterval"}) @@ [PeriodicVariantUnit |-> 50]

\* Those of the editor of a column.
ColumnDefaults == One({"Enabled"}) @@ Zero({"ReadOnly", "ToolTip", "Caption", "Font"})

Own(k) ==
    CASE k = "CommandBar" -> CommandBarDefaults
      [] k = "Button" -> ButtonDefaults
      [] k = "UsualGroup" -> Zero({"Caption"})
      [] k = "RadioButton" -> RadioDefaults
      [] k = "PivotChart" -> One({"PivotChartType"})
      [] k = "PictureDecoration" -> PictureDefaults
      [] k = "Splitter" -> [Orientation |-> 2]
      [] k = "LabelDecoration" -> LabelDefaults
      [] k = "ChoiceField" -> ChoiceFieldDefaults
      [] k = "CheckBox" -> CheckBoxDefaults
      [] k = "CalendarField" -> CalendarDefaults
      [] k = "ListBox" -> ListBoxDefaults
      [] k = "ProgressBar" -> ProgressBarDefaults
      [] k = "TrackBar" -> TrackBarDefaults
      [] k = "InputField" -> InputFieldDefaults
      [] k = "Table" -> TableDefaults
      [] k = "SpreadsheetDocumentField" -> SheetDefaults
      [] k = "Dendrogram" -> DendrogramDefaults
      [] k = "GanttChart" -> GanttDefaults
      [] k = "TableColumn" -> ColumnDefaults
      [] OTHER -> Zero({})

\* Those that a form adds to every control, but not to a column.
Extension(k) ==
    IF k = "TableColumn" THEN Zero({}) ELSE Zero({"ModifiesData", "SkipOnInput", "FirstInGroup"})

Default(k) ==
    Own(k) @@ [p \in {q \in DOMAIN Base : k \in Base[q]} |-> BaseDefault(k, p)] @@ Extension(k)

-----------------------------------------------------------------------------
(* The values that set_prop_val applies: what property_value_matches and   *)
(* property_api_enumeration_matches let pass, which is not always what the *)
(* encoder of the kind has a code for.                                     *)

ColourProperties ==
    {"BorderColor", "TextColor", "FieldTextColor", "BackColor", "FieldBackColor", "ButtonTextColor",
     "ButtonBackColor", "HolidayColor", "SelectionBackColor", "SelectionTextColor",
     "HeaderBackColor", "HeaderTextColor", "FooterBackColor", "FooterTextColor",
     "AlternationRowBackColor"}

FontProperties == {"Font", "HeaderFont", "FooterFont"}

\* The bounds of an input field are values of its type, not integers.
IntegerProperties(k) ==
    {"ChoiceListHeight", "ChoiceListWidth", "FixedLeft", "FixedRight", "HeaderHeight", "FooterHeight"}
    \cup (IF k = "InputField" THEN {}
          ELSE {"MinValue", "MaxValue", "Step", "LargeStep", "MarkingStep"})

\* Enumerations of more than two members, or whose first has not the code 0.
MemberCodes(k, p) ==
    CASE p \in {"ButtonsAlignment", "VerticalAlign", "Output", "MenuMode", "ShowStyle",
                "InitialListView", "InitialTreeView"} -> 0..2
      [] p \in {"MarkingAppearance", "RowInputMode"} -> 0..3
      [] p = "Orientation" /\ k # "Dendrogram" -> 0..2
      [] p = "SelectionMode" /\ k # "Table" -> 0..2
      [] p \in {"HorizontalScrollBar", "VerticalScrollBar"} /\ k = "Table" -> 0..2
      [] p = "HorizontalAlign" -> IF k \in {"CheckBox", "RadioButton"} THEN 0..2 ELSE 0..4
      [] p = "LabelPictureLocation" -> 1..5
      [] p = "ScrollingText" -> {0} \cup 2..5
      [] p = "PictureSize" -> (0..4) \cup {7}
      [] p = "PeriodicVariantUnit" -> {5} \cup {10 * n : n \in 1..7}
      [] OTHER -> 0..1

\* The end of a period: none, a day, the day by which the stream says none.
\* NoCode: a colour or font of no control, a number of a radio
\* button that is not whole, a bound that is not of the type of the field.
Applied(k, p) ==
    LET default == Default(k)[p]
    IN  CASE p \in IntegerProperties(k) ->
               {-1, 0, 1, default, default + 1} \cup (IF k = "Table" THEN {256, 257, 32768} ELSE {})
          [] p \in ColourProperties \cup FontProperties -> {default, default + 1, NoCode}
          [] p = "Border" -> Borders(k) \cup {OtherStyle}
          [] p \in {"BeginOfDisplayPeriod", "EndOfDisplayPeriod"} -> 0..2
          [] p = "ActionSource" -> 0..2
          [] p = "SelectionValue" -> {NoCode} \cup 0..2
          [] p \in {"MinValue", "MaxValue"} -> {NoCode} \cup 0..1
          [] p = "PeriodicVariantRepetition" -> 1..2
          [] OTHER -> MemberCodes(k, p)

=============================================================================
