--------------------------- MODULE ControlRecords ---------------------------
(* What form_stream.cpp keeps of one control of a form: the named          *)
(* properties of each kind of control, where its record in the form stream *)
(* holds them, which codes the decoder of the kind accepts there and which *)
(* value it leaves unsaid, and what the encoder of the kind writes for a   *)
(* property that is not set.  Everything else of the record is fixed by    *)
(* the canonical record of the kind; the slot Rest stands for it.          *)
(*                                                                         *)
(* Codes are integers: the code of an enumeration, 0 and 1 for No and Yes, *)
(* and for a text, a colour, a font, a border, a shortcut or a picture a   *)
(* code for its default and one for any other.                             *)
EXTENDS Integers, FiniteSetsExt, TLC

-----------------------------------------------------------------------------
(* The slots of a record.                                                  *)

Info(i) == 20 + i       \* of the list of the kind itself
Nested(i) == 70 + i     \* of a list inside that
Meta(i) == 100 + i      \* of the metadata, the fifth item of a control
Events == 110           \* the table of event handlers
Link == 111             \* the data path the form keeps for the control
Rest == 112             \* all that no property is read from

\* The first list of every kind.
BaseSlot == [Enabled |-> 1, BackColor |-> 2, TextColor |-> 3, Font |-> 4,
             Transparent |-> 5, BorderColor |-> 6, FieldBackColor |-> 7,
             FieldTextColor |-> 8, ButtonBackColor |-> 9, ButtonTextColor |-> 10,
             Border |-> 11, ToolTip |-> 12]

MetaSlot == [ModifiesData |-> Meta(3), SkipOnInput |-> Meta(4), FirstInGroup |-> Meta(5)]

-----------------------------------------------------------------------------
(* Fields: the codes that are accepted, samples of those that are not, and *)
(* the code that goes without saying.                                      *)

Codes(legal, default) == [legal |-> legal, bad |-> {-1}, default |-> default]
Flag(default) == Codes(0..1, default)
AtLeast(n, default) ==
    [legal |-> {i \in {0, 1, default, default + 1} : n <= i}, bad |-> {n - 1}, default |-> default]
AnyInteger(default) == [legal |-> {-1, 0, 1, default, default + 1}, bad |-> {}, default |-> default]
Either(default) == [legal |-> {default, default + 1}, bad |-> {}, default |-> default]

\* A value of the model that no record has a code for.
NoCode == -1

Empty == <<>>            \* no slots, no properties

At(slot, field) == [at |-> slot] @@ field

\* Colours: the automatic one and those of the style that are defaults; one
\* more than any of these is another colour.
Automatic == 0
ButtonTextStyle == 10
ButtonBackStyle == 20
SpecialTextStyle == 30
SelectionBackStyle == 40
SelectedTextStyle == 50
FormBackStyle == 60

BoldFont == 20          \* the automatic font is 0

ColourDefault(p) ==
    CASE p = "ButtonTextColor" -> ButtonTextStyle
      [] p = "ButtonBackColor" -> ButtonBackStyle
      [] p = "HolidayColor" -> SpecialTextStyle
      [] p = "SelectionBackColor" -> SelectionBackStyle
      [] p = "SelectionTextColor" -> SelectedTextStyle
      [] OTHER -> Automatic

Colour(p) == Either(ColourDefault(p))

\* Borders: none, a line, that of the style "control border", the rounded
\* one that groups alone have, and that of a style no control has.
NoBorder == 0
SingleBorder == 1
StyleBorder == 2
RoundedBorder == 3
OtherStyle == 4

BorderDefault(k) ==
    CASE k = "UsualGroup" -> RoundedBorder
      [] k \in {"CalendarField", "ChoiceField", "InputField", "ListBox", "ProgressBar",
                   "SpreadsheetDocumentField", "HTMLDocumentField", "Table"} -> StyleBorder
      [] OTHER -> NoBorder

Borders(k) ==
    {NoBorder, SingleBorder, StyleBorder} \cup (IF k = "UsualGroup" THEN {RoundedBorder} ELSE {})

BorderField(k) ==
    [legal |-> Borders(k), bad |-> (RoundedBorder..OtherStyle) \ Borders(k),
     default |-> BorderDefault(k)]

BaseField(k, p) ==
    CASE p = "Enabled" -> Flag(1)
      [] p = "Transparent" -> Flag(0)
      [] p \in {"ToolTip", "Font"} -> Either(0)
      [] p = "Border" -> BorderField(k)
      [] OTHER -> Colour(p)

\* The colours that are properties of a kind.
NamedColours(k) ==
    CASE k \in {"CheckBox", "RadioButton"} ->
           {"TextColor", "FieldTextColor", "BackColor", "FieldBackColor"}
      [] k \in {"ChoiceField", "InputField", "CalendarField"} ->
           {"ButtonTextColor", "FieldTextColor", "ButtonBackColor", "FieldBackColor"}
      [] k \in {"UsualGroup", "LabelDecoration", "PictureDecoration"} ->
           {"TextColor", "BackColor"}
      [] k = "ListBox" -> {"FieldTextColor", "FieldBackColor"}
      [] k = "ProgressBar" -> {"BackColor"}
      [] k = "TrackBar" -> {"TextColor", "BackColor", "ButtonBackColor"}
      [] k = "Table" -> {"FieldBackColor"}
      [] OTHER -> {}

\* Enabled, ToolTip and what else a kind takes from the first list.
BaseReads(k, capabilities) ==
    [p \in {"Enabled", "ToolTip"} \cup capabilities \cup NamedColours(k) |->
        At(BaseSlot[p], BaseField(k, p))]

BaseWrites(k, names) == [p \in names |-> BaseField(k, p)]

MetaReads == [p \in DOMAIN MetaSlot |-> At(MetaSlot[p], Flag(0))]
MetaWrites == [p \in DOMAIN MetaSlot |-> Flag(0)]

EventReads == [Events |-> At(Events, Either(0))]
EventWrites == [Events |-> Either(0)]

-----------------------------------------------------------------------------
(* The data path of a control: none, or the type of the attribute it names.*)

Unbound == 0
Untyped == 1
EmptyType == 2
BooleanType == 3
StringType == 4
NumberType == 5
CounterType == 6        \* a number of ten digits, not negative
DateType == 7           \* with the time of day
ListType == 8
ReferenceType == 9      \* to the objects of one type
CompositeType == 10     \* such a reference, or a string
TextOrReferenceType == 11       \* the same with a string of some length
DateOnlyType == 12
TableType == 13
TreeType == 14
LinkCodes == Unbound..TreeType

Numbers == {NumberType, CounterType}

Path(types, default) == [legal |-> types, bad |-> LinkCodes \ types, default |-> default]
LinkRead(types, default) == [DataPath |-> At(Link, Path(types, default))]
LinkWrite(types, default) == [DataPath |-> Path(types, default)]

=============================================================================
