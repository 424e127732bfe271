----------------------------- MODULE FieldKinds -----------------------------
(* The fields, buttons, decorations and groups of a form: kinds of control *)
(* that form_stream.cpp keeps one property to a slot.                      *)
(* For each: what its decoder reads, where its canonical record holds it,  *)
(* and what its encoder accepts and writes when a property is not set.     *)
EXTENDS ControlRecords

Orientations == 0..2                    \* Vertical, Horizontal, Auto
Sides == 0..2                           \* Left or Top, Center, Right or Bottom
PictureSizes == (0..4) \cup {7}
Decorated == {"Font", "BorderColor", "Border", "Transparent"}

-----------------------------------------------------------------------------

ProgressBarReads ==
    BaseReads("ProgressBar", {"Font", "BorderColor", "Border"})
    @@ [MinValue |-> At(Info(2), AnyInteger(0)), MaxValue |-> At(Info(3), AnyInteger(100)),
        Step |-> At(Info(4), AnyInteger(1)), ShowStyle |-> At(Info(5), Codes(0..2, 1)),
        ShowPercent |-> At(Info(6), Flag(0)), Orientation |-> At(Info(7), Codes(Orientations, 2))]
    @@ LinkRead({Unbound, Untyped} \cup Numbers, Unbound)

ProgressBarInfo ==
    [MinValue |-> Info(2), MaxValue |-> Info(3), Step |-> Info(4), ShowStyle |-> Info(5),
     ShowPercent |-> Info(6), Orientation |-> Info(7)]

\* Mutant: the encoder knows one style less than the decoder.
ProgressBarWritesTwoStyles ==
    BaseWrites("ProgressBar", {"Enabled", "ToolTip", "Font", "BorderColor", "BackColor", "Border"})
    @@ [MaxValue |-> AnyInteger(100), MinValue |-> AnyInteger(0), Step |-> AnyInteger(1),
        ShowStyle |-> Codes(0..1, 1), ShowPercent |-> Flag(0), Orientation |-> Codes(Orientations, 2)]
    @@ LinkWrite({Unbound, Untyped} \cup Numbers, Unbound)

ProgressBarWrites ==
    BaseWrites("ProgressBar", {"Enabled", "ToolTip", "Font", "BorderColor", "BackColor", "Border"})
    @@ [MaxValue |-> AnyInteger(100), MinValue |-> AnyInteger(0), Step |-> AnyInteger(1),
        ShowStyle |-> Codes(0..2, 1), ShowPercent |-> Flag(0), Orientation |-> Codes(Orientations, 2)]
    @@ LinkWrite({Unbound, Untyped} \cup Numbers, Unbound)

TrackBarReads ==
    BaseReads("TrackBar", {"BorderColor", "Border", "Transparent"})
    @@ [MinValue |-> At(Info(2), AtLeast(0, 0)), MaxValue |-> At(Info(3), AtLeast(0, 100)),
        Step |-> At(Info(4), AtLeast(1, 1)), LargeStep |-> At(Info(5), AtLeast(1, 10)),
        MarkingAppearance |-> At(Info(6), Codes(0..3, 2)),
        Orientation |-> At(Info(7), Codes(Orientations, 2)),
        MarkingStep |-> At(Info(8), AtLeast(0, 5))]
    @@ EventReads @@ LinkRead({Unbound, CounterType}, Unbound)

TrackBarInfo ==
    [MinValue |-> Info(2), MaxValue |-> Info(3), Step |-> Info(4), LargeStep |-> Info(5),
     MarkingAppearance |-> Info(6), Orientation |-> Info(7), MarkingStep |-> Info(8)]

TrackBarWrites ==
    BaseWrites("TrackBar", {"Enabled", "ToolTip", "BorderColor", "TextColor", "BackColor",
                            "ButtonBackColor", "Border", "Transparent"})
    @@ [MaxValue |-> AtLeast(0, 100), MinValue |-> AtLeast(0, 0), Step |-> AtLeast(1, 1),
        LargeStep |-> AtLeast(1, 10), MarkingStep |-> AtLeast(0, 5),
        MarkingAppearance |-> Codes(0..3, 2), Orientation |-> Codes(Orientations, 2)]
    @@ EventWrites @@ LinkWrite({Unbound, CounterType}, Unbound)

\* The flags of a list box are one number; an unknown one is reported.
ListBoxReads ==
    BaseReads("ListBox", {"BorderColor", "Border"})
    @@ [ReadOnly |-> At(Nested(1), Flag(1)), ShowPicture |-> At(Info(4), Flag(0)),
        ShowCheckBox |-> At(Info(5), Flag(0))]
    @@ EventReads @@ LinkRead({ListType}, ListType)

\* Mutant: the encoder swaps two flags of the list.
ListBoxInfoSwapped == [ReadOnly |-> Nested(1), ShowPicture |-> Info(5), ShowCheckBox |-> Info(4)]

ListBoxInfo == [ReadOnly |-> Nested(1), ShowPicture |-> Info(4), ShowCheckBox |-> Info(5)]

ListBoxWrites ==
    BaseWrites("ListBox", {"Enabled", "ToolTip", "BorderColor", "FieldTextColor", "FieldBackColor",
                           "Border"})
    @@ [ShowPicture |-> Flag(0), ShowCheckBox |-> Flag(0), ReadOnly |-> Flag(1)]
    @@ EventWrites @@ LinkWrite({ListType}, ListType)

CheckBoxReads ==
    BaseReads("CheckBox", Decorated)
    @@ [Caption |-> At(Nested(2), Either(0)), TitleLocation |-> At(Nested(3), Codes(0..1, 1)),
        HorizontalAlign |-> At(Nested(4), Codes(Sides, 0)),
        VerticalAlign |-> At(Nested(5), Codes(Sides, 1)), ThreeState |-> At(Info(2), Flag(0))]
    @@ EventReads @@ LinkRead({BooleanType}, BooleanType)

CheckBoxInfo ==
    [Caption |-> Nested(2), TitleLocation |-> Nested(3), HorizontalAlign |-> Nested(4),
     VerticalAlign |-> Nested(5), ThreeState |-> Info(2)]

CheckBoxWrites ==
    BaseWrites("CheckBox", {"Enabled", "ToolTip", "TextColor", "FieldTextColor", "BackColor",
                            "FieldBackColor"} \cup Decorated)
    @@ [ThreeState |-> Flag(0), Caption |-> Either(0), TitleLocation |-> Codes(0..1, 1),
        HorizontalAlign |-> Codes(Sides, 0), VerticalAlign |-> Codes(Sides, 1)]
    @@ EventWrites @@ LinkWrite({BooleanType}, BooleanType)

ChoiceFieldReads ==
    BaseReads("ChoiceField", Decorated)
    @@ [ChoiceButton |-> At(Info(7), Flag(0)), ClearButton |-> At(Info(8), Flag(0)),
        SpinButton |-> At(Info(9), Flag(0)), OpenButton |-> At(Info(10), Flag(0)),
        ReadOnly |-> At(Info(13), Flag(0)), ChoiceListHeight |-> At(Info(31), AnyInteger(0)),
        ChoiceListWidth |-> At(Info(32), AnyInteger(0)), Picture |-> At(Info(28), Either(0)),
        ChoiceButtonPicture |-> At(Info(29), Either(0))]
    @@ EventReads @@ LinkRead({Unbound, Untyped, EmptyType, StringType}, Unbound)

ChoiceFieldInfo ==
    [ChoiceButton |-> Info(7), ClearButton |-> Info(8), SpinButton |-> Info(9),
     OpenButton |-> Info(10), ReadOnly |-> Info(13), Picture |-> Info(28),
     ChoiceButtonPicture |-> Info(29), ChoiceListHeight |-> Info(31), ChoiceListWidth |-> Info(32)]

ChoiceFieldWrites ==
    BaseWrites("ChoiceField", {"Enabled", "ToolTip", "ButtonTextColor", "FieldTextColor",
                               "ButtonBackColor", "FieldBackColor"} \cup Decorated)
    @@ [p \in {"ChoiceButton", "ClearButton", "SpinButton", "OpenButton", "ReadOnly"} |-> Flag(0)]
    @@ [p \in {"ChoiceListHeight", "ChoiceListWidth"} |-> AnyInteger(0)]
    @@ [p \in {"Picture", "ChoiceButtonPicture"} |-> Either(0)]
    @@ EventWrites @@ LinkWrite({Unbound, Untyped, EmptyType, StringType}, Unbound)

\* No tool tip is read from this kind: one in the record is reported.
TextDocumentReads ==
    [p \in {"Enabled", "BorderColor", "Font", "Border"} |->
        At(BaseSlot[p], BaseField("TextDocumentField", p))]

TextDocumentWrites ==
    BaseWrites("TextDocumentField", {"Enabled", "BorderColor", "Font", "Border"})

CalendarReads ==
    BaseReads("CalendarField", {"Font", "BorderColor", "Border"})
    @@ [HolidayColor |-> At(Info(2), Colour("HolidayColor")),
        SelectionBackColor |-> At(Info(3), Colour("SelectionBackColor")),
        SelectionTextColor |-> At(Info(4), Colour("SelectionTextColor")),
        BeginOfDisplayPeriod |-> At(Info(5), Either(0)), EndOfDisplayPeriod |-> At(Info(6), Either(0)),
        ShowCurrentDate |-> At(Info(7), Flag(1)), CalendarNavigation |-> At(Info(8), Flag(1)),
        SelectionMode |-> At(Info(9), Codes(0..2, 0)),
        EnableStartDrag |-> At(Info(10), Flag(0)), EnableDrag |-> At(Info(11), Flag(0))]
    @@ EventReads @@ LinkRead({Unbound, DateType}, Unbound)

CalendarInfo ==
    [HolidayColor |-> Info(2), SelectionBackColor |-> Info(3), SelectionTextColor |-> Info(4),
     BeginOfDisplayPeriod |-> Info(5), EndOfDisplayPeriod |-> Info(6), ShowCurrentDate |-> Info(7),
     CalendarNavigation |-> Info(8), SelectionMode |-> Info(9), EnableStartDrag |-> Info(10),
     EnableDrag |-> Info(11)]

CalendarWrites ==
    BaseWrites("CalendarField", {"Enabled", "ToolTip", "Font", "BorderColor", "Border", "ButtonTextColor",
                                 "FieldTextColor", "ButtonBackColor", "FieldBackColor",
                                 "HolidayColor", "SelectionBackColor", "SelectionTextColor"})
    @@ [BeginOfDisplayPeriod |-> Either(0), EndOfDisplayPeriod |-> Either(0), ShowCurrentDate |-> Flag(1),
        CalendarNavigation |-> Flag(1), SelectionMode |-> Codes(0..2, 0),
        EnableStartDrag |-> Flag(0), EnableDrag |-> Flag(0)]
    @@ EventWrites @@ LinkWrite({Unbound, DateType}, Unbound)

HTMLDocumentReads ==
    [Output |-> At(Info(6), Codes(0..2, 0)), BorderColor |-> At(Info(3), Colour("BorderColor")),
     Border |-> At(Info(4), BorderField("HTMLDocumentField"))] @@ EventReads

HTMLDocumentInfo == [Output |-> Info(6), BorderColor |-> Info(3), Border |-> Info(4)]

HTMLDocumentWrites ==
    [Output |-> Codes(0..2, 0)] @@ BaseWrites("HTMLDocumentField", {"BorderColor", "Border"})
    @@ EventWrites

\* PivotTypeCopy: the renderer of a pivot chart repeats its type.
PivotChartReads ==
    [BackColor |-> At(Nested(7), Either(FormBackStyle)), PivotChartType |-> At(Info(6), Codes(0..1, 1)),
     PivotTypeCopy |-> At(Nested(8), Codes(0..1, 1))]

SchemaReads ==
    [BorderColor |-> At(6, Colour("BorderColor")), Output |-> At(Nested(4), Codes(0..2, 0))]
    @@ EventReads

ComplexInfo ==
    [BackColor |-> Nested(7), PivotChartType |-> Info(6), PivotTypeCopy |-> Nested(8),
     Output |-> Nested(4)]

PivotChartWrites == [BackColor |-> Either(FormBackStyle), PivotChartType |-> Codes(0..1, 1)]

SchemaWrites == [BorderColor |-> Colour("BorderColor"), Output |-> Codes(0..2, 0)] @@ EventWrites

-----------------------------------------------------------------------------
(* The buttons, decorations and groups of a form.                          *)

\* State and Pressed are read, and written as constants.
ButtonReads ==
    BaseReads("Button", {"Font", "BorderColor"})
    @@ [ButtonBackColor |-> At(9, Colour("ButtonBackColor")),
        ButtonTextColor |-> At(10, Colour("ButtonTextColor")), State |-> At(17, Codes(1..2, 2)),
        Caption |-> At(Info(2), Either(0)), HorizontalAlign |-> At(Info(3), Codes(Sides, 1)),
        VerticalAlign |-> At(Info(4), Codes(Sides, 1)), DefaultButton |-> At(Info(5), Flag(0)),
        PictureLocation |-> At(Info(6), Codes(0..1, 0)),
        PictureSize |-> At(Info(7), Codes(PictureSizes, 0)), Picture |-> At(Info(8), Either(0)),
        Shortcut |-> At(Info(9), Either(0)), MultiLine |-> At(Info(10), Flag(0)),
        MenuMode |-> At(Info(11), Codes(0..2, 0)), Pressed |-> At(Info(15), Codes(1..2, 1))]
    @@ EventReads

ButtonInfo ==
    [Caption |-> Info(2), HorizontalAlign |-> Info(3), VerticalAlign |-> Info(4),
     DefaultButton |-> Info(5), PictureLocation |-> Info(6), PictureSize |-> Info(7),
     Picture |-> Info(8), Shortcut |-> Info(9), MultiLine |-> Info(10), MenuMode |-> Info(11),
     Pressed |-> Info(15)]

ButtonWrites ==
    BaseWrites("Button", {"Enabled", "ToolTip", "BorderColor", "ButtonTextColor", "ButtonBackColor",
                          "Font"})
    @@ [p \in {"Caption", "Shortcut", "Picture"} |-> Either(0)]
    @@ [MultiLine |-> Flag(0), HorizontalAlign |-> Codes(Sides, 1), VerticalAlign |-> Codes(Sides, 1),
        PictureLocation |-> Codes(0..1, 0), PictureSize |-> Codes(PictureSizes, 0),
        MenuMode |-> Codes(0..2, 0), DefaultButton |-> Flag(0)]
    @@ EventWrites

\* The source of the actions of a bar: the form, a table, or none.  A
\* control that is no source is refused with the whole form.
ActionSources == Codes(0..2, 2)

CommandBarReads ==
    BaseReads("CommandBar", {"Font", "BorderColor"})
    @@ [BackColor |-> At(2, Colour("BackColor")), Transparent |-> At(5, Flag(0)),
        ButtonBackColor |-> At(9, Either(0)), ButtonTextColor |-> At(10, Colour("ButtonTextColor")),
        Border |-> At(11, BorderField("CommandBar")), State |-> At(17, Codes(1..2, 2)),
        Orientation |-> At(Info(2), Codes(Orientations, 2)), AutoFill |-> At(Info(3), Flag(0)),
        ButtonsAlignment |-> At(Info(4), Codes(0..2, 0)), Secondary |-> At(Info(5), Flag(1)),
        ActionSource |-> At(Meta(2), ActionSources)]

CommandBarInfo ==
    [Orientation |-> Info(2), AutoFill |-> Info(3), ButtonsAlignment |-> Info(4),
     Secondary |-> Info(5), ActionSource |-> Meta(2)]

CommandBarWrites ==
    BaseWrites("CommandBar", {"Enabled", "ToolTip", "BorderColor", "ButtonTextColor", "BackColor",
                              "Border", "Transparent", "Font"})
    @@ [ButtonBackColor |-> Either(0), Secondary |-> Flag(1), AutoFill |-> Flag(0),
        Orientation |-> Codes(Orientations, 2), ButtonsAlignment |-> Codes(0..2, 0),
        ActionSource |-> ActionSources]

\* The font of a group is bold unless it says otherwise.
Bold == Either(BoldFont)

UsualGroupReads ==
    [Font |-> At(4, Bold)] @@ BaseReads("UsualGroup", {"BorderColor", "Transparent"})
    @@ [Caption |-> At(Info(2), Either(0)), Border |-> At(Info(3), BorderField("UsualGroup"))]

UsualGroupInfo == [Caption |-> Info(2), Border |-> Info(3)]

UsualGroupWrites ==
    [Font |-> Bold, Caption |-> Either(0)]
    @@ BaseWrites("UsualGroup", {"Enabled", "ToolTip", "BorderColor", "TextColor", "BackColor",
                                 "Border", "Transparent"})

\* PictureSizeCopy: the size of a picture is kept beside the picture too.
PictureReads ==
    BaseReads("PictureDecoration", Decorated)
    @@ [PictureSize |-> At(Info(2), Codes(PictureSizes, 0)), Hyperlink |-> At(Info(3), Flag(0)),
        PictureSizeCopy |-> At(Nested(1), Codes(PictureSizes, 0)), Picture |-> At(Nested(2), Either(0)),
        Shortcut |-> At(Info(5), Either(0)), Zoomable |-> At(Info(6), Flag(1)),
        UseContextMenu |-> At(Info(7), Flag(1)), EnableStartDrag |-> At(Info(8), Flag(0)),
        EnableDrag |-> At(Info(9), Flag(0)), NonselectedPictureText |-> At(Info(10), Either(0))]
    @@ EventReads

PictureInfo ==
    [PictureSize |-> Info(2), Hyperlink |-> Info(3), PictureSizeCopy |-> Nested(1),
     Picture |-> Nested(2), Shortcut |-> Info(5), Zoomable |-> Info(6), UseContextMenu |-> Info(7),
     EnableStartDrag |-> Info(8), EnableDrag |-> Info(9), NonselectedPictureText |-> Info(10)]

PictureWrites ==
    BaseWrites("PictureDecoration", {"Enabled", "ToolTip", "TextColor", "BackColor"} \cup Decorated)
    @@ [p \in {"Picture", "Shortcut", "NonselectedPictureText"} |-> Either(0)]
    @@ [p \in {"Hyperlink", "EnableStartDrag", "EnableDrag"} |-> Flag(0)]
    @@ [UseContextMenu |-> Flag(1), Zoomable |-> Flag(1), PictureSize |-> Codes(PictureSizes, 0)]
    @@ EventWrites

SplitterReads ==
    BaseReads("Splitter", {"BorderColor", "Border"})
    @@ [BackColor |-> At(2, Colour("BackColor")), Orientation |-> At(Info(2), Codes(Orientations, 2))]

SplitterInfo == [Orientation |-> Info(2)]

SplitterWrites ==
    BaseWrites("Splitter", {"Enabled", "ToolTip", "BorderColor", "BackColor", "Border"})
    @@ [Orientation |-> Codes(Orientations, 2)]

\* The horizontal alignment of a label is always said.
LabelAligns == {0, 1, 2, 4}

LabelReads ==
    BaseReads("LabelDecoration", Decorated)
    @@ [Caption |-> At(Info(2), Either(0)), HorizontalAlign |-> At(Info(3), Codes(LabelAligns, 0)),
        VerticalAlign |-> At(Info(4), Codes(Sides, 1)), Hyperlink |-> At(Info(5), Flag(0)),
        MarkNegatives |-> At(Info(6), Flag(0)), Shortcut |-> At(Info(8), Either(0)),
        ScrollingText |-> At(Info(9), Codes({0} \cup 2..5, 0)), Format |-> At(Info(10), Either(0)),
        LabelPictureLocation |-> At(Info(11), Codes(1..5, 1)),
        PictureSizeCopy |-> At(Nested(1), Codes(PictureSizes, 0)), Picture |-> At(Nested(2), Either(0)),
        PictureSize |-> At(Info(13), Codes(PictureSizes, 4))]
    @@ EventReads @@ LinkRead(LinkCodes, Unbound)

LabelInfo ==
    [Caption |-> Info(2), HorizontalAlign |-> Info(3), VerticalAlign |-> Info(4),
     Hyperlink |-> Info(5), MarkNegatives |-> Info(6), Shortcut |-> Info(8),
     ScrollingText |-> Info(9), Format |-> Info(10), LabelPictureLocation |-> Info(11),
     PictureSizeCopy |-> Nested(1), Picture |-> Nested(2), PictureSize |-> Info(13)]

LabelWrites ==
    BaseWrites("LabelDecoration", {"Enabled", "ToolTip", "TextColor", "BackColor"} \cup Decorated)
    @@ [p \in {"Caption", "Format", "Picture", "Shortcut"} |-> Either(0)]
    @@ [LabelPictureLocation |-> Codes(1..5, 1), PictureSize |-> Codes(PictureSizes, 4),
        Hyperlink |-> Flag(0), HorizontalAlign |-> Codes(LabelAligns, 0),
        VerticalAlign |-> Codes(Sides, 1), MarkNegatives |-> Flag(0),
        ScrollingText |-> Codes({0} \cup 2..5, 0)]
    @@ EventWrites @@ LinkWrite(LinkCodes, Unbound)

\* The value of a radio button: none, one that both types of number hold,
\* or one that a CounterType does not.
RadioReads ==
    BaseReads("RadioButton", Decorated)
    @@ [ValueType |-> At(Info(1), Codes({EmptyType} \cup Numbers, EmptyType)),
        SelectionValue |-> At(Info(4), Codes(0..2, 0)), Caption |-> At(Nested(2), Either(0)),
        TitleLocation |-> At(Nested(3), Codes(0..1, 1)),
        HorizontalAlign |-> At(Nested(4), Codes(Sides, 0)),
        VerticalAlign |-> At(Nested(5), Codes(Sides, 1))]
    @@ EventReads @@ LinkRead({Unbound, EmptyType} \cup Numbers, Unbound)

RadioInfo ==
    [ValueType |-> Info(1), SelectionValue |-> Info(4), Caption |-> Nested(2),
     TitleLocation |-> Nested(3), HorizontalAlign |-> Nested(4), VerticalAlign |-> Nested(5)]

RadioWrites ==
    BaseWrites("RadioButton", {"Enabled", "ToolTip", "TextColor", "FieldTextColor", "BackColor",
                               "FieldBackColor"} \cup Decorated)
    @@ [Caption |-> Either(0), SelectionValue |-> Codes(0..2, 0), TitleLocation |-> Codes(0..1, 1),
        HorizontalAlign |-> Codes(Sides, 0), VerticalAlign |-> Codes(Sides, 1),
        ValueType |-> Codes({EmptyType} \cup Numbers, EmptyType)]
    @@ EventWrites @@ LinkWrite({Unbound} \cup Numbers, Unbound)

=============================================================================
