---------------------------- MODULE PlatformValues ----------------------------
(* Values that Form.bin keeps as records of their own: colours, fonts,     *)
(* borders and texts in several languages.  Every one has a reader of the  *)
(* record, a writer of the record, and the conditions under which Form.xml *)
(* may hold it; the attributes of Form.xml are the fields of the model.    *)
EXTENDS Integers, Sequences, FiniteSets, SequencesExt

CONSTANT MaxTexts       \* max_localized_text_items

-----------------------------------------------------------------------------
(* Colours.  A record is a version, a kind (0 absolute, 1..3 named, 4      *)
(* automatic), a number, and the kind again; version 3 had no second kind. *)

NoKind == -1

\* A few of the colours that have a name: their kind and their number.
StyledColours == {<<1, 15>>, <<2, 1>>, <<3, -1>>}

AutomaticColour ==
    [kind |-> "automatic", red |-> 0, green |-> 0, blue |-> 0, alpha |-> 255, style |-> <<>>]

\* decode_control_color
ColourReadable(r) ==
    \/ r.version = 4 /\ r.again = r.kind
       /\ \/ r.kind = 4 /\ r.id = 0
          \/ r.kind = 0 /\ r.id \in 0..16777215
          \/ r.kind \in 1..3 /\ <<r.kind, r.id>> \in StyledColours
    \/ r.version = 3 /\ r.again = NoKind
       /\ \/ r.kind = 4 /\ r.id = 0
          \/ r.kind = 3 /\ <<r.kind, r.id>> \in StyledColours

ColourDecoded(r) ==
    CASE r.kind = 4 -> AutomaticColour
      [] r.kind = 0 -> [AutomaticColour EXCEPT !.kind = "absolute", !.red = r.id % 256,
                                               !.green = (r.id \div 256) % 256,
                                               !.blue = r.id \div 65536]
      [] OTHER -> [AutomaticColour EXCEPT !.kind = "styleReference", !.style = <<r.kind, r.id>>]

Uncoloured(c) == c.red = 0 /\ c.green = 0 /\ c.blue = 0 /\ c.alpha = 255

\* encode_control_color; a reference by identifier is one to no named colour.
ColourWritable(c) ==
    CASE c.kind = "absolute" -> c.alpha = 255 /\ c.style = <<>>
      [] c.kind = "automatic" -> Uncoloured(c) /\ c.style = <<>>
      [] OTHER -> Uncoloured(c) /\ c.style \in StyledColours

ColourRecord(kind, id) == [version |-> 4, kind |-> kind, id |-> id, again |-> kind]

ColourEncoded(c) ==
    CASE c.kind = "absolute" -> ColourRecord(0, c.red + 256 * c.green + 65536 * c.blue)
      [] c.kind = "automatic" -> ColourRecord(4, 0)
      [] OTHER -> ColourRecord(c.style[1], c.style[2])

\* parse_color and write_color; they take any style, and any opacity.
ColourSound(c) ==
    CASE c.kind = "absolute" -> c.style = <<>>
      [] c.kind = "automatic" -> Uncoloured(c) /\ c.style = <<>>
      [] OTHER -> Uncoloured(c) /\ c.style # <<>>

-----------------------------------------------------------------------------
(* Fonts.  A set of flags says which fields a font sets.  A font of the    *)
(* platform stores those only; an absolute one stores all.  Heights and    *)
(* scales are held in tenths of the units they are stored in, so that one  *)
(* that has no exact record can be told; the range of int32 is left out.   *)

FontFields == [faceName |-> "", height |-> 0, bold |-> 400, italic |-> FALSE,
               underline |-> FALSE, strikeout |-> FALSE]

FontKinds == {"absolute", "windowsFont", "styleReference", "automatic"}

NoSelector == -1
NoScale == -1
TextFont == -20

FontReadable(r) ==
    /\ r.version \in {6, 8} /\ r.kind \in FontKinds
    /\ r.flags \subseteq DOMAIN FontFields \cup (IF r.version = 8 THEN {"scale"} ELSE {})
    /\ r.version = 8 <=> r.scale # NoScale
    /\ CASE r.kind = "windowsFont" -> r.selector \in 0..4
         [] r.kind = "styleReference" -> r.selector = TextFont
         [] OTHER -> r.selector = NoSelector
    /\ DOMAIN r.fields = IF r.kind = "absolute" THEN DOMAIN FontFields ELSE r.flags \ {"scale"}
    /\ "bold" \in DOMAIN r.fields => r.fields.bold \in {400, 700}
    /\ r.kind = "absolute" =>
          /\ "faceName" \in r.flags /\ r.fields.faceName # ""
          /\ \A f \in DOMAIN FontFields \ r.flags : r.fields[f] = FontFields[f]

FontDecoded(r) ==
    [kind |-> r.kind, selector |-> IF r.kind = "windowsFont" THEN r.selector ELSE NoSelector,
     style |-> IF r.kind = "styleReference" THEN "TextFont" ELSE "none",
     fields |-> [f \in r.flags \ {"scale"} |->
                   CASE f = "height" -> 10 * r.fields.height
                     [] f = "bold" -> r.fields.bold = 700
                     [] OTHER -> r.fields[f]],
     scale |-> IF r.version = 6 THEN 1000 ELSE 10 * r.scale,
     override |-> "scale" \in r.flags]

\* write_font
FontWritable(v) ==
    /\ v.selector \in IF v.kind = "windowsFont" THEN 0..4 ELSE {NoSelector}
    /\ v.style = IF v.kind = "styleReference" THEN "TextFont" ELSE "none"
    /\ v.kind = "absolute" => "faceName" \in DOMAIN v.fields /\ v.fields.faceName # ""
    /\ "height" \in DOMAIN v.fields => v.fields.height % 10 = 0
    /\ v.scale % 10 = 0

StoredField(v, f) ==
    CASE f \notin DOMAIN v.fields -> FontFields[f]
      [] f = "height" -> v.fields.height \div 10
      [] f = "bold" -> IF v.fields.bold THEN 700 ELSE 400
      [] OTHER -> v.fields[f]

FontEncoded(v) ==
    [version |-> 8, kind |-> v.kind,
     flags |-> DOMAIN v.fields \cup (IF v.override THEN {"scale"} ELSE {}),
     selector |-> IF v.kind = "styleReference" THEN TextFont ELSE v.selector,
     fields |-> [f \in IF v.kind = "absolute" THEN DOMAIN FontFields ELSE DOMAIN v.fields |->
                    StoredField(v, f)],
     scale |-> v.scale \div 10]

\* parse_font and write_font of Form.xml
FontSound(v) ==
    /\ v.kind = "windowsFont" <=> v.selector # NoSelector
    /\ v.kind = "styleReference" <=> v.style # "none"
    /\ FontWritable(v)

-----------------------------------------------------------------------------
(* Borders, with the control they are of.                                  *)

WithoutBorder == 0
Rounded == 6
BorderTypes == 0..7 \cup {200}

AbsoluteBorder(type, width) == [style |-> "none", type |-> type, width |-> width]

ControlBorder == [style |-> "ControlBorder", type |-> WithoutBorder, width |-> 0]

DefaultBorder(owner) ==
    CASE owner = "UsualGroup" -> AbsoluteBorder(Rounded, 1)
      [] owner \in {"CalendarField", "ChoiceField", "InputField", "ListBox", "ProgressBar",
                    "SpreadsheetDocumentField", "HTMLDocumentField", "Table"} -> ControlBorder
      [] OTHER -> AbsoluteBorder(WithoutBorder, 0)

BorderValid(b) ==
    IF b.style = "none"
    THEN /\ b.type \in BorderTypes /\ b.width \in 0..5
         /\ b.type = WithoutBorder => b.width <= 1
         /\ b.type = Rounded => b.width = 1
    ELSE b.type = WithoutBorder /\ b.width = 0

BorderWritable(owner, b) ==
    /\ BorderValid(b)
    /\ b.style \in {"none", "ControlBorder"}
    /\ b.type = Rounded => owner \in {"UsualGroup", "Chart"}

NamedBorder == [kind |-> 1, ref |-> -18, type |-> 0, width |-> 0, state |-> 0, factory |-> "none"]

BorderEncoded(owner, b) ==
    IF b.style # "none" THEN NamedBorder
    ELSE [kind |-> 0,
          ref |-> IF owner = "Splitter" /\ b = DefaultBorder(owner) THEN -18 ELSE 0,
          type |-> b.type, width |-> b.width,
          state |-> IF b = DefaultBorder(owner) THEN 0 ELSE 3,
          factory |-> IF owner = "UsualGroup" THEN "group" ELSE "common"]

BorderDecoded(r) == IF r.kind = 1 THEN ControlBorder ELSE AbsoluteBorder(r.type, r.width)

\* Whether a border is the default of its control is not looked at.
BorderReadable(owner, r) ==
    \/ r = NamedBorder
    \/ LET b == BorderDecoded(r)
           expected == BorderEncoded(owner, b)
       IN  /\ r.kind = 0 /\ BorderWritable(owner, b) /\ r.state \in {0, 3}
           /\ \/ r.ref = expected.ref
              \/ owner = "Splitter" /\ b = DefaultBorder(owner) /\ r.ref \in {0, -18}
           /\ \/ r.factory = expected.factory
              \/ r.factory = "zero" /\ r.state = 0 /\ r.width = 1 /\ r.type \in {4, 7}

-----------------------------------------------------------------------------
(* Texts.  A text is a sequence of characters, of which "CR" and "LF" end  *)
(* lines; "folds" says whether this property holds its lines with LF only. *)

PlainText(text) == [plain |-> text]
Translations(items) == [items |-> items]

ModelLines(text) ==
    LET kept == {i \in DOMAIN text :
                    ~(text[i] = "CR" /\ i < Len(text) /\ text[i + 1] = "LF")}
        at == SetToSortSeq(kept, <)
    IN  [i \in DOMAIN at |-> text[at[i]]]

StorageLines(text) ==
    FlattenSeq([i \in DOMAIN text |->
        IF text[i] = "LF" /\ (i = 1 \/ text[i - 1] # "CR") THEN <<"CR", "LF">> ELSE <<text[i]>>])

InLines(items, Lines(_)) == [i \in DOMAIN items |-> [items[i] EXCEPT !.text = Lines(@)]]

IsRussian(items) == Len(items) = 1 /\ items[1].language = "ru" /\ items[1].text # <<>>

OneEach(items) ==
    \A i, j \in DOMAIN items : items[i].language = items[j].language => i = j

LanguagesValid(items) ==
    Len(items) <= MaxTexts /\ OneEach(items) /\ \A i \in DOMAIN items : items[i].language # "wrong"

TextsValid(v) == "items" \in DOMAIN v => LanguagesValid(v.items)

TextDecoded(r) ==
    LET items == IF r.folds THEN InLines(r.items, ModelLines) ELSE r.items
    IN  CASE items = <<>> -> PlainText(<<>>)
          [] IsRussian(items) -> PlainText(items[1].text)
          [] OTHER -> Translations(items)

\* decoded_localized_text, and the languages that the document checks
TextReadable(r) ==
    r.count <= MaxTexts /\ r.count = Len(r.items) /\ TextsValid(TextDecoded(r))

TextEncoded(folds, v) ==
    LET items == CASE "items" \in DOMAIN v -> v.items
                   [] v.plain = <<>> -> <<>>
                   [] OTHER -> <<[language |-> "ru", text |-> v.plain]>>
    IN  [folds |-> folds, count |-> Len(items),
         items |-> IF folds THEN InLines(items, StorageLines) ELSE items]

TextPrints(v) == "items" \in DOMAIN v => OneEach(v.items)

TextPrinted(v) ==
    CASE "plain" \in DOMAIN v -> v
      [] v.items = <<>> -> PlainText(<<>>)
      [] IsRussian(v.items) -> PlainText(v.items[1].text)
      [] OTHER -> v

=============================================================================
