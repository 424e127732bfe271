----------------------------- MODULE FormPackage -----------------------------
(***************************************************************************)
(* A form and its two representations: Form.bin, read and written by       *)
(* src/form_bin.cpp, and the source package (Form.xml, Form/Module.bsl and *)
(* pictures) that `oof dump' writes and `oof build' reads, src/cli/main.cpp.*)
(* Between the commands the user edits the package and other tools write   *)
(* Form.bin.                                                               *)
(*                                                                         *)
(* A form is a token; what its codecs accept is given by constants.  The   *)
(* module is a text over the symbols the conversions tell apart.           *)
(***************************************************************************)
EXTENDS Integers, SequencesExt

CONSTANTS
    Forms,          \* what a form payload or a Form.xml may say
    XmlParses, XmlPrints,   \* forms that parse_form_xml, serialize_form_xml accept
    Encodes,        \* forms that encode_document accepts
    Decodes,        \* forms whose stream decode_document accepts
    Pictures,       \* form |-> the pictures it refers to
    Texts,          \* module texts that users and other tools write
    Foreign,        \* the Form.bin files of other tools
    Noise,          \* a form payload that is no list stream, or no container
    Nothing         \* no such file

\* bom: the UTF-8 signature; bad: bytes that are not UTF-8; x: any other text.
Symbols == {"bom", "cr", "lf", "x", "bad"}

\* other: any name of a logical file that a form has none of.
FileNames == {"form", "module", "other"}

LogicalFile(name, form, text) == [name |-> name, form |-> form, text |-> text]

ASSUME PackageAssumption ==
    /\ XmlParses \cup XmlPrints \cup Encodes \cup Decodes \subseteq Forms
    /\ Texts \subseteq Seq(Symbols)
    /\ Noise \notin Forms /\ Nothing \notin Forms \cup Seq(Symbols) \cup {Noise}
    /\ Foreign \ {Noise} \subseteq
         Seq([name : FileNames, form : Forms \cup {Noise}, text : Texts])

VARIABLES
    bin,        \* Form.bin: a sequence of logical files, or Noise
    xml,        \* Form.xml
    bsl,        \* Form/Module.bsl
    items,      \* the pictures under Form/Items
    report,     \* the last command and how it ended
    dumped,     \* history: the Form.bin the package was dumped from, unless edited
    built       \* history: the Form.bin first built since the last change by others

package == <<xml, bsl, items>>
vars == <<bin, package, report, dumped, built>>

-----------------------------------------------------------------------------
(* Conversions of the module text.                                         *)

\* utf8_payload and read_text: one signature is no part of the text.
WithoutBom(t) == IF t # <<>> /\ t[1] = "bom" THEN Tail(t) ELSE t

\* Mutant: the payload is stored as it is.
BomPayloadPlain(t) == t

BomPayload(t) == <<"bom">> \o t

ValidUtf8(t) == \A i \in DOMAIN t : t[i] # "bad"

\* Mutant: every carriage return is a line end.
NewlinesOfAllReturns(t, platformCrlf) ==
    LET end == IF platformCrlf THEN <<"cr", "lf">> ELSE <<"lf">>
    IN  FlattenSeq([i \in DOMAIN t |->
            IF t[i] = "cr" \/ (t[i] = "lf" /\ (i = 1 \/ t[i - 1] # "cr")) THEN end
            ELSE IF t[i] = "lf" THEN <<>> ELSE <<t[i]>>])

\* canonical_module_newlines: CR LF and LF are line ends, a lone CR is not.
Newlines(t, platformCrlf) ==
    LET end == IF platformCrlf THEN <<"cr", "lf">> ELSE <<"lf">>
    IN  FlattenSeq([i \in DOMAIN t |->
            IF t[i] = "lf" THEN end
            ELSE IF t[i] = "cr" /\ i < Len(t) /\ t[i + 1] = "lf" THEN <<>>
            ELSE <<t[i]>>])

-----------------------------------------------------------------------------
(* load_form_bin and save_form_bin.                                        *)

Names(b) == [i \in DOMAIN b |-> b[i].name]
FileNamed(b, name) == b[CHOOSE i \in DOMAIN b : b[i].name = name]

\* The module text of a document that was loaded.
LoadedText(b) == Newlines(WithoutBom(FileNamed(b, "module").text), FALSE)
LoadedForm(b) == FileNamed(b, "form").form

LoadError(b) ==
    IF b = Noise THEN "OOF1200"
    ELSE IF \E i \in DOMAIN b : \/ b[i].name \notin {"form", "module"}
                                \/ \E j \in 1..(i - 1) : b[j].name = b[i].name
      THEN "OOF1202"
    ELSE IF Len(b) # 2 THEN "OOF1201"
    ELSE IF ~ValidUtf8(WithoutBom(FileNamed(b, "module").text)) THEN "OOF1204"
    ELSE IF LoadedForm(b) = Noise THEN "OOF1203"
    ELSE IF LoadedForm(b) \notin Decodes THEN "decode"
    ELSE "none"

Saved(form, text) ==
    <<LogicalFile("form", form, <<>>),
      LogicalFile("module", Noise, BomPayload(Newlines(text, TRUE)))>>

SaveError(form, text) ==
    IF ~ValidUtf8(text) THEN "OOF1204"
    ELSE IF form \notin Encodes THEN "encode"
    ELSE LoadError(Saved(form, text))

-----------------------------------------------------------------------------
(* The commands.  write_file_set installs all the files of one, or none.   *)

Report(command, how) == report' = [command |-> command, how |-> how]

DumpError ==
    IF LoadError(bin) # "none" THEN LoadError(bin)
    ELSE IF LoadedForm(bin) \notin XmlPrints THEN "print"
    ELSE "none"

Dump ==
    /\ DumpError = "none"
    /\ xml' = LoadedForm(bin)
    /\ bsl' = LoadedText(bin)
    /\ items' = items \cup Pictures[LoadedForm(bin)]
    /\ Report("dump", "ok")
    /\ dumped' = bin
    /\ UNCHANGED <<bin, built>>

BuildText == IF bsl = Nothing THEN <<>> ELSE WithoutBom(bsl)

\* Mutant: a package without a module is built with an empty one.
BuildErrorWithoutModule ==
    IF xml \notin XmlParses THEN "parse"
    ELSE IF ~(Pictures[xml] \subseteq items) THEN "OOF0006"
    ELSE SaveError(xml, BuildText)

BuildError ==
    IF xml \notin XmlParses THEN "parse"
    ELSE IF ~(Pictures[xml] \subseteq items) THEN "OOF0006"
    ELSE IF bsl = Nothing THEN "OOF0005"
    ELSE SaveError(xml, BuildText)

Build ==
    /\ xml # Nothing
    /\ BuildError = "none"
    /\ bin' = Saved(xml, BuildText)
    /\ Report("build", "ok")
    /\ built' = IF built = Nothing THEN bin' ELSE built
    /\ UNCHANGED <<package, dumped>>

\* A command that fails, for what it read or when it installs its files.
DumpFails ==
    /\ Report("dump", IF DumpError = "none" THEN "OOF0004" ELSE DumpError)
    /\ UNCHANGED <<bin, package, dumped, built>>

BuildFails ==
    /\ Report("build", IF xml = Nothing \/ BuildError = "none" THEN "OOF0004"
                       ELSE BuildError)
    /\ UNCHANGED <<bin, package, dumped, built>>

-----------------------------------------------------------------------------
(* The world around the commands.                                          *)

Idle == [command |-> "none", how |-> "none"]

Edited == report' = Idle /\ dumped' = Nothing /\ built' = Nothing

EditXml == xml' \in Forms /\ Edited /\ UNCHANGED <<bin, bsl, items>>
EditModule == bsl' \in Texts \cup {Nothing} /\ Edited /\ UNCHANGED <<bin, xml, items>>
DeletePicture ==
    /\ \E p \in items : items' = items \ {p}
    /\ Edited
    /\ UNCHANGED <<bin, xml, bsl>>

\* The package stays what it was dumped from, Form.bin is another one.
ReplaceBin == bin' \in Foreign /\ Edited /\ UNCHANGED package

Init ==
    /\ bin \in Foreign
    /\ xml = Nothing /\ bsl = Nothing /\ items = {}
    /\ report = Idle
    /\ dumped = Nothing /\ built = Nothing

Next ==
    \/ Dump \/ DumpFails \/ Build \/ BuildFails
    \/ EditXml \/ EditModule \/ DeletePicture \/ ReplaceBin

Spec == Init /\ [][Next]_vars

-----------------------------------------------------------------------------
(* Properties.                                                             *)

BuildSucceeded == report = [command |-> "build", how |-> "ok"]

\* What the conversions do not keep: a carriage return before CR LF becomes a
\* part of it on the way back, and each reader drops one signature.
Plain(t) ==
    /\ ~\E i \in 1..(Len(t) - 2) : SubSeq(t, i, i + 2) = <<"cr", "cr", "lf">>
    /\ t # <<>> => t[1] # "bom"

\* The text without the carriage returns that belong to a line end.
WithoutReturns(t) ==
    FlattenSeq([i \in DOMAIN t |->
        IF t[i] = "cr" /\ i < Len(t) /\ t[i + 1] = "lf" THEN <<>> ELSE <<t[i]>>])

\* What `build' has just reported as built can be dumped again, although encoder
\* and decoder may disagree about a form; and if the package was built as it was
\* dumped, it gives back the form and the module it was dumped from: line ends
\* become those of the platform, no more.
CycleKeepsModule ==
    /\ BuildSucceeded => LoadError(bin) = "none"
    /\ (BuildSucceeded /\ dumped # Nothing) =>
        LET before == WithoutBom(FileNamed(dumped, "module").text)
            after == WithoutBom(FileNamed(bin, "module").text)
        IN  /\ LoadedForm(bin) = LoadedForm(dumped)
            /\ Plain(before) => WithoutReturns(after) = WithoutReturns(before)
            /\ \A i \in DOMAIN after : after[i] = "lf" => i > 1 /\ after[i - 1] = "cr"

\* Build, dump and build again: the second Form.bin is the first one.
BuildSettles ==
    (BuildSucceeded /\ built # Nothing
       /\ Plain(WithoutBom(FileNamed(built, "module").text)))
        => bin = built

\* tests/form_bin_test.cpp:289: "module save/load/save must be idempotent".
SaveLoadSaveIdempotent == (BuildSucceeded /\ built # Nothing) => bin = built

\* Form.bin never loses its module because the package has none: a command
\* replaces a module by an empty one only for an empty Module.bsl.
EmptyModule(b) == b # Noise /\ \A i \in DOMAIN b :
    b[i].name = "module" => WithoutBom(b[i].text) = <<>>
ModuleNotDropped ==
    [][(bin' # bin /\ report'.command = "build" /\ EmptyModule(bin')) =>
           bsl \in {<<>>, <<"bom">>}]_vars

=============================================================================
