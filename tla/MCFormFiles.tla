---------------------------- MODULE MCFormFiles -----------------------------
(* Three questions to the files of a form in one run: every sequence of    *)
(* commands, edits and foreign files on a package; every list value a      *)
(* writer can build with seven calls from five atoms; and every string of  *)
(* up to four symbols after an opening quote, alone or after one half of a *)
(* surrogate pair, so that pairs are reached too.  The three share no      *)
(* state: while one is worked on the others stay at their start.           *)
EXTENDS FormPackage, ListRoundTrip, QuotedString

CONSTANTS NoPayload, a1

\* Five forms that the codecs treat differently; all module texts of up to two
\* symbols and the longer ones where line ends and signatures meet.
MCForms == {"good", "picture", "unparsed", "unencoded", "undecoded"}
MCPictures == [f \in MCForms |-> IF f = "picture" THEN {"p"} ELSE {}]

MCTexts ==
    UNION {[1..n -> Symbols] : n \in 0..2}
    \cup {<<"cr", "cr", "lf">>, <<"cr", "lf", "lf">>, <<"x", "cr", "lf">>,
          <<"bom", "bom", "x">>, <<"bom", "cr", "lf">>, <<"bom", "cr", "cr", "lf">>}

Form(f) == LogicalFile("form", f, <<>>)
Module(t) == LogicalFile("module", NoPayload, t)

MCForeign ==
    {<<Form(f), Module(t)>> : f \in {"good"}, t \in MCTexts}
    \cup {<<Module(<<"x">>), Form(f)>> : f \in MCForms \cup {NoPayload}}
    \cup {NoPayload, <<>>, <<Form("good")>>, <<Form("good"), Form("good")>>,
          <<Module(<<"x">>), LogicalFile("other", "good", <<>>)>>,
          <<Form("good"), Module(<<"x">>), LogicalFile("other", "good", <<>>)>>}

MCAtoms == {RawAtom(a1), RawAtom(Empty), RawAtom(Base64), StringAtom(a1),
            StringAtom(Base64)}

MCOpenings == {<<>>, <<"quote", "backslash", "hexHigh", "quote", "backslash">>}

NoCommandYet == bin = Noise /\ package = <<Nothing, Nothing, {}>> /\ report = Idle
NoCallYet == calls = <<>> /\ style = "compact" /\ phase = "write"
NoTextYet == text = <<"quote">> /\ ending = "scanning"

MCInit ==
    /\ Init /\ ListInit /\ StringInit
    /\ \/ NoCallYet /\ NoTextYet
       \/ NoCommandYet /\ NoTextYet
       \/ NoCommandYet /\ NoCallYet

MCNext ==
    \/ NoCallYet /\ NoTextYet /\ Next /\ UNCHANGED <<listVars, stringVars>>
    \/ NoCommandYet /\ NoTextYet /\ ListNext /\ UNCHANGED <<vars, stringVars>>
    \/ NoCommandYet /\ NoCallYet /\ StringNext /\ UNCHANGED <<vars, listVars>>

MCSpec == MCInit /\ [][MCNext]_<<vars, listVars, stringVars>>

=============================================================================
