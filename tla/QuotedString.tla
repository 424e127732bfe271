---------------------------- MODULE QuotedString ----------------------------
(***************************************************************************)
(* String atoms of the list stream: quote_string writes one, the string    *)
(* branch of tokenize reads one (include/oof/storage/list_stream.hpp).     *)
(*                                                                         *)
(* A text is a sequence of symbols: the characters the scanner treats in a *)
(* way of their own, groups of four hexadecimal digits (which are ordinary *)
(* text unless they follow a quote and a backslash), and one character     *)
(* that stands for all others.                                             *)
(***************************************************************************)
EXTENDS Naturals, SequencesExt

CONSTANTS
    MaxText,    \* bound: symbols of a text that no writer wrote
    Openings    \* what such a text may start with after its opening quote

\* Groups of digits by the UTF-16 unit they name: the two line ends, a character
\* of the basic plane, and the halves of a surrogate pair.
Digits == {"000D", "000A", "hexBasic", "hexHigh", "hexLow"}
Separators == {"comma"}
StringSymbols == {"quote", "backslash", "cr", "lf", "letter"} \cup Separators \cup Digits

\* The characters that units decode to.
DecodedUnit == [u \in {"000D", "000A", "hexBasic"} |->
                  CASE u = "000D" -> "cr" [] u = "000A" -> "lf" [] OTHER -> "letter"]
Characters == StringSymbols \cup {"astral"}

ASSUME StringAssumption == MaxText \in Nat /\ Openings \subseteq Seq(StringSymbols)

VARIABLES
    text,       \* what is scanned; it starts with the opening quote
    at,         \* symbols consumed
    value,      \* the characters read so far
    ending,    \* "scanning", "string" or "error"
    first       \* the value of the first pass, <<"none">> during that pass

stringVars == <<text, at, value, ending, first>>

NoneYet == <<"none">>

-----------------------------------------------------------------------------
(* quote_string.                                                           *)

\* Mutant: line ends are written as they are.
QuotedPlainLineEnds(c) == IF c = "quote" THEN <<"quote", "quote">> ELSE <<c>>

\* A quote is doubled; a line end closes the string and goes on as a UTF-16 unit.
Quoted(c) ==
    CASE c = "quote" -> <<"quote", "quote">>
      [] c = "cr" -> <<"quote", "backslash", "000D">>
      [] c = "lf" -> <<"quote", "backslash", "000A">>
      [] OTHER -> <<c>>

QuoteString(s) ==
    <<"quote">> \o FlattenSeq([i \in DOMAIN s |-> Quoted(s[i])]) \o <<"quote">>

-----------------------------------------------------------------------------
(* The string branch of tokenize.                                          *)

StringInit ==
    /\ \E n \in 0..MaxText, opening \in Openings :
         \E s \in [1..n -> StringSymbols] : text = <<"quote">> \o opening \o s
    /\ at = 1
    /\ value = <<>>
    /\ ending = "scanning"
    /\ first = NoneYet

Scanning == ending = "scanning"
Sees(i, symbol) == at + i <= Len(text) /\ text[at + i] = symbol
SeesOneOf(i, symbols) == at + i <= Len(text) /\ text[at + i] \in symbols

\* Mutant: the index moves on once more than the branch has looked at.
ReadOneMore(n, characters) ==
    /\ at' = at + n + 1
    /\ value' = value \o characters
    /\ UNCHANGED <<text, ending, first>>

Read(n, characters) ==
    /\ at' = at + n
    /\ value' = value \o characters
    /\ UNCHANGED <<text, ending, first>>

\* A carriage return before a line feed is dropped: the pair reads as a line feed.
LineEnd == Scanning /\ Sees(1, "cr") /\ Sees(2, "lf") /\ Read(1, <<>>)

PlainCharacter ==
    /\ Scanning
    /\ at < Len(text)
    /\ text[at + 1] # "quote"
    /\ ~(Sees(1, "cr") /\ Sees(2, "lf"))
    /\ Read(1, <<text[at + 1]>>)

DoubledQuote ==
    Scanning /\ Sees(1, "quote") /\ Sees(2, "quote") /\ Read(2, <<"quote">>)

Escape == Sees(1, "quote") /\ Sees(2, "backslash")

\* A unit of the basic plane; the string goes on after its digits.
BasicUnit ==
    /\ Scanning /\ Escape
    /\ SeesOneOf(3, DOMAIN DecodedUnit)
    /\ Read(3, <<DecodedUnit[text[at + 3]]>>)

SurrogatePair ==
    /\ Scanning /\ Escape
    /\ Sees(3, "hexHigh")
    /\ Sees(4, "quote") /\ Sees(5, "backslash") /\ Sees(6, "hexLow")
    /\ Read(6, <<"astral">>)

\* After the closing quote only white space, a separator or the end may come.
MayFollow == {"cr", "lf"} \cup Separators

Close ==
    /\ Scanning
    /\ Sees(1, "quote")
    /\ at + 1 = Len(text) \/ SeesOneOf(2, MayFollow)
    /\ at' = at + 1
    /\ ending' = "string"
    /\ UNCHANGED <<text, value, first>>

Error ==
    /\ Scanning
    /\ \/ at = Len(text)
       \/ /\ Escape
          /\ ~SeesOneOf(3, DOMAIN DecodedUnit)
          /\ ~(/\ Sees(3, "hexHigh") /\ Sees(4, "quote")
               /\ Sees(5, "backslash") /\ Sees(6, "hexLow"))
       \/ /\ Sees(1, "quote")
          /\ at + 2 <= Len(text)
          /\ text[at + 2] \notin MayFollow \cup {"quote", "backslash"}
    /\ ending' = "error"
    /\ UNCHANGED <<text, at, value, first>>

\* The value read is written again, and read a second time.
WriteAgain ==
    /\ ending = "string"
    /\ first = NoneYet
    /\ first' = value
    /\ text' = QuoteString(value) \o <<"comma">>
    /\ at' = 1
    /\ value' = <<>>
    /\ ending' = "scanning"

StringNext ==
    \/ LineEnd \/ PlainCharacter \/ DoubledQuote \/ BasicUnit \/ SurrogatePair
    \/ Close \/ Error
    \/ WriteAgain

StringSpec == StringInit /\ [][StringNext]_stringVars

-----------------------------------------------------------------------------
(* Properties.                                                             *)

\* Every value a text can denote is written so that it is read back unchanged,
\* line ends, quotes and literal \000D included, and what follows the string is
\* left to the next token.
WrittenStringIsReadBack ==
    first # NoneYet =>
        /\ ending # "error"
        /\ ending = "string" => value = first /\ at = Len(text) - 1

=============================================================================
