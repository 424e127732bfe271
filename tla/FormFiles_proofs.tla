--------------------------- MODULE FormFiles_proofs ---------------------------
(***************************************************************************)
(* Proofs about the files of a form: a string of any length that was read  *)
(* is written so that it reads back as it was (QuotedString), and module   *)
(* texts of any length keep their lines through the commands dump and      *)
(* build (FormPackage).                                                    *)
(***************************************************************************)
EXTENDS FormPackage, QuotedString, DataInduction

-----------------------------------------------------------------------------
(* Strings.                                                                *)

\* During the second pass what has been read is a part of the value, and the
\* place reached is the one to which quote_string writes that part.
Reading ==
    /\ text = QuoteString(first) \o <<"comma">>
    /\ \/ /\ ending = "scanning"
          /\ \E k \in 0..Len(first) : value = SubSeq(first, 1, k)
          /\ at = Len(QuoteString(value)) - 1
       \/ ending = "string" /\ value = first /\ at = Len(text) - 1

StringInv ==
    /\ text \in Seq(Characters) /\ value \in Seq(Characters)
    /\ at \in Nat /\ at >= 1
    /\ first \in Seq(Characters) \cup {NoneYet}
    /\ first # NoneYet => Reading

Quotes(s) == [i \in DOMAIN s |-> Quoted(s[i])]

LEMMA QuotedIs ==
    ASSUME NEW c \in Characters
    PROVE  /\ Quoted(c) \in Seq(Characters) /\ Len(Quoted(c)) \in {1, 2, 3}
           /\ c = "quote" => /\ Len(Quoted(c)) = 2
                             /\ Quoted(c)[1] = "quote" /\ Quoted(c)[2] = "quote"
           /\ c = "cr" => /\ Len(Quoted(c)) = 3 /\ Quoted(c)[1] = "quote"
                          /\ Quoted(c)[2] = "backslash" /\ Quoted(c)[3] = "000D"
           /\ c = "lf" => /\ Len(Quoted(c)) = 3 /\ Quoted(c)[1] = "quote"
                          /\ Quoted(c)[2] = "backslash" /\ Quoted(c)[3] = "000A"
           /\ c \notin {"quote", "cr", "lf"} => Len(Quoted(c)) = 1 /\ Quoted(c)[1] = c
<1>1. /\ "quote" \in Characters /\ "backslash" \in Characters
      /\ "000D" \in Characters /\ "000A" \in Characters
  BY DEF Characters, StringSymbols, Digits
<1>2. CASE c = "quote"
  <2>1. Quoted(c) = <<"quote", "quote">>
    BY <1>2 DEF Quoted
  <2>2. <<"quote", "quote">> \in Seq(Characters)
    BY <1>1
  <2>3. Len(Quoted(c)) = 2 /\ Quoted(c)[1] = "quote" /\ Quoted(c)[2] = "quote"
    BY <2>1
  <2>4. c # "cr" /\ c # "lf" /\ c \in {"quote", "cr", "lf"}
    BY <1>2
  <2>5. Quoted(c) \in Seq(Characters)
    BY <2>1, <2>2
  <2> QED
    BY ONLY <1>2, <2>3, <2>4, <2>5
<1>3. CASE c = "cr"
  <2>1. Quoted(c) = <<"quote", "backslash", "000D">>
    BY <1>3 DEF Quoted
  <2>2. <<"quote", "backslash", "000D">> \in Seq(Characters)
    BY <1>1
  <2>3. Len(Quoted(c)) = 3 /\ Quoted(c)[1] = "quote" /\ Quoted(c)[2] = "backslash" /\ Quoted(c)[3] = "000D"
    BY <2>1
  <2>4. c # "quote" /\ c # "lf" /\ c \in {"quote", "cr", "lf"}
    BY <1>3
  <2>5. Quoted(c) \in Seq(Characters)
    BY <2>1, <2>2
  <2> QED
    BY ONLY <1>3, <2>3, <2>4, <2>5
<1>4. CASE c = "lf"
  <2>1. Quoted(c) = <<"quote", "backslash", "000A">>
    BY <1>4 DEF Quoted
  <2>2. <<"quote", "backslash", "000A">> \in Seq(Characters)
    BY <1>1
  <2>3. Len(Quoted(c)) = 3 /\ Quoted(c)[1] = "quote" /\ Quoted(c)[2] = "backslash" /\ Quoted(c)[3] = "000A"
    BY <2>1
  <2>4. c # "quote" /\ c # "cr" /\ c \in {"quote", "cr", "lf"}
    BY <1>4
  <2>5. Quoted(c) \in Seq(Characters)
    BY <2>1, <2>2
  <2> QED
    BY ONLY <1>4, <2>3, <2>4, <2>5
<1>5. CASE c \notin {"quote", "cr", "lf"}
  <2>1. Quoted(c) = <<c>>
    BY <1>5 DEF Quoted
  <2> QED
    BY <1>5, <2>1
<1> QED
  BY <1>2, <1>3, <1>4, <1>5

LEMMA QuotesAre ==
    ASSUME NEW s \in Seq(Characters)
    PROVE  /\ Quotes(s) \in Seq(Seq(Characters)) /\ Len(Quotes(s)) = Len(s)
           /\ DOMAIN Quotes(s) = 1..Len(s) /\ Len(s) \in Nat
           /\ \A k \in 1..Len(s) : Quotes(s)[k] = Quoted(s[k]) /\ s[k] \in Characters
           /\ \A k \in 0..Len(s) : /\ SubSeq(s, 1, k) \in Seq(Characters)
                                   /\ Len(SubSeq(s, 1, k)) = k
                                   /\ Quotes(SubSeq(s, 1, k)) = SubSeq(Quotes(s), 1, k)
<1>1. DOMAIN s = 1..Len(s) /\ Len(s) \in Nat /\ \A k \in 1..Len(s) : s[k] \in Characters
  OBVIOUS
<1>2. /\ Quotes(s) \in Seq(Seq(Characters)) /\ Len(Quotes(s)) = Len(s)
      /\ DOMAIN Quotes(s) = 1..Len(s)
      /\ \A k \in 1..Len(s) : Quotes(s)[k] = Quoted(s[k])
  BY <1>1, QuotedIs DEF Quotes
<1>3. ASSUME NEW k \in 0..Len(s)
      PROVE  /\ SubSeq(s, 1, k) \in Seq(Characters) /\ Len(SubSeq(s, 1, k)) = k
             /\ Quotes(SubSeq(s, 1, k)) = SubSeq(Quotes(s), 1, k)
  <2>1. SubSeq(s, 1, k) = [i \in 1..k |-> s[i]]
    BY <1>1
  <2>2. \A i \in 1..k : s[i] \in Characters
    BY <1>1
  <2>3. SubSeq(Quotes(s), 1, k) = [i \in 1..k |-> Quotes(s)[i]]
    BY <1>1, <1>2
  <2>4. Quotes([i \in 1..k |-> s[i]]) = [i \in 1..k |-> Quoted(s[i])]
    BY DEF Quotes
  <2>5. [i \in 1..k |-> Quotes(s)[i]] = [i \in 1..k |-> Quoted(s[i])]
    BY <1>1, <1>2
  <2>6. SubSeq(s, 1, k) \in Seq(Characters) /\ Len(SubSeq(s, 1, k)) = k
    BY <2>1, <2>2
  <2> QED
    BY <2>1, <2>3, <2>4, <2>5, <2>6
<1> QED
  BY <1>1, <1>2, <1>3

\* How far the quoted form of the first k characters reaches in that of all.
Reach(s, k) == Len(FlattenSeq(SubSeq(Quotes(s), 1, k))) + 1

\* A string as it is written, with the separator after it.
Written(s) == QuoteString(s) \o <<"comma">>

LEMMA WrittenIs ==
    ASSUME NEW s \in Seq(Characters)
    PROVE  /\ Written(s) \in Seq(Characters)
           /\ Reach(s, Len(s)) \in Nat /\ Len(Written(s)) = Reach(s, Len(s)) + 2
           /\ Written(s)[Reach(s, Len(s)) + 1] = "quote"
           /\ Written(s)[Reach(s, Len(s)) + 2] = "comma"
           /\ \A p \in 1..Len(FlattenSeq(Quotes(s))) :
                Written(s)[p + 1] = FlattenSeq(Quotes(s))[p]
<1>1. PICK q \in Seq(Characters) : q = FlattenSeq(Quotes(s))
  BY QuotesAre, JoiningWhole
<1>2. Reach(s, Len(s)) = Len(q) + 1
  BY <1>1, QuotesAre, JoiningWhole DEF Reach
<1>3. Written(s) = (<<"quote">> \o q \o <<"quote">>) \o <<"comma">>
  BY <1>1 DEF Written, QuoteString, Quotes
<1>4. "quote" \in Characters /\ "comma" \in Characters
  BY DEF Characters, StringSymbols, Separators
<1>5. PICK n \in Nat : n = Len(q)
  OBVIOUS
<1>6. /\ Written(s) \in Seq(Characters) /\ Len(Written(s)) = n + 3
      /\ Written(s)[n + 2] = "quote" /\ Written(s)[n + 3] = "comma"
      /\ \A p \in 1..n : Written(s)[p + 1] = q[p]
  BY <1>3, <1>4, <1>5
<1> QED
  BY <1>1, <1>2, <1>5, <1>6

LEMMA ReachIs ==
    ASSUME NEW s \in Seq(Characters), NEW k \in 0..Len(s)
    PROVE  /\ Reach(s, k) \in Nat /\ Reach(s, k) >= 1
           /\ Reach(s, k) = Len(QuoteString(SubSeq(s, 1, k))) - 1
<1>1. PICK part \in Seq(Characters) : part = SubSeq(s, 1, k)
  BY QuotesAre
<1>2. Quotes(part) = SubSeq(Quotes(s), 1, k)
  BY <1>1, QuotesAre
<1>3. PICK q \in Seq(Characters) : q = FlattenSeq(Quotes(part))
  BY QuotesAre, JoiningWhole
<1>4. QuoteString(part) = <<"quote">> \o q \o <<"quote">>
  BY <1>3 DEF QuoteString, Quotes
<1>5. Len(QuoteString(part)) = Len(q) + 2 /\ Len(q) \in Nat
  BY <1>4
<1>6. Reach(s, k) = Len(q) + 1
  BY <1>2, <1>3 DEF Reach
<1> QED
  BY <1>1, <1>5, <1>6

\* The next character is written at the place reached, and nothing else.
LEMMA NextIsWritten ==
    ASSUME NEW s \in Seq(Characters), NEW k \in 1..Len(s)
    PROVE  /\ s[k] \in Characters
           /\ Reach(s, k - 1) \in Nat /\ Reach(s, k) \in Nat
           /\ Reach(s, k) = Reach(s, k - 1) + Len(Quoted(s[k]))
           /\ Reach(s, k) <= Len(Written(s)) - 2
           /\ \A p \in 1..Len(Quoted(s[k])) :
                Written(s)[Reach(s, k - 1) + p] = Quoted(s[k])[p]
<1>1. s[k] \in Characters /\ Quotes(s)[k] = Quoted(s[k]) /\ k \in 1..Len(Quotes(s))
  BY QuotesAre
<1>2. Quotes(s) \in Seq(Seq(Characters))
  BY QuotesAre
<1> DEFINE before == FlattenSeq(SubSeq(Quotes(s), 1, k - 1))
           after == FlattenSeq(SubSeq(Quotes(s), 1, k))
<1>3. /\ before \in Seq(Characters) /\ after \in Seq(Characters)
      /\ Len(after) = Len(before) + Len(Quoted(s[k]))
      /\ Len(after) <= Len(FlattenSeq(Quotes(s)))
      /\ FlattenSeq(Quotes(s)) \in Seq(Characters)
      /\ \A p \in 1..Len(Quoted(s[k])) :
           FlattenSeq(Quotes(s))[Len(before) + p] = Quoted(s[k])[p]
  <2>1. /\ before \in Seq(Characters) /\ after \in Seq(Characters)
        /\ FlattenSeq(Quotes(s)) \in Seq(Characters)
        /\ Len(after) = Len(before) + Len(Quotes(s)[k])
        /\ Len(after) <= Len(FlattenSeq(Quotes(s)))
    BY <1>1, <1>2, JoiningStep
  <2>2. \A p \in 1..Len(Quotes(s)[k]) :
          FlattenSeq(Quotes(s))[Len(before) + p] = Quotes(s)[k][p]
    BY <1>1, <1>2, JoiningStep
  <2> QED
    BY <1>1, <2>1, <2>2
<1>4. Reach(s, k - 1) = Len(before) + 1 /\ Reach(s, k) = Len(after) + 1
  BY DEF Reach
<1>5. /\ Len(Written(s)) = Reach(s, Len(s)) + 2
      /\ Reach(s, Len(s)) = Len(FlattenSeq(Quotes(s))) + 1
      /\ \A p \in 1..Len(FlattenSeq(Quotes(s))) :
           Written(s)[p + 1] = FlattenSeq(Quotes(s))[p]
  BY <1>2, WrittenIs, QuotesAre, JoiningWhole DEF Reach
<1>6. PICK b \in Nat, d \in Nat, whole \in Nat :
        /\ b = Len(before) /\ d = Len(Quoted(s[k])) /\ whole = Len(FlattenSeq(Quotes(s)))
        /\ Len(after) = b + d
  BY <1>1, <1>3, QuotedIs
<1> HIDE DEF before, after
<1>7. ASSUME NEW p \in 1..d PROVE Written(s)[(b + 1) + p] = Quoted(s[k])[p]
  <2>1. b + p \in 1..whole /\ (b + p) + 1 = (b + 1) + p
    BY <1>3, <1>6
  <2> QED
    BY <1>3, <1>5, <1>6, <2>1
<1> QED
  BY <1>1, <1>3, <1>4, <1>5, <1>6, <1>7

\* The scanner can only read that character, or close the string after the last.
LEMMA ScannerFollows ==
    ASSUME first \in Seq(Characters), text = Written(first), Scanning,
           NEW k \in 0..Len(first), at = Reach(first, k),
           LineEnd \/ PlainCharacter \/ DoubledQuote \/ BasicUnit \/ SurrogatePair
             \/ Close \/ Error
    PROVE  \/ /\ k < Len(first) /\ at' = Reach(first, k + 1)
              /\ value' = value \o <<first[k + 1]>>
              /\ UNCHANGED <<text, ending, first>>
           \/ /\ k = Len(first) /\ at' = Len(text) - 1 /\ ending' = "string"
              /\ UNCHANGED <<text, value, first>>
<1>1. at \in Nat /\ Len(text) \in Nat /\ Len(first) \in Nat
  BY ReachIs, WrittenIs
<1>2. CASE k = Len(first)
  <2>1. /\ Len(text) = at + 2
        /\ text[at + 1] = "quote" /\ text[at + 2] = "comma"
    BY <1>2, WrittenIs
  <2>2. Sees(1, "quote") /\ ~Sees(1, "cr") /\ ~Sees(2, "quote") /\ ~Escape
    BY <1>1, <2>1 DEF Sees, Escape
  <2>3. ~LineEnd /\ ~PlainCharacter /\ ~DoubledQuote /\ ~BasicUnit /\ ~SurrogatePair
    BY <1>1, <2>1, <2>2
       DEF LineEnd, PlainCharacter, DoubledQuote, BasicUnit, SurrogatePair, Escape
  <2>4. ~Error
    BY <1>1, <2>1, <2>2 DEF Error, MayFollow, Separators
  <2>5. Close
    BY <2>3, <2>4
  <2> QED
    BY <1>1, <1>2, <2>1, <2>5 DEF Close
<1>3. CASE k < Len(first)
  <2>1. PICK n \in 1..Len(first) : n = k + 1 /\ n - 1 = k
    BY <1>1, <1>3
  <2>2. PICK c \in Characters : c = first[n]
    BY <2>1
  <2>3. PICK d \in {1, 2, 3} : d = Len(Quoted(c))
    BY QuotedIs
  <2>4. /\ Reach(first, n) = at + d
        /\ at + d + 2 <= Len(text)
        /\ \A p \in 1..d : text[at + p] = Quoted(c)[p]
    <3>1. /\ Reach(first, n) = Reach(first, n - 1) + Len(Quoted(first[n]))
          /\ Reach(first, n) <= Len(text) - 2
          /\ \A p \in 1..Len(Quoted(first[n])) :
               text[Reach(first, n - 1) + p] = Quoted(first[n])[p]
      BY NextIsWritten
    <3> QED
      BY <1>1, <2>1, <2>2, <2>3, <3>1
  <2>5. CASE c = "quote"
    <3>1. d = 2 /\ text[at + 1] = "quote" /\ text[at + 2] = "quote"
      BY <2>3, <2>4, <2>5, QuotedIs
    <3>2. /\ Sees(1, "quote") /\ Sees(2, "quote") /\ ~Sees(1, "cr") /\ ~Escape
          /\ at < Len(text) /\ at + 1 # Len(text)
      BY <1>1, <2>4, <3>1 DEF Sees, Escape
    <3>3. ~LineEnd /\ ~PlainCharacter /\ ~BasicUnit /\ ~SurrogatePair
      BY <3>1, <3>2 DEF LineEnd, PlainCharacter, BasicUnit, SurrogatePair
    <3>4. ~Close
      BY <3>1, <3>2 DEF Close, SeesOneOf, MayFollow, Separators
    <3>5. ~Error
      BY <3>1, <3>2 DEF Error
    <3>6. DoubledQuote
      BY <3>3, <3>4, <3>5
    <3>7. at' = at + 2 /\ value' = value \o <<c>> /\ UNCHANGED <<text, ending, first>>
      BY <2>5, <3>6 DEF DoubledQuote, Read
    <3> QED
      BY <1>3, <2>1, <2>2, <2>4, <3>1, <3>7
  <2>6. CASE c \in {"cr", "lf"}
    <3>1. PICK u \in {"000D", "000A"} : u = IF c = "cr" THEN "000D" ELSE "000A"
      OBVIOUS
    <3>2. /\ d = 3 /\ text[at + 1] = "quote" /\ text[at + 2] = "backslash"
          /\ text[at + 3] = u
      BY <2>3, <2>4, <2>6, <3>1, QuotedIs
    <3>3. /\ Escape /\ ~Sees(1, "cr") /\ ~Sees(2, "quote") /\ ~Sees(3, "hexHigh")
          /\ at < Len(text) /\ at + 1 # Len(text)
      BY <1>1, <2>4, <3>1, <3>2 DEF Sees, Escape
    <3>4. SeesOneOf(3, DOMAIN DecodedUnit)
      BY <1>1, <2>4, <3>1, <3>2 DEF SeesOneOf, DecodedUnit
    <3>5. ~LineEnd /\ ~PlainCharacter /\ ~DoubledQuote /\ ~SurrogatePair
      BY <3>2, <3>3 DEF LineEnd, PlainCharacter, DoubledQuote, SurrogatePair
    <3>6. ~Close
      BY <3>2, <3>3 DEF Close, SeesOneOf, MayFollow, Separators
    <3>7. ~Error
      BY <3>2, <3>3, <3>4 DEF Error
    <3>8. BasicUnit
      BY <3>5, <3>6, <3>7
    <3>9. DecodedUnit[u] = c
      BY <2>6, <3>1 DEF DecodedUnit
    <3>10. at' = at + 3 /\ value' = value \o <<c>> /\ UNCHANGED <<text, ending, first>>
      BY <3>2, <3>8, <3>9 DEF BasicUnit, Read
    <3> QED
      BY <1>3, <2>1, <2>2, <2>4, <3>2, <3>10
  <2>7. CASE c \notin {"quote", "cr", "lf"}
    <3>1. d = 1 /\ text[at + 1] = c
      <4>1. Len(Quoted(c)) = 1 /\ Quoted(c)[1] = c
        BY <2>7, QuotedIs
      <4> QED
        BY <2>3, <2>4, <4>1
    <3>2. ~Sees(1, "quote") /\ ~Sees(1, "cr") /\ ~Escape /\ at # Len(text)
      BY <1>1, <2>4, <2>7, <3>1 DEF Sees, Escape
    <3>3. ~LineEnd /\ ~DoubledQuote /\ ~BasicUnit /\ ~SurrogatePair /\ ~Close /\ ~Error
      BY <3>2 DEF LineEnd, DoubledQuote, BasicUnit, SurrogatePair, Close, Error
    <3>4. PlainCharacter
      BY <3>3
    <3>5. at' = at + 1 /\ value' = value \o <<c>> /\ UNCHANGED <<text, ending, first>>
      BY <3>1, <3>4 DEF PlainCharacter, Read
    <3> QED
      BY <1>3, <2>1, <2>2, <2>4, <3>1, <3>5
  <2> QED
    BY <2>5, <2>6, <2>7
<1> QED
  BY <1>1, <1>2, <1>3

LEMMA PartGrows ==
    ASSUME NEW s \in Seq(Characters), NEW k \in 1..Len(s)
    PROVE  SubSeq(s, 1, k) = SubSeq(s, 1, k - 1) \o <<s[k]>>
OBVIOUS

LEMMA WholeIsPart ==
    ASSUME NEW s \in Seq(Characters)
    PROVE  SubSeq(s, 1, Len(s)) = s /\ SubSeq(s, 1, 0) = <<>> /\ Len(s) \in Nat
OBVIOUS

\* What is read is a character of the alphabet, in either pass.
LEMMA ReadingIsTyped ==
    ASSUME StringInv, LineEnd \/ PlainCharacter \/ DoubledQuote \/ BasicUnit \/ SurrogatePair
    PROVE  /\ value' \in Seq(Characters) /\ at' \in Nat /\ at' >= 1
           /\ UNCHANGED <<text, ending, first>>
<1>1. text \in Seq(Characters) /\ value \in Seq(Characters) /\ at \in Nat /\ at >= 1
  BY DEF StringInv
<1>2. /\ "quote" \in Characters /\ "astral" \in Characters
      /\ \A u \in DOMAIN DecodedUnit : DecodedUnit[u] \in Characters
  BY DEF Characters, StringSymbols, DecodedUnit
<1>3. CASE LineEnd
  BY <1>1, <1>3 DEF LineEnd, Read
<1>4. CASE PlainCharacter
  <2>1. text[at + 1] \in Characters
    BY <1>1, <1>4 DEF PlainCharacter
  <2> QED
    BY <1>1, <1>4, <2>1 DEF PlainCharacter, Read
<1>5. CASE DoubledQuote
  BY <1>1, <1>2, <1>5 DEF DoubledQuote, Read
<1>6. CASE BasicUnit
  <2>1. DecodedUnit[text[at + 3]] \in Characters
    BY <1>2, <1>6 DEF BasicUnit, SeesOneOf
  <2> QED
    BY <1>1, <1>6, <2>1 DEF BasicUnit, Read
<1>7. CASE SurrogatePair
  BY <1>1, <1>2, <1>7 DEF SurrogatePair, Read
<1> QED
  BY <1>3, <1>4, <1>5, <1>6, <1>7

\* The scanner goes on from a part of the value to the next one.
LEMMA ReadingGoesOn ==
    ASSUME StringInv, first # NoneYet, Scanning,
           LineEnd \/ PlainCharacter \/ DoubledQuote \/ BasicUnit \/ SurrogatePair
             \/ Close \/ Error
    PROVE  Reading'
<1>1. first \in Seq(Characters) /\ text = Written(first)
  BY DEF StringInv, Reading, Written
<1>2. PICK k \in 0..Len(first) : value = SubSeq(first, 1, k)
  BY DEF StringInv, Reading, Scanning
<1>3. at = Reach(first, k)
  BY <1>1, <1>2, ReachIs DEF StringInv, Reading, Scanning
<1>4. CASE k < Len(first) /\ at' = Reach(first, k + 1)
             /\ value' = value \o <<first[k + 1]>> /\ UNCHANGED <<text, ending, first>>
  <2>1. PICK n \in 1..Len(first) : n = k + 1 /\ n - 1 = k /\ n \in 0..Len(first)
    BY <1>1, <1>4
  <2>2. value' = SubSeq(first, 1, n)
    BY <1>1, <1>2, <1>4, <2>1, PartGrows
  <2>3. at' = Len(QuoteString(value')) - 1
    BY <1>1, <1>4, <2>1, <2>2, ReachIs
  <2> QED
    BY <1>1, <1>4, <2>1, <2>2, <2>3 DEF Reading, Written, Scanning
<1>5. CASE k = Len(first) /\ at' = Len(text) - 1 /\ ending' = "string"
             /\ UNCHANGED <<text, value, first>>
  <2>1. value = first
    BY <1>1, <1>2, <1>5, WholeIsPart
  <2> QED
    BY <1>1, <1>5, <2>1 DEF Reading, Written
<1> QED
  BY <1>1, <1>2, <1>3, <1>4, <1>5, ScannerFollows

\* Every value a text can denote is written so that it is read back unchanged:
\* quotes, line ends and what looks like the digits of a unit included, and what
\* follows the string is left to the next token.
THEOREM StringsComeBack == StringSpec => []WrittenStringIsReadBack
<1>1. StringInit => StringInv
  <2> SUFFICES ASSUME StringInit PROVE StringInv
    OBVIOUS
  <2>1. PICK n \in 0..MaxText, opening \in Openings : \E s \in [1..n -> StringSymbols] :
          text = <<"quote">> \o opening \o s
    BY DEF StringInit
  <2>2. PICK s \in [1..n -> StringSymbols] : text = <<"quote">> \o opening \o s
    BY <2>1
  <2>3. n \in Nat /\ opening \in Seq(StringSymbols) /\ "quote" \in StringSymbols
    BY StringAssumption DEF StringSymbols
  <2>4. s \in Seq(StringSymbols)
    BY <2>2, <2>3
  <2>5. text \in Seq(StringSymbols)
    BY <2>2, <2>3, <2>4
  <2>6. text \in Seq(Characters)
    BY <2>5 DEF Characters
  <2> QED
    BY <2>6 DEF StringInit, StringInv
<1>2. StringInv /\ [StringNext]_stringVars => StringInv'
  <2> SUFFICES ASSUME StringInv, [StringNext]_stringVars PROVE StringInv'
    OBVIOUS
  <2>1. CASE UNCHANGED stringVars
    BY <2>1 DEF StringInv, Reading, stringVars
  <2>2. CASE LineEnd \/ PlainCharacter \/ DoubledQuote \/ BasicUnit \/ SurrogatePair
    <3>1. Scanning
      BY <2>2 DEF LineEnd, PlainCharacter, DoubledQuote, BasicUnit, SurrogatePair
    <3>2. first # NoneYet => Reading'
      BY <2>2, <3>1, ReadingGoesOn
    <3> QED
      BY <2>2, <3>2, ReadingIsTyped DEF StringInv
  <2>3. CASE Close \/ Error
    <3>1. Scanning
      BY <2>3 DEF Close, Error
    <3>2. first # NoneYet => Reading'
      BY <2>3, <3>1, ReadingGoesOn
    <3>3. UNCHANGED <<text, value, first>> /\ at' \in Nat /\ at' >= 1
      BY <2>3 DEF Close, Error, StringInv
    <3> QED
      BY <3>2, <3>3 DEF StringInv
  <2>4. CASE WriteAgain
    <3>1. value \in Seq(Characters) /\ first' = value /\ text' = Written(value)
      BY <2>4 DEF WriteAgain, StringInv, Written
    <3>2. /\ value' = SubSeq(value, 1, 0) /\ 0 \in 0..Len(value)
          /\ at' = Len(QuoteString(<<>>)) - 1
      <4>1. QuoteString(<<>>) = <<"quote">> \o <<>> \o <<"quote">>
        BY DEF QuoteString, FlattenSeq
      <4> QED
        BY <2>4, <3>1, <4>1, WholeIsPart DEF WriteAgain
    <3>3. text' \in Seq(Characters) /\ value' \in Seq(Characters)
      <4>1. Written(value) \in Seq(Characters)
        BY <3>1, WrittenIs
      <4>2. value' = <<>>
        BY <2>4 DEF WriteAgain
      <4> QED
        BY <3>1, <4>1, <4>2
    <3>4. Reading'
      BY <2>4, <3>1, <3>2 DEF Reading, Written, WriteAgain
    <3> QED
      BY <2>4, <3>1, <3>3, <3>4 DEF StringInv, WriteAgain
  <2> QED
    BY <2>1, <2>2, <2>3, <2>4 DEF StringNext
<1>3. StringInv => WrittenStringIsReadBack
  BY DEF StringInv, Reading, WrittenStringIsReadBack
<1> QED
  BY <1>1, <1>2, <1>3, PTL DEF StringSpec

-----------------------------------------------------------------------------
(* Module texts: what the symbols of a text become, one after the other.   *)

OnDisk == <<"cr", "lf">>
InMemory == <<"lf">>

\* The carriage return at i belongs to the line end after it.
Dropped(t, i) == t[i] = "cr" /\ i < Len(t) /\ t[i + 1] = "lf"

Became(t, end) ==
    [i \in DOMAIN t |-> IF t[i] = "lf" THEN end
                        ELSE IF Dropped(t, i) THEN <<>> ELSE <<t[i]>>]

\* What the first k symbols become.
Part(t, end, k) == FlattenSeq(SubSeq(Became(t, end), 1, k))
Whole(t, end) == FlattenSeq(Became(t, end))

Lines(t) == Newlines(t, FALSE)
Crlf(t) == Newlines(t, TRUE)

LEMMA ConversionsAre ==
    ASSUME NEW t
    PROVE  /\ Lines(t) = Whole(t, InMemory) /\ WithoutReturns(t) = Lines(t)
           /\ Crlf(t) = Whole(t, OnDisk)
<1>1. Lines(t) = Whole(t, InMemory)
  BY DEF Lines, Newlines, Whole, Became, InMemory, Dropped
<1>2. Crlf(t) = Whole(t, OnDisk)
  BY DEF Crlf, Newlines, Whole, Became, OnDisk, Dropped
<1>3. WithoutReturns(t) = Whole(t, InMemory)
  <2>1. [i \in DOMAIN t |->
           IF t[i] = "cr" /\ i < Len(t) /\ t[i + 1] = "lf" THEN <<>> ELSE <<t[i]>>]
        = Became(t, InMemory)
    BY DEF Became, InMemory, Dropped
  <2> QED
    BY <2>1 DEF WithoutReturns, Whole
<1> QED
  BY <1>1, <1>2, <1>3

LEMMA TextIs ==
    ASSUME NEW t \in Seq(Symbols)
    PROVE  /\ Len(t) \in Nat /\ DOMAIN t = 1..Len(t)
           /\ \A k \in 1..Len(t) : t[k] \in Symbols
           /\ \A k \in 0..Len(t) : /\ SubSeq(t, 1, k) \in Seq(Symbols)
                                   /\ Len(SubSeq(t, 1, k)) = k
                                   /\ \A i \in 1..k : SubSeq(t, 1, k)[i] = t[i]
           /\ \A k \in 1..Len(t) : SubSeq(t, 1, k) = SubSeq(t, 1, k - 1) \o <<t[k]>>
           /\ SubSeq(t, 1, Len(t)) = t /\ SubSeq(t, 1, 0) = <<>>
<1>1. Len(t) \in Nat /\ DOMAIN t = 1..Len(t) /\ \A k \in 1..Len(t) : t[k] \in Symbols
  OBVIOUS
<1>2. ASSUME NEW k \in 0..Len(t)
      PROVE  /\ SubSeq(t, 1, k) \in Seq(Symbols) /\ Len(SubSeq(t, 1, k)) = k
             /\ \A i \in 1..k : SubSeq(t, 1, k)[i] = t[i]
  BY <1>1
<1>3. \A k \in 1..Len(t) : SubSeq(t, 1, k) = SubSeq(t, 1, k - 1) \o <<t[k]>>
  OBVIOUS
<1>4. SubSeq(t, 1, Len(t)) = t /\ SubSeq(t, 1, 0) = <<>>
  OBVIOUS
<1> QED
  BY <1>1, <1>2, <1>3, <1>4

LEMMA BecameIs ==
    ASSUME NEW t \in Seq(Symbols), NEW p \in {OnDisk, InMemory}
    PROVE  /\ Became(t, p) \in Seq(Seq(Symbols))
           /\ Len(Became(t, p)) = Len(t)
           /\ \A k \in 1..Len(t) :
                /\ t[k] = "lf" => Became(t, p)[k] = p
                /\ Dropped(t, k) => Became(t, p)[k] = <<>>
                /\ t[k] # "lf" /\ ~Dropped(t, k) => Became(t, p)[k] = <<t[k]>>
<1>1. Len(t) \in Nat /\ DOMAIN t = 1..Len(t) /\ \A k \in 1..Len(t) : t[k] \in Symbols
  BY TextIs
<1>2. p \in Seq(Symbols)
  <2>1. "cr" \in Symbols /\ "lf" \in Symbols
    BY DEF Symbols
  <2>2. <<"cr", "lf">> \in Seq(Symbols) /\ <<"lf">> \in Seq(Symbols)
    BY <2>1
  <2> QED
    BY <2>2 DEF OnDisk, InMemory
<1>3. \A k \in 1..Len(t) : Became(t, p)[k] \in Seq(Symbols)
  <2> SUFFICES ASSUME NEW k \in 1..Len(t) PROVE Became(t, p)[k] \in Seq(Symbols)
    OBVIOUS
  <2>1. <<t[k]>> \in Seq(Symbols) /\ <<>> \in Seq(Symbols)
    BY <1>1
  <2> QED
    BY <1>1, <1>2, <2>1 DEF Became
<1>4. DOMAIN Became(t, p) = 1..Len(t)
  BY <1>1 DEF Became
<1>5. Became(t, p) = [k \in 1..Len(t) |-> Became(t, p)[k]]
  BY <1>1 DEF Became
<1>6. Became(t, p) \in Seq(Seq(Symbols)) /\ Len(Became(t, p)) = Len(t)
  BY <1>1, <1>3, <1>5
<1>7. ASSUME NEW k \in 1..Len(t)
      PROVE  /\ t[k] = "lf" => Became(t, p)[k] = p
             /\ Dropped(t, k) => Became(t, p)[k] = <<>>
             /\ t[k] # "lf" /\ ~Dropped(t, k) => Became(t, p)[k] = <<t[k]>>
  BY <1>1 DEF Became, Dropped
<1> QED
  BY <1>6, <1>7

LEMMA PartIs ==
    ASSUME NEW t \in Seq(Symbols), NEW p \in {OnDisk, InMemory}
    PROVE  /\ Whole(t, p) \in Seq(Symbols)
           /\ Part(t, p, 0) = <<>> /\ Part(t, p, Len(t)) = Whole(t, p)
<1>1. Became(t, p) \in Seq(Seq(Symbols)) /\ Len(Became(t, p)) = Len(t)
  BY BecameIs
<1> QED
  BY <1>1, JoiningWhole DEF Part, Whole

LEMMA PartGoesOn ==
    ASSUME NEW t \in Seq(Symbols), NEW p \in {OnDisk, InMemory}, NEW k \in 1..Len(t)
    PROVE  /\ Became(t, p)[k] \in Seq(Symbols)
           /\ Part(t, p, k - 1) \in Seq(Symbols) /\ Part(t, p, k) \in Seq(Symbols)
           /\ Part(t, p, k) = Part(t, p, k - 1) \o Became(t, p)[k]
           /\ Len(Part(t, p, k)) = Len(Part(t, p, k - 1)) + Len(Became(t, p)[k])
           /\ Len(Part(t, p, k)) <= Len(Whole(t, p))
           /\ \A i \in 1..Len(Became(t, p)[k]) :
                Whole(t, p)[Len(Part(t, p, k - 1)) + i] = Became(t, p)[k][i]
<1>1. /\ Became(t, p) \in Seq(Seq(Symbols)) /\ k \in 1..Len(Became(t, p))
  BY BecameIs
<1> DEFINE before == FlattenSeq(SubSeq(Became(t, p), 1, k - 1))
           after == FlattenSeq(SubSeq(Became(t, p), 1, k))
           whole == FlattenSeq(Became(t, p))
<1>2. /\ before \in Seq(Symbols) /\ after \in Seq(Symbols) /\ Became(t, p)[k] \in Seq(Symbols)
      /\ whole \in Seq(Symbols)
      /\ after = before \o Became(t, p)[k]
      /\ Len(after) = Len(before) + Len(Became(t, p)[k])
      /\ Len(after) <= Len(whole)
  BY <1>1, JoiningStep
<1>3. \A i \in 1..Len(Became(t, p)[k]) : whole[Len(before) + i] = Became(t, p)[k][i]
  BY <1>1, JoiningStep
<1>4. Part(t, p, k - 1) = before /\ Part(t, p, k) = after /\ Whole(t, p) = whole
  BY DEF Part, Whole
<1> HIDE DEF before, after, whole
<1> QED
  BY <1>2, <1>3, <1>4

LEMMA OneMore ==
    ASSUME NEW t \in Seq(Symbols), NEW c \in Symbols
    PROVE  /\ t \o <<c>> \in Seq(Symbols) /\ Len(t) \in Nat
           /\ Len(t \o <<c>>) = Len(t) + 1 /\ (t \o <<c>>)[Len(t) + 1] = c
           /\ \A i \in 1..Len(t) : (t \o <<c>>)[i] = t[i]
OBVIOUS

LEMMA TwoMore ==
    ASSUME NEW t \in Seq(Symbols)
    PROVE  t \o <<"cr", "lf">> = (t \o <<"cr">>) \o <<"lf">>
OBVIOUS

LEMMA NothingMore ==
    ASSUME NEW t \in Seq(Symbols)
    PROVE  t \o <<>> = t
OBVIOUS

\* Every line feed follows a carriage return.
LineEnded(t) == \A i \in DOMAIN t : t[i] = "lf" => i > 1 /\ t[i - 1] = "cr"

\* No carriage return is followed by a line feed.
NoPairs(t) == \A i \in DOMAIN t : ~Dropped(t, i)

\* The text on disk has the line ends of the platform, and no others.
LEMMA CrlfIsEnded ==
    ASSUME NEW t \in Seq(Symbols)
    PROVE  LineEnded(Crlf(t))
<1> DEFINE S == {k \in Nat : k <= Len(t) => LineEnded(Part(t, OnDisk, k))}
<1>1. 0 \in S
  BY PartIs DEF LineEnded
<1>2. ASSUME NEW m \in Nat, m \in S PROVE m + 1 \in S
  <2> SUFFICES ASSUME m + 1 <= Len(t) PROVE LineEnded(Part(t, OnDisk, m + 1))
    OBVIOUS
  <2>1. PICK k \in 1..Len(t) : k = m + 1 /\ k - 1 = m
    BY TextIs
  <2>2. PICK before \in Seq(Symbols) : before = Part(t, OnDisk, m)
    BY <2>1, PartGoesOn
  <2>3. LineEnded(before)
    BY <1>2, <2>1, <2>2, TextIs
  <2>4. Part(t, OnDisk, k) = before \o Became(t, OnDisk)[k]
    <3>1. Part(t, OnDisk, k) = Part(t, OnDisk, k - 1) \o Became(t, OnDisk)[k]
      BY PartGoesOn
    <3> QED
      BY <2>1, <2>2, <3>1
  <2>5. "cr" \in Symbols /\ "lf" \in Symbols /\ t[k] \in Symbols
    BY TextIs DEF Symbols
  <2>6. CASE t[k] = "lf"
    <3>1. Part(t, OnDisk, k) = (before \o <<"cr">>) \o <<"lf">>
      BY <2>4, <2>6, BecameIs, TwoMore DEF OnDisk
    <3>2. PICK more \in Seq(Symbols) : more = before \o <<"cr">>
      BY <2>5, OneMore
    <3>3. Len(more) = Len(before) + 1 /\ more[Len(more)] = "cr"
          /\ \A i \in 1..Len(before) : more[i] = before[i]
      BY <2>5, <3>2, OneMore
    <3>4. LineEnded(more)
      BY <2>3, <3>3 DEF LineEnded
    <3>5. PICK all \in Seq(Symbols) : all = more \o <<"lf">>
      BY <2>5, OneMore
    <3>6. Len(all) = Len(more) + 1 /\ all[Len(all)] = "lf"
          /\ \A i \in 1..Len(more) : all[i] = more[i]
      BY <2>5, <3>5, OneMore
    <3>7. LineEnded(all)
      BY <3>3, <3>4, <3>6 DEF LineEnded
    <3> QED
      BY <2>1, <3>1, <3>2, <3>5, <3>7
  <2>7. CASE t[k] # "lf" /\ Dropped(t, k)
    <3>1. Part(t, OnDisk, k) = before
      BY <2>4, <2>7, BecameIs, NothingMore
    <3> QED
      BY <2>1, <2>3, <3>1
  <2>8. CASE t[k] # "lf" /\ ~Dropped(t, k)
    <3>5. PICK c \in Symbols : c = t[k] /\ c # "lf"
      BY <2>5, <2>8
    <3>1. Part(t, OnDisk, k) = before \o <<c>>
      BY <2>4, <2>8, <3>5, BecameIs
    <3>2. PICK more \in Seq(Symbols) : more = before \o <<c>>
      BY OneMore
    <3>3. Len(more) = Len(before) + 1 /\ more[Len(more)] = c
          /\ \A i \in 1..Len(before) : more[i] = before[i]
      BY <3>2, OneMore
    <3>4. LineEnded(more)
      BY <2>3, <3>3, <3>5 DEF LineEnded
    <3> QED
      BY <2>1, <3>1, <3>2, <3>4
  <2> QED
    BY <2>6, <2>7, <2>8
<1> HIDE DEF S
<1>3. Nat \subseteq S
  BY <1>1, <1>2, Induct
<1> QED
  BY <1>3, PartIs, TextIs, ConversionsAre DEF S

\* An empty text on disk is one of an empty module.
LEMMA OnlyNothingIsEmpty ==
    ASSUME NEW t \in Seq(Symbols), Crlf(t) = <<>>
    PROVE  t = <<>>
<1> SUFFICES ASSUME Len(t) # 0 PROVE FALSE
  BY TextIs
<1>1. PICK k \in 1..Len(t) : k = Len(t)
  BY TextIs
<1>2. ~Dropped(t, k)
  BY <1>1, TextIs DEF Dropped
<1>3. Became(t, OnDisk)[k] = <<"cr", "lf">> \/ Became(t, OnDisk)[k] = <<t[k]>>
  BY <1>2, BecameIs DEF OnDisk
<1>4. Len(Became(t, OnDisk)[k]) = 2 \/ Len(Became(t, OnDisk)[k]) = 1
  <2>1. Len(<<"cr", "lf">>) = 2 /\ Len(<<t[k]>>) = 1
    OBVIOUS
  <2> QED
    BY <1>3, <2>1
<1>5. Len(Part(t, OnDisk, k)) = Len(Part(t, OnDisk, k - 1)) + Len(Became(t, OnDisk)[k])
      /\ Part(t, OnDisk, k - 1) \in Seq(Symbols) /\ Became(t, OnDisk)[k] \in Seq(Symbols)
  BY PartGoesOn
<1>6. Part(t, OnDisk, k) = <<>>
  BY <1>1, PartIs, ConversionsAre
<1> QED
  <2>1. PICK n \in Nat : n = Len(Part(t, OnDisk, k - 1))
    BY <1>5
  <2>2. Len(Part(t, OnDisk, k)) = 0
    BY <1>6
  <2>3. Len(Part(t, OnDisk, k)) = n + Len(Became(t, OnDisk)[k])
    BY <1>5, <2>1
  <2>4. n + 2 # 0 /\ n + 1 # 0
    OBVIOUS
  <2> QED
    BY <1>4, <2>2, <2>3, <2>4

LEMMA PlainMeans ==
    ASSUME NEW t \in Seq(Symbols), Plain(t)
    PROVE  /\ \A i \in 1..Len(t) : i + 2 <= Len(t) =>
                ~(t[i] = "cr" /\ t[i + 1] = "cr" /\ t[i + 2] = "lf")
           /\ Len(t) # 0 => t[1] # "bom"
<1>1. ASSUME NEW i \in 1..Len(t), i + 2 <= Len(t),
             t[i] = "cr" /\ t[i + 1] = "cr" /\ t[i + 2] = "lf"
      PROVE  FALSE
  <2>1. i \in 1..(Len(t) - 2)
    BY <1>1, TextIs
  <2>2. SubSeq(t, i, i + 2) = <<t[i], t[i + 1], t[i + 2]>>
    <3>1. PICK three : three = SubSeq(t, i, i + 2)
      OBVIOUS
    <3>2. /\ three \in Seq(Symbols) /\ Len(three) = 3
          /\ three[1] = t[i] /\ three[2] = t[i + 1] /\ three[3] = t[i + 2]
      BY <1>1, <3>1, TextIs
    <3>3. three = <<three[1], three[2], three[3]>>
      BY <3>2
    <3> QED
      BY <3>1, <3>2, <3>3
  <2> QED
    BY <1>1, <2>1, <2>2 DEF Plain
<1> QED
  BY <1>1 DEF Plain

\* What the first k symbols of t became when they became p: the lines are apart,
\* and a carriage return at the end is one of t that stays.
Apart(t, k, p) ==
    /\ NoPairs(p)
    /\ Len(p) # 0 /\ p[Len(p)] = "cr" => k # 0 /\ t[k] = "cr" /\ ~Dropped(t, k)
    /\ Len(p) = 0 => k = 0 \/ (k = 1 /\ Dropped(t, 1))
    /\ Len(p) # 0 => p[1] # "bom"

LEMMA PairsDoNotAppear ==
    ASSUME NEW p \in Seq(Symbols), NEW c \in Symbols, NoPairs(p),
           c = "lf" => Len(p) = 0 \/ p[Len(p)] # "cr"
    PROVE  NoPairs(p \o <<c>>)
<1>1. PICK q \in Seq(Symbols) : q = p \o <<c>>
  BY OneMore
<1>2. Len(p) \in Nat /\ Len(q) = Len(p) + 1 /\ q[Len(p) + 1] = c
      /\ \A i \in 1..Len(p) : q[i] = p[i]
  BY <1>1, OneMore
<1>3. \A i \in 1..Len(p) : ~Dropped(p, i)
  BY DEF NoPairs
<1>4. ASSUME NEW i \in 1..Len(q), q[i] = "cr", i < Len(q), q[i + 1] = "lf" PROVE FALSE
  <2>1. CASE i = Len(p)
    BY <1>2, <1>4, <2>1
  <2>2. CASE i < Len(p)
    <3>1. i \in 1..Len(p) /\ i + 1 \in 1..Len(p)
      BY <1>2, <2>2
    <3>2. p[i] = "cr" /\ p[i + 1] = "lf"
      BY <1>2, <1>4, <3>1
    <3> QED
      BY <1>3, <2>2, <3>1, <3>2 DEF Dropped
  <2> QED
    BY <1>2, <1>4, <2>1, <2>2
<1> QED
  BY <1>1, <1>4 DEF NoPairs, Dropped

\* In memory a plain text has line feeds for line ends, and nothing that a reader
\* would take for a signature or for a line end of the platform.
LEMMA MemoryIsApart ==
    ASSUME NEW t \in Seq(Symbols), Plain(t)
    PROVE  NoPairs(Lines(t)) /\ (Lines(t) # <<>> => Lines(t)[1] # "bom")
<1> DEFINE S == {k \in Nat : k <= Len(t) => Apart(t, k, Part(t, InMemory, k))}
<1>1. 0 \in S
  BY PartIs DEF Apart, NoPairs
<1>2. ASSUME NEW m \in Nat, m \in S PROVE m + 1 \in S
  <2> SUFFICES ASSUME m + 1 <= Len(t) PROVE Apart(t, m + 1, Part(t, InMemory, m + 1))
    OBVIOUS
  <2>1. PICK k \in 1..Len(t) : k = m + 1 /\ k - 1 = m
    BY TextIs
  <2>2. PICK before \in Seq(Symbols) : before = Part(t, InMemory, m)
    BY <2>1, PartGoesOn
  <2>3. Apart(t, m, before)
    BY <1>2, <2>1, <2>2, TextIs
  <2>4. Part(t, InMemory, k) = before \o Became(t, InMemory)[k]
    <3>1. Part(t, InMemory, k) = Part(t, InMemory, k - 1) \o Became(t, InMemory)[k]
      BY PartGoesOn
    <3> QED
      BY <2>1, <2>2, <3>1
  <2>5. Len(t) \in Nat /\ "lf" \in Symbols /\ t[k] \in Symbols
    BY TextIs DEF Symbols
  <2>6. CASE t[k] # "lf" /\ Dropped(t, k)
    <3>1. Part(t, InMemory, k) = before
      BY <2>4, <2>6, BecameIs, NothingMore
    <3>2. ASSUME Len(before) # 0 /\ before[Len(before)] = "cr" PROVE FALSE
      <4>1. m # 0 /\ t[m] = "cr"
        BY <2>3, <3>2 DEF Apart
      <4>2. m \in 1..Len(t) /\ m + 2 <= Len(t) /\ t[m + 1] = "cr" /\ t[m + 2] = "lf"
        BY <2>1, <2>5, <2>6, <4>1 DEF Dropped
      <4> QED
        BY <4>1, <4>2, PlainMeans
    <3>3. ASSUME Len(before) = 0 PROVE k = 1 /\ Dropped(t, 1)
      <4>1. CASE m = 0
        BY <2>1, <2>6, <4>1
      <4>2. CASE m = 1 /\ Dropped(t, 1)
        BY <2>1, <2>6, <4>2 DEF Dropped
      <4> QED
        BY <2>3, <3>3, <4>1, <4>2 DEF Apart
    <3>4. Apart(t, k, before)
      BY <2>3, <3>2, <3>3 DEF Apart
    <3> QED
      BY <2>1, <3>1, <3>4
  <2>7. CASE t[k] = "lf" \/ ~Dropped(t, k)
    <3>1. PICK c \in Symbols : c = t[k]
      BY <2>5
    <3>2. Part(t, InMemory, k) = before \o <<c>>
      BY <2>4, <2>7, <3>1, BecameIs DEF InMemory
    <3>3. PICK more \in Seq(Symbols) : more = before \o <<c>>
      BY OneMore
    <3>4. Len(before) \in Nat /\ Len(more) = Len(before) + 1 /\ more[Len(more)] = c
          /\ \A i \in 1..Len(before) : more[i] = before[i]
      BY <3>3, OneMore
    <3>5. c = "lf" => Len(before) = 0 \/ before[Len(before)] # "cr"
      <4> SUFFICES ASSUME c = "lf", Len(before) # 0, before[Len(before)] = "cr" PROVE FALSE
        OBVIOUS
      <4>1. m # 0 /\ t[m] = "cr" /\ ~Dropped(t, m)
        BY <2>3 DEF Apart
      <4>2. m < Len(t) /\ t[m + 1] = "lf"
        BY <2>1, <2>5, <3>1
      <4> QED
        BY <4>1, <4>2 DEF Dropped
    <3>6. NoPairs(more)
      BY <2>3, <3>3, <3>5, PairsDoNotAppear DEF Apart
    <3>7. c = "cr" => k # 0 /\ t[k] = "cr" /\ ~Dropped(t, k)
      BY <2>7, <3>1
    <3>8. more[1] # "bom"
      <4>1. CASE Len(before) # 0
        BY <2>3, <3>4, <4>1 DEF Apart
      <4>2. CASE Len(before) = 0
        <5>1. more[1] = c
          BY <3>4, <4>2
        <5>2. CASE m = 0
          BY <2>1, <2>5, <3>1, <5>1, <5>2, PlainMeans
        <5>3. CASE m = 1 /\ Dropped(t, 1)
          BY <2>1, <3>1, <5>1, <5>3 DEF Dropped
        <5> QED
          BY <2>3, <4>2, <5>2, <5>3 DEF Apart
      <4> QED
        BY <4>1, <4>2
    <3>9. Apart(t, k, more)
      BY <3>4, <3>6, <3>7, <3>8 DEF Apart
    <3> QED
      BY <2>1, <3>2, <3>3, <3>9
  <2> QED
    BY <2>6, <2>7
<1> HIDE DEF S
<1>3. Nat \subseteq S
  BY <1>1, <1>2, Induct
<1>4. Apart(t, Len(t), Part(t, InMemory, Len(t)))
  BY <1>3, TextIs DEF S
<1>5. Part(t, InMemory, Len(t)) = Lines(t) /\ Lines(t) \in Seq(Symbols)
  BY PartIs, ConversionsAre
<1> QED
  BY <1>4, <1>5 DEF Apart

\* Where what the k-th symbol becomes is in the converted text v.
LEMMA BecameAt ==
    ASSUME NEW t \in Seq(Symbols), NEW p \in {OnDisk, InMemory}, NEW k \in 1..Len(t),
           NEW v \in Seq(Symbols), v = Whole(t, p),
           NEW a \in Nat, a = Len(Part(t, p, k - 1))
    PROVE  /\ t[k] # "lf" /\ Dropped(t, k) => Len(Part(t, p, k)) = a
           /\ t[k] # "lf" /\ ~Dropped(t, k) =>
                /\ Len(Part(t, p, k)) = a + 1 /\ a + 1 <= Len(v) /\ v[a + 1] = t[k]
           /\ t[k] = "lf" /\ p = InMemory =>
                /\ Len(Part(t, p, k)) = a + 1 /\ a + 1 <= Len(v) /\ v[a + 1] = "lf"
           /\ t[k] = "lf" /\ p = OnDisk =>
                /\ Len(Part(t, p, k)) = a + 2 /\ a + 2 <= Len(v)
                /\ v[a + 1] = "cr" /\ v[a + 2] = "lf"
<1> DEFINE piece == Became(t, p)[k]
<1>1. /\ Len(Part(t, p, k)) = a + Len(piece)
      /\ Len(Part(t, p, k)) <= Len(v)
      /\ \A i \in 1..Len(piece) : v[a + i] = piece[i]
  BY PartGoesOn
<1>2. /\ t[k] = "lf" => piece = p
      /\ Dropped(t, k) => piece = <<>>
      /\ t[k] # "lf" /\ ~Dropped(t, k) => piece = <<t[k]>>
  BY BecameIs
<1> HIDE DEF piece
<1>3. CASE t[k] # "lf" /\ Dropped(t, k)
  <2>1. Len(piece) = 0
    BY <1>2, <1>3
  <2> QED
    BY <1>1, <1>3, <2>1
<1>4. CASE t[k] # "lf" /\ ~Dropped(t, k)
  <2>1. Len(piece) = 1 /\ piece[1] = t[k]
    BY <1>2, <1>4
  <2> QED
    BY <1>1, <1>4, <2>1
<1>5. CASE t[k] = "lf" /\ p = InMemory
  <2>1. Len(piece) = 1 /\ piece[1] = "lf"
    BY <1>2, <1>5 DEF InMemory
  <2>2. p # OnDisk
    BY <1>5 DEF InMemory, OnDisk
  <2> QED
    BY <1>1, <1>5, <2>1, <2>2
<1>6. CASE t[k] = "lf" /\ p = OnDisk
  <2>1. Len(piece) = 2 /\ piece[1] = "cr" /\ piece[2] = "lf"
    BY <1>2, <1>6 DEF OnDisk
  <2>2. p # InMemory
    BY <1>6 DEF InMemory, OnDisk
  <2> QED
    BY <1>1, <1>6, <2>1, <2>2
<1> QED
  BY <1>3, <1>4, <1>5, <1>6

\* One symbol more, and what it gives.
LEMMA PartStep ==
    ASSUME NEW t \in Seq(Symbols), NEW p \in {OnDisk, InMemory}, NEW k \in 1..Len(t)
    PROVE  /\ Dropped(t, k) => Part(t, p, k) = Part(t, p, k - 1)
           /\ t[k] # "lf" /\ ~Dropped(t, k) => Part(t, p, k) = Part(t, p, k - 1) \o <<t[k]>>
           /\ t[k] = "lf" => Part(t, p, k) = Part(t, p, k - 1) \o p
<1>1. Part(t, p, k) = Part(t, p, k - 1) \o Became(t, p)[k]
      /\ Part(t, p, k - 1) \in Seq(Symbols)
  BY PartGoesOn
<1>2. /\ t[k] = "lf" => Became(t, p)[k] = p
      /\ Dropped(t, k) => Became(t, p)[k] = <<>>
      /\ t[k] # "lf" /\ ~Dropped(t, k) => Became(t, p)[k] = <<t[k]>>
  BY BecameIs
<1>3. Part(t, p, k - 1) \o <<>> = Part(t, p, k - 1)
  BY <1>1, NothingMore
<1> QED
  BY <1>1, <1>2, <1>3

\* Read again, a text whose lines are apart is what was written.
LEMMA DiskToMemory ==
    ASSUME NEW u \in Seq(Symbols), NoPairs(u)
    PROVE  Lines(Crlf(u)) = u
<1>1. PICK v \in Seq(Symbols) : v = Whole(u, OnDisk)
  BY PartIs
<1>2. Len(u) \in Nat /\ Len(v) \in Nat
  BY TextIs
<1> DEFINE Reached(k, a) == /\ a = Len(Part(u, OnDisk, k)) /\ a <= Len(v)
                            /\ Part(v, InMemory, a) = SubSeq(u, 1, k)
           S == {k \in Nat : k <= Len(u) => \E a \in Nat : Reached(k, a)}
<1>3. 0 \in S
  <2>1. Part(u, OnDisk, 0) = <<>> /\ Part(v, InMemory, 0) = <<>>
    BY PartIs
  <2>2. SubSeq(u, 1, 0) = <<>> /\ Len(<<>>) = 0
    OBVIOUS
  <2>3. 0 = Len(Part(u, OnDisk, 0)) /\ 0 <= Len(v)
    BY <1>2, <2>1, <2>2
  <2>4. Part(v, InMemory, 0) = SubSeq(u, 1, 0)
    BY <2>1, <2>2
  <2> QED
    BY <2>3, <2>4
<1>4. ASSUME NEW m \in Nat, m \in S PROVE m + 1 \in S
  <2> SUFFICES ASSUME m + 1 <= Len(u) PROVE \E a \in Nat : Reached(m + 1, a)
    OBVIOUS
  <2>1. PICK k \in 1..Len(u) : k = m + 1 /\ k - 1 = m
    BY <1>2
  <2>2. PICK a \in Nat : Reached(m, a)
    BY <1>2, <1>4, <2>1
  <2>3. PICK before \in Seq(Symbols) : before = Part(v, InMemory, a) /\ before = SubSeq(u, 1, m)
    BY <2>1, <2>2, TextIs
  <2>4. SubSeq(u, 1, k) = before \o <<u[k]>>
    BY <2>1, <2>3, TextIs
  <2>5. ~Dropped(u, k)
    BY TextIs DEF NoPairs
  <2>6. CASE u[k] = "lf"
    <3>1. /\ Len(Part(u, OnDisk, k)) = a + 2 /\ a + 2 <= Len(v)
          /\ v[a + 1] = "cr" /\ v[a + 2] = "lf"
      BY <1>1, <2>1, <2>2, <2>6, BecameAt
    <3>2. PICK i \in 1..Len(v), j \in 1..Len(v) :
                 i = a + 1 /\ j = a + 2 /\ i - 1 = a /\ j - 1 = i
      BY <1>2, <3>1
    <3>3. Dropped(v, i)
      BY <3>1, <3>2 DEF Dropped
    <3>4. Part(v, InMemory, i) = Part(v, InMemory, i - 1)
      BY <3>3, PartStep
    <3>5. Part(v, InMemory, j) = Part(v, InMemory, j - 1) \o InMemory
      BY <3>1, <3>2, PartStep
    <3>6. Part(v, InMemory, j) = before \o <<"lf">>
      BY <2>3, <3>2, <3>4, <3>5 DEF InMemory
    <3>7. Reached(k, a + 2)
      BY <2>4, <2>6, <3>1, <3>2, <3>6
    <3> QED
      BY <2>1, <3>7
  <2>7. CASE u[k] # "lf"
    <3>1. Len(Part(u, OnDisk, k)) = a + 1 /\ a + 1 <= Len(v) /\ v[a + 1] = u[k]
      BY <1>1, <2>1, <2>2, <2>5, <2>7, BecameAt
    <3>2. PICK i \in 1..Len(v) : i = a + 1 /\ i - 1 = a
      BY <1>2, <3>1
    <3>3. i < Len(v) => v[i + 1] # "lf"
      <4> SUFFICES ASSUME i < Len(v) PROVE v[i + 1] # "lf"
        OBVIOUS
      <4>1. CASE k < Len(u)
        <5>1. PICK n \in 1..Len(u) : n = k + 1 /\ n - 1 = k
          BY <1>2, <4>1
        <5>2. ~Dropped(u, n)
          BY TextIs DEF NoPairs
        <5>3. CASE u[n] = "lf"
          <6>1. v[i + 1] = "cr"
            BY <1>1, <3>1, <3>2, <5>1, <5>3, BecameAt
          <6> QED
            BY <6>1
        <5>4. CASE u[n] # "lf"
          <6>1. v[i + 1] = u[n]
            BY <1>1, <3>1, <3>2, <5>1, <5>2, <5>4, BecameAt
          <6> QED
            BY <5>4, <6>1
        <5> QED
          BY <5>3, <5>4
      <4>2. CASE k = Len(u)
        <5>1. Len(v) = a + 1
          BY <1>1, <3>1, <4>2, PartIs
        <5> QED
          BY <3>2, <5>1
      <4> QED
        BY <1>2, <4>1, <4>2
    <3>4. v[i] # "lf" /\ ~Dropped(v, i)
      BY <2>7, <3>1, <3>2, <3>3 DEF Dropped
    <3>5. Part(v, InMemory, i) = Part(v, InMemory, i - 1) \o <<v[i]>>
      BY <3>4, PartStep
    <3>6. Part(v, InMemory, i) = before \o <<u[k]>>
      BY <2>3, <3>1, <3>2, <3>5
    <3>7. Reached(k, a + 1)
      BY <2>4, <3>1, <3>2, <3>6
    <3> QED
      BY <2>1, <3>7
  <2> QED
    BY <2>6, <2>7
<1> HIDE DEF S, Reached
<1>5. Nat \subseteq S
  BY <1>3, <1>4, Induct
<1>6. PICK a \in Nat : Reached(Len(u), a)
  BY <1>2, <1>5 DEF S
<1>7. a = Len(v) /\ Part(v, InMemory, Len(v)) = u
  BY <1>1, <1>6, PartIs, TextIs DEF Reached
<1> QED
  BY <1>1, <1>7, PartIs, ConversionsAre

\* Written again, a plain text as it was written is what it was.
LEMMA MemoryToDisk ==
    ASSUME NEW v \in Seq(Symbols), LineEnded(v), Plain(v)
    PROVE  Crlf(Lines(v)) = v
<1>1. PICK u \in Seq(Symbols) : u = Whole(v, InMemory) /\ u = Lines(v)
  BY PartIs, ConversionsAre
<1>2. Len(u) \in Nat /\ Len(v) \in Nat /\ NoPairs(u)
  BY <1>1, TextIs, MemoryIsApart
<1> DEFINE Back(k) == IF k # 0 /\ Dropped(v, k) THEN SubSeq(v, 1, k - 1) ELSE SubSeq(v, 1, k)
           Reached(k, b) == /\ b = Len(Part(v, InMemory, k)) /\ b <= Len(u)
                            /\ Part(u, OnDisk, b) = Back(k)
           S == {k \in Nat : k <= Len(v) => \E b \in Nat : Reached(k, b)}
<1>3. 0 \in S
  <2>1. Part(v, InMemory, 0) = <<>> /\ Part(u, OnDisk, 0) = <<>>
    BY PartIs
  <2>2. SubSeq(v, 1, 0) = <<>> /\ Len(<<>>) = 0
    OBVIOUS
  <2>3. 0 = Len(Part(v, InMemory, 0)) /\ 0 <= Len(u)
    BY <1>2, <2>1, <2>2
  <2>4. Part(u, OnDisk, 0) = SubSeq(v, 1, 0)
    BY <2>1, <2>2
  <2> QED
    BY <2>3, <2>4
<1> HIDE DEF Back, Reached
<1>4. ASSUME NEW m \in Nat, m \in S PROVE m + 1 \in S
  <2> SUFFICES ASSUME m + 1 <= Len(v) PROVE \E b \in Nat : Reached(m + 1, b)
    OBVIOUS
  <2>1. PICK k \in 1..Len(v) : k = m + 1 /\ k - 1 = m
    BY <1>2
  <2>2. PICK b \in Nat : /\ b = Len(Part(v, InMemory, k - 1)) /\ b <= Len(u)
                         /\ Part(u, OnDisk, b) = Back(m)
    BY <1>2, <1>4, <2>1 DEF Reached
  <2>8. /\ v[k] # "lf" /\ Dropped(v, k) => Len(Part(v, InMemory, k)) = b
        /\ v[k] # "lf" /\ ~Dropped(v, k) =>
             Len(Part(v, InMemory, k)) = b + 1 /\ b + 1 <= Len(u) /\ u[b + 1] = v[k]
        /\ v[k] = "lf" =>
             Len(Part(v, InMemory, k)) = b + 1 /\ b + 1 <= Len(u) /\ u[b + 1] = "lf"
    <3>1. u = Whole(v, InMemory) /\ b = Len(Part(v, InMemory, k - 1))
      BY <1>1, <2>2
    <3> QED
      BY <3>1, BecameAt
  <2>3. SubSeq(v, 1, k) = SubSeq(v, 1, m) \o <<v[k]>> /\ SubSeq(v, 1, m) \in Seq(Symbols)
    BY <2>1, TextIs
  <2>4. k # 0 /\ (m # 0 => (Dropped(v, m) <=> v[m] = "cr" /\ v[k] = "lf"))
    BY <2>1 DEF Dropped
  <2>5. CASE v[k] # "lf" /\ Dropped(v, k)
    <3>1. Len(Part(v, InMemory, k)) = b
      BY <2>5, <2>8
    <3>2. Back(m) = SubSeq(v, 1, m) /\ Back(k) = SubSeq(v, 1, m)
      BY <2>1, <2>4, <2>5 DEF Back
    <3>3. Reached(k, b)
      BY <2>2, <3>1, <3>2 DEF Reached
    <3> QED
      BY <2>1, <3>3
  <2>6. CASE v[k] # "lf" /\ ~Dropped(v, k)
    <3>1. Len(Part(v, InMemory, k)) = b + 1 /\ b + 1 <= Len(u) /\ u[b + 1] = v[k]
      BY <2>6, <2>8
    <3>2. PICK i \in 1..Len(u) : i = b + 1 /\ i - 1 = b
      BY <1>2, <3>1
    <3>3. u[i] # "lf" /\ ~Dropped(u, i)
      BY <1>2, <2>6, <3>1, <3>2, TextIs DEF NoPairs
    <3>4. Part(u, OnDisk, i) = Part(u, OnDisk, i - 1) \o <<u[i]>>
      BY <3>3, PartStep
    <3>5. Back(m) = SubSeq(v, 1, m) /\ Back(k) = SubSeq(v, 1, k)
      BY <2>1, <2>4, <2>6 DEF Back
    <3>6. Part(u, OnDisk, i) = Back(k)
      BY <2>2, <2>3, <3>1, <3>2, <3>4, <3>5
    <3>7. Reached(k, b + 1)
      BY <3>1, <3>2, <3>6 DEF Reached
    <3> QED
      BY <2>1, <3>7
  <2>7. CASE v[k] = "lf"
    <3>1. k > 1 /\ v[k - 1] = "cr"
      BY <2>7, TextIs DEF LineEnded
    <3>2. PICK n \in 1..Len(v) : n = m /\ n - 1 = m - 1 /\ n - 1 \in 0..Len(v)
      BY <1>2, <2>1, <3>1
    <3>3. m # 0 /\ Dropped(v, m) /\ ~Dropped(v, k)
      BY <2>1, <2>4, <2>7, <3>1 DEF Dropped
    <3>4. PICK before \in Seq(Symbols) : before = SubSeq(v, 1, m - 1)
      BY <3>2, TextIs
    <3>5. SubSeq(v, 1, m) = before \o <<"cr">>
      BY <2>1, <3>1, <3>2, <3>4, TextIs
    <3>6. SubSeq(v, 1, k) = before \o <<"cr", "lf">>
      BY <2>3, <2>7, <3>4, <3>5, TwoMore
    <3>7. Len(Part(v, InMemory, k)) = b + 1 /\ b + 1 <= Len(u) /\ u[b + 1] = "lf"
      BY <2>7, <2>8
    <3>8. PICK i \in 1..Len(u) : i = b + 1 /\ i - 1 = b
      BY <1>2, <3>7
    <3>9. Part(u, OnDisk, i) = Part(u, OnDisk, i - 1) \o OnDisk
      BY <3>7, <3>8, PartStep
    <3>10. Back(m) = before /\ Back(k) = SubSeq(v, 1, k)
      BY <3>3, <3>4 DEF Back
    <3>11. Part(u, OnDisk, i) = Back(k)
      BY <2>2, <3>6, <3>8, <3>9, <3>10 DEF OnDisk
    <3>12. Reached(k, b + 1)
      BY <3>7, <3>8, <3>11 DEF Reached
    <3> QED
      BY <2>1, <3>12
  <2> QED
    BY <2>5, <2>6, <2>7
<1> HIDE DEF S
<1>5. Nat \subseteq S
  BY <1>3, <1>4, Induct
<1>6. PICK b \in Nat : Reached(Len(v), b)
  BY <1>2, <1>5 DEF S
<1>7. ~Dropped(v, Len(v))
  BY <1>2 DEF Dropped
<1>8. Back(Len(v)) = v
  BY <1>7, TextIs DEF Back
<1>9. b = Len(u) /\ Part(u, OnDisk, Len(u)) = v
  BY <1>1, <1>6, <1>8, PartIs DEF Reached
<1> QED
  BY <1>1, <1>9, PartIs, ConversionsAre

-----------------------------------------------------------------------------
(* The commands.                                                           *)

Files == [name : FileNames, form : Forms \cup {Noise}, text : Seq(Symbols)]

ModuleOf(b) == WithoutBom(FileNamed(b, "module").text)

\* What is true of Form.bin and of the package between two commands.  The two
\* histories say from what the package comes and what Form.bin was built first.
PackageInv ==
    /\ bin \in Seq(Files) \cup {Noise}
    /\ bsl \in Seq(Symbols) \cup {Nothing}
    /\ BuildSucceeded =>
         /\ bin = Saved(xml, BuildText) /\ LoadError(bin) = "none"
         /\ xml \in Forms /\ bsl # Nothing
    /\ dumped # Nothing =>
         /\ dumped \in Seq(Files) /\ LoadError(dumped) = "none"
         /\ xml = LoadedForm(dumped) /\ bsl = LoadedText(dumped)
    /\ built # Nothing =>
         /\ ModuleOf(built) \in Seq(Symbols) /\ LineEnded(ModuleOf(built))
         /\ Plain(ModuleOf(built)) =>
              /\ bin = built /\ built = Saved(xml, BuildText)
              /\ xml \in Forms /\ bsl # Nothing

LEMMA TextWithoutBom ==
    ASSUME NEW t \in Seq(Symbols)
    PROVE  /\ WithoutBom(t) \in Seq(Symbols)
           /\ WithoutBom(t) = <<>> => t \in {<<>>, <<"bom">>}
           /\ t # <<>> /\ t[1] # "bom" => WithoutBom(t) = t
           /\ t = <<>> => WithoutBom(t) = t
<1>1. CASE t = <<>>
  BY <1>1 DEF WithoutBom
<1>2. CASE t # <<>> /\ t[1] # "bom"
  BY <1>2 DEF WithoutBom
<1>3. CASE t # <<>> /\ t[1] = "bom"
  <2>1. WithoutBom(t) = Tail(t) /\ Tail(t) \in Seq(Symbols) /\ Len(Tail(t)) = Len(t) - 1
    BY <1>3 DEF WithoutBom
  <2>2. ASSUME WithoutBom(t) = <<>> PROVE t = <<"bom">>
    <3>1. Tail(t) = <<>> /\ Len(<<>>) = 0 /\ Len(t) \in Nat
      BY <2>1, <2>2, EmptyIsNeutral
    <3>2. Len(t) = 1
      BY <2>1, <3>1
    <3> QED
      BY <1>3, <3>2
  <2> QED
    BY <1>3, <2>1, <2>2
<1> QED
  BY <1>1, <1>2, <1>3

LEMMA StoredText ==
    ASSUME NEW t \in Seq(Symbols)
    PROVE  BomPayload(t) \in Seq(Symbols) /\ WithoutBom(BomPayload(t)) = t
<1>1. <<"bom">> \in Seq(Symbols)
  BY DEF Symbols
<1>2. PICK b \in Seq(Symbols) : b = <<"bom">> \o t
  BY <1>1, Concatenation
<1>3. /\ Len(b) = Len(t) + 1 /\ b[1] = "bom" /\ b # <<>>
      /\ \A i \in 1..Len(t) : b[i + 1] = t[i]
  BY <1>1, <1>2
<1>4. Tail(b) \in Seq(Symbols) /\ Len(Tail(b)) = Len(t) /\ \A i \in 1..Len(t) : Tail(b)[i] = t[i]
  BY <1>3
<1>5. Tail(b) = t
  BY <1>4
<1> QED
  BY <1>2, <1>3, <1>5 DEF BomPayload, WithoutBom

\* The files that save_form_bin writes.
LEMMA SavedIs ==
    ASSUME NEW f \in Forms, NEW t \in Seq(Symbols)
    PROVE  /\ Saved(f, t) \in Seq(Files)
           /\ LoadedForm(Saved(f, t)) = f
           /\ ModuleOf(Saved(f, t)) = Crlf(t)
           /\ EmptyModule(Saved(f, t)) => Crlf(t) = <<>>
<1>1. PICK c \in Seq(Symbols) : c = Crlf(t)
  BY PartIs, ConversionsAre
<1>2. PICK p \in Seq(Symbols) : p = BomPayload(c) /\ WithoutBom(p) = c
  BY StoredText
<1>3. PICK form \in Files : form = LogicalFile("form", f, <<>>)
  <2>1. <<>> \in Seq(Symbols)
    OBVIOUS
  <2>2. LogicalFile("form", f, <<>>) \in Files
    BY <2>1 DEF LogicalFile, Files, FileNames
  <2> QED
    BY <2>2
<1>4. PICK module \in Files : module = LogicalFile("module", Noise, p)
  <2>1. LogicalFile("module", Noise, p) \in Files
    BY DEF LogicalFile, Files, FileNames
  <2> QED
    BY <2>1
<1>5. /\ form.name = "form" /\ form.form = f
      /\ module.name = "module" /\ module.text = p
  BY <1>3, <1>4 DEF LogicalFile
<1>6. Saved(f, t) = <<form, module>>
  BY <1>1, <1>2, <1>3, <1>4 DEF Saved, Crlf
<1>7. PICK b \in Seq(Files) : b = <<form, module>>
  <2>1. <<form, module>> \in Seq(Files)
    OBVIOUS
  <2> QED
    BY <2>1
<1>8. DOMAIN b = {1, 2} /\ b[1] = form /\ b[2] = module
  BY <1>7
<1>9. FileNamed(b, "form") = form /\ FileNamed(b, "module") = module
  <2>1. (CHOOSE i \in DOMAIN b : b[i].name = "form") = 1
    BY <1>5, <1>8
  <2>2. (CHOOSE i \in DOMAIN b : b[i].name = "module") = 2
    BY <1>5, <1>8
  <2> QED
    BY <1>8, <2>1, <2>2 DEF FileNamed
<1>10. EmptyModule(b) => c = <<>>
  BY <1>2, <1>5, <1>8 DEF EmptyModule
<1> QED
  BY <1>1, <1>2, <1>5, <1>6, <1>7, <1>9, <1>10 DEF LoadedForm, ModuleOf

\* What a Form.bin has that load_form_bin accepts.
LEMMA LoadedIs ==
    ASSUME NEW b \in Seq(Files) \cup {Noise}, LoadError(b) = "none"
    PROVE  /\ b \in Seq(Files) /\ b # Noise
           /\ ModuleOf(b) \in Seq(Symbols) /\ LoadedForm(b) \in Forms
           /\ LoadedText(b) = Lines(ModuleOf(b)) /\ LoadedText(b) \in Seq(Symbols)
<1>1. b # Noise /\ b \in Seq(Files)
  BY DEF LoadError
<1>2. /\ \A i \in DOMAIN b : /\ b[i].name \in {"form", "module"}
                             /\ \A j \in 1..(i - 1) : b[j].name # b[i].name
      /\ Len(b) = 2 /\ LoadedForm(b) \in Decodes
  BY <1>1 DEF LoadError
<1>3. 1 \in DOMAIN b /\ 2 \in DOMAIN b /\ 1 \in 1..(2 - 1) /\ b[1] \in Files /\ b[2] \in Files
  BY <1>1, <1>2
<1>4. \E i \in DOMAIN b : b[i].name = "module"
  BY <1>2, <1>3
<1>5. FileNamed(b, "module") \in Files
  BY <1>1, <1>4 DEF FileNamed
<1>6. PICK t \in Seq(Symbols) : t = ModuleOf(b)
  <2>1. FileNamed(b, "module").text \in Seq(Symbols)
    BY <1>5 DEF Files
  <2> QED
    BY <2>1, TextWithoutBom DEF ModuleOf
<1>7. LoadedText(b) = Lines(t) /\ Lines(t) \in Seq(Symbols)
  BY <1>6, PartIs, ConversionsAre DEF LoadedText, ModuleOf, Lines
<1>8. LoadedForm(b) \in Forms
  BY <1>2, PackageAssumption
<1> QED
  BY <1>1, <1>6, <1>7, <1>8

\* What `build' writes when it succeeds.
LEMMA BuildIs ==
    ASSUME PackageInv, BuildError = "none"
    PROVE  /\ xml \in Forms /\ bsl \in Seq(Symbols) /\ bsl # Nothing
           /\ BuildText = WithoutBom(bsl) /\ BuildText \in Seq(Symbols)
           /\ Saved(xml, BuildText) \in Seq(Files)
           /\ LoadError(Saved(xml, BuildText)) = "none"
<1>1. /\ xml \in XmlParses /\ bsl # Nothing /\ SaveError(xml, BuildText) = "none"
  BY DEF BuildError
<1>2. xml \in Forms /\ bsl \in Seq(Symbols)
  BY <1>1, PackageAssumption DEF PackageInv
<1>3. BuildText = WithoutBom(bsl) /\ BuildText \in Seq(Symbols)
  BY <1>1, <1>2, TextWithoutBom DEF BuildText
<1>4. LoadError(Saved(xml, BuildText)) = "none"
  BY <1>1 DEF SaveError
<1> QED
  BY <1>1, <1>2, <1>3, <1>4, SavedIs

\* A module that was built with line ends alone is built as it was again after
\* it was dumped.
LEMMA TextComesBack ==
    ASSUME NEW t \in Seq(Symbols), Plain(Crlf(t))
    PROVE  /\ Lines(Crlf(t)) \in Seq(Symbols)
           /\ WithoutBom(Lines(Crlf(t))) = Lines(Crlf(t))
           /\ Crlf(Lines(Crlf(t))) = Crlf(t)
<1>1. PICK v \in Seq(Symbols) : v = Crlf(t)
  BY PartIs, ConversionsAre
<1>2. PICK u \in Seq(Symbols) : u = Lines(v)
  BY PartIs, ConversionsAre
<1>3. Crlf(u) = v
  BY <1>1, <1>2, CrlfIsEnded, MemoryToDisk
<1>4. u # <<>> => u[1] # "bom"
  BY <1>1, <1>2, MemoryIsApart
<1>5. WithoutBom(u) = u
  BY <1>4, TextWithoutBom
<1> QED
  BY <1>1, <1>2, <1>3, <1>5

LEMMA SequencesWiden ==
    ASSUME NEW A, NEW B, A \subseteq B, NEW s \in Seq(A)
    PROVE  s \in Seq(B)
OBVIOUS

LEMMA ForeignIsTyped == Foreign \subseteq Seq(Files) \cup {Noise}
<1>1. [name : FileNames, form : Forms \cup {Noise}, text : Texts] \subseteq Files
  BY PackageAssumption DEF Files
<1>2. ASSUME NEW b \in Foreign, b # Noise PROVE b \in Seq(Files)
  <2>1. b \in Seq([name : FileNames, form : Forms \cup {Noise}, text : Texts])
    BY <1>2, PackageAssumption
  <2> QED
    BY <1>1, <2>1, SequencesWiden, Zenon
<1> QED
  BY <1>2

LEMMA PackageStarts == Init => PackageInv
<1> SUFFICES ASSUME Init PROVE PackageInv
  OBVIOUS
<1>1. bin \in Seq(Files) \cup {Noise}
  BY ForeignIsTyped DEF Init
<1>2. ~BuildSucceeded
  BY DEF Init, Idle, BuildSucceeded
<1> QED
  BY <1>1, <1>2 DEF Init, PackageInv

LEMMA DumpStep ==
    ASSUME PackageInv, Dump
    PROVE  PackageInv'
<1>1. LoadError(bin) = "none"
  BY DEF Dump, DumpError
<1>2. /\ bin \in Seq(Files) /\ ModuleOf(bin) \in Seq(Symbols)
      /\ LoadedText(bin) = Lines(ModuleOf(bin)) /\ LoadedText(bin) \in Seq(Symbols)
  BY <1>1, LoadedIs DEF PackageInv
<1>3. xml' = LoadedForm(bin) /\ bsl' = LoadedText(bin) /\ bin' = bin /\ built' = built
      /\ dumped' = bin /\ report' = [command |-> "dump", how |-> "ok"]
  BY DEF Dump, Report
<1>4. ~BuildSucceeded'
  BY <1>3 DEF BuildSucceeded
<1>5. bsl' \in Seq(Symbols) /\ bsl' # Nothing
  BY <1>2, <1>3, PackageAssumption
<1>6. ASSUME built # Nothing, Plain(ModuleOf(built))
      PROVE  xml' \in Forms /\ built = Saved(xml', BuildText')
  <2>1. /\ bin = built /\ built = Saved(xml, BuildText)
        /\ xml \in Forms /\ bsl # Nothing /\ bsl \in Seq(Symbols)
    BY <1>6 DEF PackageInv
  <2>2. PICK t \in Seq(Symbols) : t = BuildText
    BY <2>1, TextWithoutBom DEF BuildText
  <2>3. xml' = xml /\ ModuleOf(bin) = Crlf(t)
    BY <1>3, <2>1, <2>2, SavedIs
  <2>4. PICK u \in Seq(Symbols) : u = Lines(Crlf(t)) /\ WithoutBom(u) = u /\ Crlf(u) = Crlf(t)
    BY <1>6, <2>1, <2>2, <2>3, TextComesBack
  <2>5. BuildText' = u
    BY <1>2, <1>3, <1>5, <2>3, <2>4 DEF BuildText
  <2>6. Saved(xml, u) = Saved(xml, t)
    BY <2>4 DEF Saved, Crlf
  <2> QED
    BY <2>1, <2>2, <2>3, <2>5, <2>6
<1>7. built' # Nothing =>
        /\ ModuleOf(built') \in Seq(Symbols) /\ LineEnded(ModuleOf(built'))
        /\ Plain(ModuleOf(built')) =>
             /\ bin' = built' /\ built' = Saved(xml', BuildText')
             /\ xml' \in Forms /\ bsl' # Nothing
  BY <1>3, <1>5, <1>6 DEF PackageInv
<1>8. bin' \in Seq(Files) \cup {Noise} /\ bsl' \in Seq(Symbols) \cup {Nothing}
  BY <1>2, <1>3, <1>5
<1>9. dumped' # Nothing =>
         /\ dumped' \in Seq(Files) /\ LoadError(dumped') = "none"
         /\ xml' = LoadedForm(dumped') /\ bsl' = LoadedText(dumped')
  BY <1>1, <1>2, <1>3
<1> QED
  BY <1>4, <1>7, <1>8, <1>9 DEF PackageInv, ModuleOf, LoadedForm, LoadedText

LEMMA BuildStep ==
    ASSUME PackageInv, Build
    PROVE  PackageInv'
<1>1. BuildError = "none" /\ bin' = Saved(xml, BuildText) /\ xml' = xml /\ bsl' = bsl
      /\ dumped' = dumped /\ built' = IF built = Nothing THEN bin' ELSE built
  BY DEF Build, package
<1>2. /\ xml \in Forms /\ bsl \in Seq(Symbols) /\ bsl # Nothing
      /\ Saved(xml, BuildText) \in Seq(Files)
      /\ LoadError(Saved(xml, BuildText)) = "none"
  BY <1>1, BuildIs
<1>3. PICK t \in Seq(Symbols) : t = BuildText
  BY <1>1, BuildIs
<1>4. BuildText' = BuildText
  BY <1>1 DEF BuildText
<1>5. bin' \in Seq(Files) \cup {Noise} /\ bsl' \in Seq(Symbols) \cup {Nothing}
  BY <1>1, <1>2
<1>6. /\ bin' = Saved(xml', BuildText') /\ LoadError(bin') = "none"
      /\ xml' \in Forms /\ bsl' # Nothing
  BY <1>1, <1>2, <1>4
<1>7. dumped' # Nothing =>
         /\ dumped' \in Seq(Files) /\ LoadError(dumped') = "none"
         /\ xml' = LoadedForm(dumped') /\ bsl' = LoadedText(dumped')
  BY <1>1 DEF PackageInv
<1>8. built' # Nothing =>
        /\ ModuleOf(built') \in Seq(Symbols) /\ LineEnded(ModuleOf(built'))
        /\ Plain(ModuleOf(built')) =>
             /\ bin' = built' /\ built' = Saved(xml', BuildText')
             /\ xml' \in Forms /\ bsl' # Nothing
  <2>1. CASE built = Nothing
    <3>1. built' = bin' /\ built' = Saved(xml, t)
      BY <1>1, <1>3, <2>1
    <3>2. ModuleOf(built') = Crlf(t)
      BY <1>2, <1>3, <3>1, SavedIs
    <3>3. Crlf(t) \in Seq(Symbols) /\ LineEnded(Crlf(t))
      BY PartIs, ConversionsAre, CrlfIsEnded
    <3> QED
      BY <1>6, <3>1, <3>2, <3>3
  <2>2. CASE built # Nothing
    <3>1. built' = built
      BY <1>1, <2>2
    <3>2. ModuleOf(built) \in Seq(Symbols) /\ LineEnded(ModuleOf(built))
      BY <2>2 DEF PackageInv
    <3>3. Plain(ModuleOf(built)) => built = Saved(xml, BuildText)
      BY <2>2 DEF PackageInv
    <3> QED
      BY <1>1, <1>6, <3>1, <3>2, <3>3
  <2> QED
    BY <2>1, <2>2
<1> QED
  BY <1>5, <1>6, <1>7, <1>8 DEF PackageInv, ModuleOf, LoadedForm, LoadedText

LEMMA FailureStep ==
    ASSUME PackageInv, DumpFails \/ BuildFails
    PROVE  PackageInv'
<1>1. bin' = bin /\ xml' = xml /\ bsl' = bsl /\ dumped' = dumped /\ built' = built
  BY DEF DumpFails, BuildFails, package
<1>2. ~BuildSucceeded'
  <2>1. CASE DumpFails
    BY <2>1 DEF DumpFails, Report, BuildSucceeded
  <2>2. CASE BuildFails
    <3>1. BuildError # "ok"
      BY DEF BuildError, SaveError, LoadError
    <3>2. report'.how # "ok"
      BY <2>2, <3>1 DEF BuildFails, Report
    <3> QED
      BY <3>2 DEF BuildSucceeded
  <2> QED
    BY <2>1, <2>2
<1>3. BuildText' = BuildText
  BY <1>1 DEF BuildText
<1> QED
  BY <1>1, <1>2, <1>3 DEF PackageInv, ModuleOf, LoadedForm, LoadedText

LEMMA WorldStep ==
    ASSUME PackageInv, EditXml \/ EditModule \/ DeletePicture \/ ReplaceBin
    PROVE  PackageInv'
<1>1. dumped' = Nothing /\ built' = Nothing /\ ~BuildSucceeded'
  BY DEF EditXml, EditModule, DeletePicture, ReplaceBin, Edited, Idle, BuildSucceeded
<1>2. bsl' \in Seq(Symbols) \cup {Nothing}
  <2>1. CASE EditModule
    BY <2>1, PackageAssumption DEF EditModule
  <2>2. CASE EditXml \/ DeletePicture \/ ReplaceBin
    BY <2>2 DEF PackageInv, EditXml, DeletePicture, ReplaceBin, package
  <2> QED
    BY <2>1, <2>2
<1>3. bin' \in Seq(Files) \cup {Noise}
  <2>1. CASE ReplaceBin
    BY <2>1, ForeignIsTyped DEF ReplaceBin
  <2>2. CASE EditXml \/ EditModule \/ DeletePicture
    BY <2>2 DEF PackageInv, EditXml, EditModule, DeletePicture
  <2> QED
    BY <2>1, <2>2
<1> QED
  BY <1>1, <1>2, <1>3 DEF PackageInv

LEMMA PackageInvHolds == Spec => []PackageInv
<1>1. Init => PackageInv
  BY PackageStarts
<1>2. PackageInv /\ [Next]_vars => PackageInv'
  <2> SUFFICES ASSUME PackageInv, [Next]_vars PROVE PackageInv'
    OBVIOUS
  <2>1. CASE Dump
    BY <2>1, DumpStep
  <2>2. CASE Build
    BY <2>2, BuildStep
  <2>3. CASE DumpFails \/ BuildFails
    BY <2>3, FailureStep
  <2>4. CASE EditXml \/ EditModule \/ DeletePicture \/ ReplaceBin
    BY <2>4, WorldStep
  <2>5. CASE UNCHANGED vars
    <3>1. bin' = bin /\ xml' = xml /\ bsl' = bsl /\ report' = report
          /\ dumped' = dumped /\ built' = built
      BY <2>5 DEF vars, package
    <3>2. BuildText' = BuildText /\ (BuildSucceeded' <=> BuildSucceeded)
      BY <3>1 DEF BuildText, BuildSucceeded
    <3> QED
      BY <3>1, <3>2 DEF PackageInv, ModuleOf, LoadedForm, LoadedText
  <2> QED
    BY <2>1, <2>2, <2>3, <2>4, <2>5 DEF Next
<1> QED
  BY <1>1, <1>2, PTL DEF Spec

\* In every state of a form's life: what `build' has just reported as built can be
\* loaded, and when the package was built as it was dumped it is the same form and
\* the same module, with the line ends of the platform, however long the module is.
THEOREM CycleKeepsTheModule == Spec => []CycleKeepsModule
<1>1. PackageInv => CycleKeepsModule
  <2> SUFFICES ASSUME PackageInv, BuildSucceeded
               PROVE  /\ LoadError(bin) = "none"
                      /\ dumped # Nothing =>
                           /\ LoadedForm(bin) = LoadedForm(dumped)
                           /\ Plain(ModuleOf(dumped)) =>
                                WithoutReturns(ModuleOf(bin)) = WithoutReturns(ModuleOf(dumped))
                           /\ LineEnded(ModuleOf(bin))
    BY DEF CycleKeepsModule, ModuleOf, LineEnded
  <2>1. /\ bin = Saved(xml, BuildText) /\ LoadError(bin) = "none"
        /\ bsl # Nothing /\ xml \in Forms /\ bsl \in Seq(Symbols)
    BY DEF PackageInv
  <2>2. PICK t \in Seq(Symbols) : t = BuildText /\ t = WithoutBom(bsl)
    BY <2>1, TextWithoutBom DEF BuildText
  <2>3. /\ LoadedForm(bin) = xml /\ ModuleOf(bin) = Crlf(t) /\ LineEnded(Crlf(t))
    BY <2>1, <2>2, SavedIs, CrlfIsEnded
  <2>4. ASSUME dumped # Nothing PROVE LoadedForm(bin) = LoadedForm(dumped)
    BY <2>3, <2>4 DEF PackageInv
  <2>5. ASSUME dumped # Nothing, Plain(ModuleOf(dumped))
        PROVE  WithoutReturns(ModuleOf(bin)) = WithoutReturns(ModuleOf(dumped))
    <3>1. dumped \in Seq(Files) \cup {Noise} /\ LoadError(dumped) = "none" /\ bsl = LoadedText(dumped)
      BY <2>5 DEF PackageInv
    <3>2. PICK m \in Seq(Symbols) : m = ModuleOf(dumped) /\ bsl = Lines(m) /\ Plain(m)
      BY <2>5, <3>1, LoadedIs
    <3>3. NoPairs(bsl) /\ (bsl # <<>> => bsl[1] # "bom")
      BY <3>2, MemoryIsApart
    <3>4. t = bsl
      BY <2>1, <2>2, <3>3, TextWithoutBom
    <3>5. Lines(Crlf(t)) = Lines(m)
      BY <3>2, <3>3, <3>4, DiskToMemory
    <3> QED
      BY <2>3, <3>2, <3>5, ConversionsAre
  <2> QED
    BY <2>1, <2>3, <2>4, <2>5
<1> QED
  BY <1>1, PackageInvHolds, PTL

\* Building, dumping and building again gives the first Form.bin, for every module
\* whose text the conversions keep.
THEOREM BuildingSettles == Spec => []BuildSettles
<1>1. PackageInv => BuildSettles
  BY DEF PackageInv, BuildSettles, ModuleOf
<1> QED
  BY <1>1, PackageInvHolds, PTL

\* No build stores an empty module for a package whose Module.bsl has a text, and
\* none stores one for a package that has no Module.bsl.
THEOREM ModulesAreNotDropped == Spec => ModuleNotDropped
<1>1. PackageInv /\ [Next]_vars =>
        [(bin' # bin /\ report'.command = "build" /\ EmptyModule(bin')) =>
           bsl \in {<<>>, <<"bom">>}]_vars
  <2> SUFFICES ASSUME PackageInv, Next, bin' # bin, report'.command = "build", EmptyModule(bin')
               PROVE  bsl \in {<<>>, <<"bom">>}
    BY DEF vars, package
  <2>1. ~ReplaceBin
    BY DEF ReplaceBin, Edited, Idle
  <2>2. Build
    BY <2>1 DEF Next, Dump, DumpFails, BuildFails, EditXml, EditModule, DeletePicture
  <2>3. /\ BuildError = "none" /\ bin' = Saved(xml, BuildText)
    BY <2>2 DEF Build
  <2>4. /\ xml \in Forms /\ bsl \in Seq(Symbols)
    BY <2>3, BuildIs
  <2>5. PICK t \in Seq(Symbols) : t = BuildText /\ t = WithoutBom(bsl)
    BY <2>3, BuildIs
  <2>6. Crlf(t) = <<>>
    BY <2>3, <2>4, <2>5, SavedIs
  <2>7. t = <<>>
    BY <2>6, OnlyNothingIsEmpty
  <2> QED
    BY <2>4, <2>5, <2>7, TextWithoutBom
<1> QED
  BY <1>1, PackageInvHolds, PTL DEF Spec, ModuleNotDropped
=============================================================================
