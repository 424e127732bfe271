------------------------------ MODULE ListText ------------------------------
(***************************************************************************)
(* Values of the list stream and the text they are written as: ListValue,  *)
(* dump_compact and dump_listout of include/oof/storage/list_stream.hpp.   *)
(*                                                                         *)
(* Text is a sequence of lexemes: brackets, commas, runs of white space    *)
(* and atoms.  A raw atom without characters writes nothing at all.        *)
(***************************************************************************)
EXTENDS Naturals, SequencesExt

CONSTANTS
    Empty,      \* the atom without characters
    Base64      \* an atom that starts with #base64:

RawAtom(a) == [list |-> FALSE, kind |-> "raw", atom |-> a, items |-> <<>>]
StringAtom(a) == [list |-> FALSE, kind |-> "string", atom |-> a, items |-> <<>>]
ListOf(s) == [list |-> TRUE, kind |-> "raw", atom |-> Empty, items |-> s]

Lexeme(kind) == [kind |-> kind, atom |-> Empty]
Space == Lexeme("space")
Comma == Lexeme("comma")

AtomText(v) ==
    IF v.kind = "raw" /\ v.atom = Empty THEN <<>>
    ELSE <<[kind |-> v.kind, atom |-> v.atom]>>

Bracketed(text) == <<Lexeme("open")>> \o text \o <<Lexeme("close")>>

\* The texts of the items, each after what separates it from the one before.
Joined(texts, before) ==
    FlattenSeq([i \in DOMAIN texts |->
                  IF i = 1 THEN texts[i] ELSE before[i] \o texts[i]])

\* is_base64_payload_list: the kind of the first atom is not asked for.
IsBase64List(v) ==
    /\ v.list
    /\ v.items # <<>>
    /\ ~v.items[1].list
    /\ v.items[1].atom = Base64

ContainsList(v) == \E i \in DOMAIN v.items : v.items[i].list

RECURSIVE DumpCompact(_)
DumpCompact(v) ==
    IF ~v.list THEN AtomText(v)
    ELSE Bracketed(Joined([i \in DOMAIN v.items |-> DumpCompact(v.items[i])],
                          [i \in DOMAIN v.items |-> <<Comma>>]))

\* Between two atoms of a base64 list stands white space, no comma.
Base64Separator(previous, item) ==
    IF ~item.list /\ ~previous.list THEN <<Space>> ELSE <<Comma>>

RECURSIVE DumpListOut(_)
DumpListOut(v) ==
    IF ~v.list THEN AtomText(v)
    ELSE LET at == DOMAIN v.items
             plain == [i \in at |-> DumpListOut(v.items[i])]
             break == [i \in at |-> IF v.items[i].list THEN <<Space>> ELSE <<>>]
         IN  IF IsBase64List(v)
               THEN Bracketed(Joined(plain, [i \in at \ {1} |->
                                       Base64Separator(v.items[i - 1], v.items[i])]))
             ELSE IF ~ContainsList(v) THEN DumpCompact(v)
             ELSE Bracketed(Joined([i \in at |-> break[i] \o plain[i]],
                                   [i \in at |-> <<Comma>>])
                            \o break[Len(v.items)])

-----------------------------------------------------------------------------
(* tokenize: white space is only remembered by the token after it.         *)

IsToken(lexeme) == lexeme.kind # "space"

Tokens(text) ==
    LET at == SelectSeq([i \in DOMAIN text |-> i], LAMBDA i : IsToken(text[i]))
    IN  [k \in DOMAIN at |->
           [kind |-> text[at[k]].kind, atom |-> text[at[k]].atom,
            spaced |-> at[k] > 1 /\ ~IsToken(text[at[k] - 1])]]

=============================================================================
