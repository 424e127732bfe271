----------------------------- MODULE ListParser -----------------------------
(***************************************************************************)
(* detail::ListParser of include/oof/storage/list_stream.hpp: tokens in, a *)
(* ListValue out.  The recursion of parse_value and parse_list is a stack  *)
(* of the lists that are open; one step takes one token.                   *)
(***************************************************************************)
EXTENDS Naturals, Sequences

CONSTANTS
    MaxDepth,   \* max_list_depth
    MaxTokens,  \* max_list_tokens
    NoAtom,     \* the empty raw atom of an empty slot
    Base64Atom, \* an atom that starts with #base64:
    NoValue     \* no value has been parsed

ASSUME ParserAssumption == MaxDepth \in Nat /\ MaxTokens \in Nat

VARIABLES
    tokens,     \* the input
    taken,      \* tokens consumed: index_
    open,       \* frames of parse_list, outermost first
    parsed,     \* the root value
    verdict     \* "parsing", "accepted" or "rejected"

parserVars == <<tokens, taken, open, parsed, verdict>>

Atom(kind, a) == [list |-> FALSE, kind |-> kind, atom |-> a, items |-> <<>>]
Slot == Atom("raw", NoAtom)
AsList(s) == [list |-> TRUE, kind |-> "raw", atom |-> NoAtom, items |-> s]

\* A list just opened: a value may come, and no comma has been seen.
NewFrame == [items |-> <<>>, expecting |-> TRUE, separated |-> FALSE]

ParserInit(input) ==
    /\ tokens = input
    /\ taken = 0
    /\ open = <<>>
    /\ parsed = NoValue
    /\ verdict = "parsing"

Token == tokens[taken + 1]
Top == open[Len(open)]
Outer == SubSeq(open, 1, Len(open) - 1)

\* tokenize has refused the text before the parser starts.
WithinTokenLimit == Len(tokens) <= MaxTokens

Ready ==
    /\ verdict = "parsing"
    /\ taken < Len(tokens)
    /\ WithinTokenLimit

\* Another value directly after a value: only a further chunk of base64 data.
IsBase64Chunk ==
    /\ Top.items # <<>>
    /\ Top.items[1] = Atom("raw", Base64Atom)
    /\ LET last == Top.items[Len(Top.items)] IN ~last.list /\ last.kind = "raw"
    /\ Token.kind = "raw"
    /\ Token.spaced

\* Inside a list a value needs a free slot; outside there is room for one root.
ValueMayCome ==
    IF open = <<>> THEN parsed = NoValue ELSE Top.expecting \/ IsBase64Chunk

\* A value is complete: it becomes the root or an item of the innermost list.
Deliver(frames, v) ==
    IF frames = <<>>
      THEN open' = <<>> /\ parsed' = v
      ELSE LET top == frames[Len(frames)]
           IN  /\ open' = [frames EXCEPT ![Len(frames)] =
                             [items |-> Append(top.items, v),
                              expecting |-> FALSE, separated |-> FALSE]]
               /\ UNCHANGED parsed

Take == taken' = taken + 1 /\ UNCHANGED <<tokens, verdict>>

TakeAtom ==
    /\ Ready
    /\ Token.kind \in {"raw", "string"}
    /\ ValueMayCome
    /\ Deliver(open, Atom(Token.kind, Token.atom))
    /\ Take

TakeOpen ==
    /\ Ready
    /\ Token.kind = "open"
    /\ ValueMayCome
    /\ Len(open) < MaxDepth
    /\ open' = Append(open, NewFrame)
    /\ UNCHANGED parsed
    /\ Take

\* Mutant: a comma before the closing bracket leaves no empty slot.
ClosedItemsWithoutSlot == Top.items

\* A comma before the closing bracket leaves an empty slot.
ClosedItems ==
    IF Top.expecting /\ Top.separated THEN Append(Top.items, Slot) ELSE Top.items

TakeClose ==
    /\ Ready
    /\ Token.kind = "close"
    /\ open # <<>>
    /\ Deliver(Outer, AsList(ClosedItems))
    /\ Take

TakeComma ==
    /\ Ready
    /\ Token.kind = "comma"
    /\ open # <<>>
    /\ open' = [open EXCEPT ![Len(open)] =
                  [items |-> IF Top.expecting THEN Append(Top.items, Slot)
                             ELSE Top.items,
                   expecting |-> TRUE, separated |-> TRUE]]
    /\ UNCHANGED parsed
    /\ Take

Accept ==
    /\ verdict = "parsing"
    /\ WithinTokenLimit
    /\ taken = Len(tokens)
    /\ parsed # NoValue
    /\ verdict' = "accepted"
    /\ UNCHANGED <<tokens, taken, open, parsed>>

\* Every other situation is one of the parser's (or the tokenizer's) errors.
TokenAccepted ==
    \/ Token.kind \in {"raw", "string"} /\ ValueMayCome
    \/ Token.kind = "open" /\ ValueMayCome /\ Len(open) < MaxDepth
    \/ Token.kind \in {"close", "comma"} /\ open # <<>>

Reject ==
    /\ verdict = "parsing"
    /\ \/ ~WithinTokenLimit
       \/ taken < Len(tokens) /\ ~TokenAccepted
       \/ taken = Len(tokens) /\ parsed = NoValue
    /\ verdict' = "rejected"
    /\ UNCHANGED <<tokens, taken, open, parsed>>

ParserNext ==
    TakeAtom \/ TakeOpen \/ TakeClose \/ TakeComma \/ Accept \/ Reject

=============================================================================
