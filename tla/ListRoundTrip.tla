---------------------------- MODULE ListRoundTrip ----------------------------
(***************************************************************************)
(* The way of a value through the list stream: a writer's calls build it   *)
(* (ListOutStream), it is dumped to text, the text is tokenized and parsed *)
(* (ListParser), and a reader makes the mirrored calls on what was parsed  *)
(* (ListInStream).  All of include/oof/storage/list_stream.hpp.            *)
(***************************************************************************)
EXTENDS ListText, ListParser

CONSTANTS
    Atoms,      \* the atoms a writer may write, raw and string ones
    MaxCalls    \* bound: calls of one writer

ASSUME RoundTripAssumption ==
    /\ NoAtom = Empty /\ Base64Atom = Base64
    /\ MaxCalls \in Nat

VARIABLES
    phase,      \* "write", "parse", "read" or "over"
    style,      \* the dump used: "compact" or "listout"
    calls,      \* history: what the writer called, in order
    building,   \* ListOutStream::stack_, items of the open lists
    root,       \* ListOutStream::root_, NoValue until root_ready_
    frames,     \* ListInStream::stack_: [value, index] of the lists being read
    consumed,   \* ListInStream::root_consumed_
    made,       \* calls the reader has made
    surprise    \* a reader's call threw or returned something else

writer == <<calls, building, root>>
reader == <<frames, consumed, made, surprise>>
listVars == <<phase, style, writer, reader, parserVars>>

ListInit ==
    /\ phase = "write"
    /\ style \in {"compact", "listout"}
    /\ calls = <<>> /\ building = <<>> /\ root = NoValue
    /\ frames = <<>> /\ consumed = FALSE /\ made = 0 /\ surprise = FALSE
    /\ ParserInit(<<>>)

-----------------------------------------------------------------------------
(* ListOutStream.  Its client writes one root value and closes every list. *)

Writing ==
    /\ phase = "write"
    /\ root = NoValue
    /\ Len(calls) < MaxCalls

Called(c) == calls' = Append(calls, c)

BeginCall == [call |-> "begin", atom |-> Slot]
EndCall == [call |-> "end", atom |-> Slot]
WriteCall(a) == [call |-> "write", atom |-> a]

\* append: into the innermost open list, or as the root.
Emit(stack, v) ==
    IF stack = <<>>
      THEN root' = v /\ building' = <<>>
      ELSE /\ building' = [stack EXCEPT ![Len(stack)] = Append(@, v)]
           /\ UNCHANGED root

BeginList ==
    /\ Writing
    /\ building' = Append(building, <<>>)
    /\ Called(BeginCall)
    /\ UNCHANGED <<phase, style, root, reader, parserVars>>

EndList ==
    /\ Writing
    /\ building # <<>>
    /\ Emit(SubSeq(building, 1, Len(building) - 1), ListOf(building[Len(building)]))
    /\ Called(EndCall)
    /\ UNCHANGED <<phase, style, reader, parserVars>>

WriteAtom(a) ==
    /\ Writing
    /\ Emit(building, a)
    /\ Called(WriteCall(a))
    /\ UNCHANGED <<phase, style, reader, parserVars>>

\* root() is given out once the stream is closed, and dumped.
Dumped(v) == IF style = "compact" THEN DumpCompact(v) ELSE DumpListOut(v)

StartParsing ==
    /\ phase = "write"
    /\ root # NoValue
    /\ building = <<>>
    /\ tokens' = Tokens(Dumped(root))
    /\ phase' = "parse"
    /\ UNCHANGED <<style, writer, reader, taken, open, parsed, verdict>>

-----------------------------------------------------------------------------
(* ListParser, then ListInStream over the parsed value.                    *)

Parsing ==
    /\ phase = "parse"
    /\ ParserNext
    /\ phase' = IF verdict' = "parsing" THEN "parse"
                ELSE IF verdict' = "accepted" THEN "read" ELSE "over"
    /\ UNCHANGED <<style, writer, reader>>

\* peek_value: what the next call would take.
InnerFrame == frames[Len(frames)]
HasNext ==
    IF frames = <<>> THEN ~consumed
    ELSE InnerFrame.index < Len(InnerFrame.value.items)
Peeked ==
    IF frames = <<>> THEN parsed ELSE InnerFrame.value.items[InnerFrame.index + 1]

\* Mutant: take_value stays where it is.
AdvancedNot == frames

\* take_value moves on before the type of the value is looked at.
Advanced ==
    IF frames = <<>> THEN frames ELSE [frames EXCEPT ![Len(frames)].index = @ + 1]

ReadCall == calls[made + 1]

Reading == phase = "read" /\ made < Len(calls) /\ ~surprise

ReadValue ==
    /\ Reading
    /\ ReadCall.call \in {"begin", "write"}
    /\ made' = made + 1
    /\ IF HasNext
         THEN /\ consumed' = TRUE
              /\ LET v == Peeked
                     wanted == IF ReadCall.call = "begin" THEN v.list
                               ELSE v = ReadCall.atom
                 IN  /\ surprise' = ~wanted
                     /\ frames' = IF wanted /\ v.list
                                    THEN Append(Advanced, [value |-> v, index |-> 0])
                                    ELSE Advanced
         ELSE /\ surprise' = TRUE
              /\ UNCHANGED <<frames, consumed>>
    /\ UNCHANGED <<phase, style, writer, parserVars>>

\* end_list refuses to leave a list with unread items.
ReadEnd ==
    /\ Reading
    /\ ReadCall.call = "end"
    /\ made' = made + 1
    /\ IF frames # <<>> /\ InnerFrame.index = Len(InnerFrame.value.items)
         THEN frames' = SubSeq(frames, 1, Len(frames) - 1) /\ UNCHANGED surprise
         ELSE surprise' = TRUE /\ UNCHANGED frames
    /\ UNCHANGED <<phase, style, writer, consumed, parserVars>>

ReadOver ==
    /\ phase = "read"
    /\ made = Len(calls) \/ surprise
    /\ phase' = "over"
    /\ UNCHANGED <<style, writer, reader, parserVars>>

ListNext ==
    \/ BeginList \/ EndList \/ \E a \in Atoms : WriteAtom(a)
    \/ StartParsing
    \/ Parsing
    \/ ReadValue \/ ReadEnd \/ ReadOver

ListSpec == ListInit /\ [][ListNext]_listVars

-----------------------------------------------------------------------------
(* Properties.                                                             *)

RECURSIVE Sublists(_), Depth(_)
Sublists(v) ==
    IF v.list THEN {v} \cup UNION {Sublists(v.items[i]) : i \in DOMAIN v.items} ELSE {}
Depth(v) ==
    IF ~v.list THEN 0
    ELSE LET deepest == {Depth(v.items[i]) : i \in DOMAIN v.items} \cup {0}
         IN  1 + (CHOOSE d \in deepest : \A e \in deepest : e <= d)

\* In a base64 list atoms stand side by side without a comma: they can be told
\* apart when both are raw, neither is empty and the list starts with a raw atom.
ChunksTellApart(v) ==
    \A i \in 2..Len(v.items) :
        (~v.items[i].list /\ ~v.items[i - 1].list) =>
            /\ v.items[1].kind = "raw"
            /\ v.items[i].kind = "raw" /\ v.items[i].atom # Empty
            /\ v.items[i - 1].kind = "raw" /\ v.items[i - 1].atom # Empty

\* What a text can say at all: a list with one empty slot is written as an empty
\* list, and an empty root as no text; and the parser has its limits.
Sayable(v) ==
    /\ v # RawAtom(Empty)
    /\ \A l \in Sublists(v) : l.items # <<RawAtom(Empty)>>
    /\ Depth(v) <= MaxDepth
    /\ Len(Tokens(Dumped(v))) <= MaxTokens

Faithful(v) ==
    /\ Sayable(v)
    /\ style = "listout" =>
         \A l \in Sublists(v) : IsBase64List(l) => ChunksTellApart(l)

\* The parser gets back exactly the value that was dumped in all cases but these:
\* a value over the depth and token limits, an empty slot alone in its list, and,
\* with dump_listout, a base64 list whose atoms cannot be told apart by the white
\* space between them.  In those it never does.
ParsedIsDumped ==
    phase \in {"read", "over"} =>
        (Faithful(root) <=> verdict = "accepted" /\ parsed = root)

\* A reader that makes the writer's calls in the writer's order is never
\* surprised by a faithfully dumped value and leaves nothing unread.
ReaderMirrorsWriter ==
    (phase = "over" /\ Faithful(root)) =>
        ~surprise /\ frames = <<>> /\ consumed

=============================================================================
