--------------------------- MODULE ContainerReader ---------------------------
(***************************************************************************)
(* Reading a 1C container: parse_container and read_document of            *)
(* include/oof/storage/form_bin_container.hpp.                             *)
(*                                                                         *)
(* A container is a table of contents (TOC) and, per logical file, a       *)
(* descriptor and a payload.  Each of these documents is a chain of blocks *)
(* whose headers give the size of the document, the size of the block and  *)
(* the offset of the next block.  The file is input: its headers may say   *)
(* anything.  A byte is known by its position in the file, so a document   *)
(* that has been read is a sequence of positions.                          *)
(***************************************************************************)
EXTENDS Integers, Sequences, Functions

CONSTANTS
    Images,         \* the container files to read
    End,            \* container_end_marker: "no next block"
    TocOffset,      \* container_header_size
    EntrySize,      \* bytes of a TOC entry
    MinDescriptor,  \* bytes a file descriptor has at least
    MaxVisits       \* max_container_block_visits

\* What the reader can tell of a file.  headers: the offsets where a well-formed
\* block header starts; magic: the 16-byte container header is valid; clean: the
\* descriptor has no flags and its name is UTF-16.
Headers(size) ==
    [doc : Nat, cur : Nat, next : Nat \cup {End}, body : 0..size]

Entries == [descriptor : Nat, payload : Nat, marker : BOOLEAN, clean : BOOLEAN]

IsImage(f) ==
    /\ f.size \in Nat
    /\ f.magic \in BOOLEAN
    /\ f.headers \in [DOMAIN f.headers -> Headers(f.size)]
    /\ \A o \in DOMAIN f.headers : o \in Nat /\ o < f.size
    /\ f.count \in Nat
    /\ f.entries \in Seq(Entries)
    /\ Len(f.entries) = f.count

ASSUME ContainerAssumption ==
    /\ \A f \in Images : IsImage(f)
    /\ TocOffset \in Nat /\ EntrySize \in Nat \ {0}
    /\ MinDescriptor \in Nat /\ MaxVisits \in Nat
    /\ End \notin Nat

VARIABLES
    image,      \* the file: never changes
    pc,         \* start, open, block, document, done or failed
    current,    \* the document being read: 0 the TOC, 2i-1 and 2i the
                \* descriptor and the payload of entry i
    offset,     \* of the block to read next
    visited,    \* offsets of this document's blocks
    budget,     \* ContainerReadBudget, shared by all documents
    total,      \* declared size of the document
    payload,    \* positions collected for it
    remaining,  \* remaining_bytes of parse_container
    files,      \* the payloads of the logical files read so far
    kept        \* history: bytes held by the documents already read

reading == <<offset, visited, budget, total, payload>>
vars == <<image, pc, current, reading, remaining, files, kept>>

Init ==
    /\ image \in Images
    /\ pc = "start"
    /\ current = 0 /\ offset = 0 /\ visited = {} /\ total = 0 /\ payload = <<>>
    /\ budget = 0 /\ remaining = 0 /\ files = <<>> /\ kept = 0

Fail ==
    /\ pc' = "failed"
    /\ UNCHANGED <<image, current, reading, remaining, files, kept>>

\* read_document is entered: the loop starts at offset o with nothing read.
BeginDocument(o) ==
    /\ pc' = "block"
    /\ offset' = o
    /\ visited' = {}
    /\ total' = 0
    /\ payload' = <<>>

SmallerOf(a, b) == IF a < b THEN a ELSE b

-----------------------------------------------------------------------------
(* parse_container up to the TOC.                                          *)

Start ==
    /\ pc = "start"
    /\ image.magic
    /\ budget' = SmallerOf(image.size, MaxVisits)
    /\ BeginDocument(TocOffset)
    /\ UNCHANGED <<image, current, remaining, files, kept>>

StartFails == pc = "start" /\ ~image.magic /\ Fail

-----------------------------------------------------------------------------
(* read_document: one turn of its loop.                                    *)

Header == image.headers[offset]

DeclaredTotal == IF visited = {} THEN Header.doc ELSE total

CopySize == SmallerOf(Header.cur, DeclaredTotal - Len(payload))

\* The block exists, may still be visited and lies inside the file.
BlockAdmitted ==
    /\ offset < image.size
    /\ budget > 0
    /\ offset \notin visited
    /\ offset \in DOMAIN image.headers

BlockInside == Header.cur <= image.size - Header.body

BlockAccepted ==
    /\ BlockAdmitted
    /\ DeclaredTotal <= image.size
    /\ BlockInside
    /\ IF Header.next = End
         THEN Len(payload) + CopySize >= DeclaredTotal
         ELSE Header.next < image.size

Positions(first, n) == [k \in 1..n |-> first + k - 1]

\* Mutant: neither the budget nor the visited offsets are kept up.
ReadBlockUncounted ==
    /\ pc = "block"
    /\ BlockAccepted
    /\ total' = DeclaredTotal
    /\ payload' = payload \o Positions(Header.body, CopySize)
    /\ IF Header.next = End
         THEN pc' = "document" /\ UNCHANGED offset
         ELSE pc' = "block" /\ offset' = Header.next
    /\ UNCHANGED <<image, current, visited, budget, remaining, files, kept>>

ReadBlock ==
    /\ pc = "block"
    /\ BlockAccepted
    /\ budget' = budget - 1
    /\ visited' = visited \cup {offset}
    /\ total' = DeclaredTotal
    /\ payload' = payload \o Positions(Header.body, CopySize)
    /\ IF Header.next = End
         THEN pc' = "document" /\ UNCHANGED offset
         ELSE pc' = "block" /\ offset' = Header.next
    /\ UNCHANGED <<image, current, remaining, files, kept>>

BlockFails == pc = "block" /\ ~BlockAccepted /\ Fail

-----------------------------------------------------------------------------
(* parse_container between two documents.                                  *)

Entry == (current + 1) \div 2
IsDescriptor == current % 2 = 1

NextDocument ==
    /\ current' = current + 1
    /\ kept' = kept + Len(payload)
    /\ pc' = IF current = 2 * image.count THEN "done" ELSE "open"
    /\ UNCHANGED <<image, reading>>

TocRead ==
    /\ pc = "document" /\ current = 0
    /\ Len(payload) = image.count * EntrySize
    /\ remaining' = image.size - Len(payload)
    /\ NextDocument
    /\ UNCHANGED files

TocFails ==
    /\ pc = "document" /\ current = 0
    /\ Len(payload) # image.count * EntrySize
    /\ Fail

\* The header of the document's first block is read once before the document.
FirstOffset ==
    LET e == image.entries[Entry] IN IF IsDescriptor THEN e.descriptor ELSE e.payload

OpenAccepted ==
    /\ IsDescriptor => image.entries[Entry].marker
    /\ FirstOffset \in DOMAIN image.headers
    /\ image.headers[FirstOffset].doc <= remaining

\* Mutant: every document gets a block budget of its own.
OpenWithNewBudget ==
    /\ pc = "open"
    /\ OpenAccepted
    /\ remaining' = remaining - image.headers[FirstOffset].doc
    /\ budget' = SmallerOf(image.size, MaxVisits)
    /\ BeginDocument(FirstOffset)
    /\ UNCHANGED <<image, current, files, kept>>

OpenDocument ==
    /\ pc = "open"
    /\ OpenAccepted
    /\ remaining' = remaining - image.headers[FirstOffset].doc
    /\ BeginDocument(FirstOffset)
    /\ UNCHANGED <<image, current, budget, files, kept>>

OpenFails == pc = "open" /\ ~OpenAccepted /\ Fail

DescriptorAccepted ==
    Len(payload) >= MinDescriptor /\ image.entries[Entry].clean

DescriptorRead ==
    /\ pc = "document" /\ current > 0 /\ IsDescriptor
    /\ DescriptorAccepted
    /\ NextDocument
    /\ UNCHANGED <<remaining, files>>

DescriptorFails ==
    /\ pc = "document" /\ current > 0 /\ IsDescriptor
    /\ ~DescriptorAccepted
    /\ Fail

PayloadRead ==
    /\ pc = "document" /\ current > 0 /\ ~IsDescriptor
    /\ files' = Append(files, payload)
    /\ NextDocument
    /\ UNCHANGED remaining

Next ==
    \/ Start \/ StartFails
    \/ ReadBlock \/ BlockFails
    \/ TocRead \/ TocFails
    \/ OpenDocument \/ OpenFails
    \/ DescriptorRead \/ DescriptorFails
    \/ PayloadRead

Spec == Init /\ [][Next]_vars

\* A sequential function runs until it returns or throws.
FairSpec == Spec /\ WF_vars(Next)

-----------------------------------------------------------------------------
(* What a container is, said without the reader.                           *)

\* The offsets a chain from o goes through, hop by hop.
Chain(f, o) ==
    LET hop[k \in Nat] ==
          IF k = 0 THEN o
          ELSE IF hop[k - 1] \in DOMAIN f.headers THEN f.headers[hop[k - 1]].next
          ELSE f.size
    IN  hop

\* The chain from o ends after n blocks, all of them inside the file.
ChainEnds(f, o, n) ==
    LET hop == Chain(f, o)
    IN  /\ hop[n] = End
        /\ \A k \in 0..(n - 1) :
             /\ hop[k] \in DOMAIN f.headers
             /\ f.headers[hop[k]].body + f.headers[hop[k]].cur <= f.size

\* A chain without a cycle has no more blocks than there are headers.
IsChain(f, o, most) == \E n \in 1..most : ChainEnds(f, o, n)
Length(f, o, most) == CHOOSE n \in 1..most : ChainEnds(f, o, n)

\* The bytes of the block at o, as positions.
BlockBytes(f, o) ==
    IF o \in DOMAIN f.headers THEN Positions(f.headers[o].body, f.headers[o].cur)
    ELSE <<>>

\* The bytes of the first k blocks.
ChainBytes(f, o) ==
    LET bytes[k \in Nat] ==
          IF k = 0 THEN <<>>
          ELSE bytes[k - 1] \o BlockBytes(f, Chain(f, o)[k - 1])
    IN  bytes

IsDocument(f, o, most) ==
    /\ IsChain(f, o, most)
    /\ f.headers[o].doc <= Len(ChainBytes(f, o)[Length(f, o, most)])

Document(f, o, most) ==
    SubSeq(ChainBytes(f, o)[Length(f, o, most)], 1, f.headers[o].doc)

\* Offset of the d-th document, the TOC being the 0th.
DocumentAt(f, d) ==
    IF d = 0 THEN TocOffset
    ELSE LET e == f.entries[(d + 1) \div 2]
         IN  IF d % 2 = 1 THEN e.descriptor ELSE e.payload

\* What each document declares to hold, and the blocks it has.
Declared(f) == [d \in 0..(2 * f.count) |-> f.headers[DocumentAt(f, d)].doc]
Blocks(f, most) == [d \in 0..(2 * f.count) |-> Length(f, DocumentAt(f, d), most)]

WellFormed(f, most) ==
    /\ f.magic
    /\ \A d \in 0..(2 * f.count) : IsDocument(f, DocumentAt(f, d), most)
    /\ f.headers[TocOffset].doc = f.count * EntrySize
    /\ \A i \in 1..f.count :
         /\ f.entries[i].marker /\ f.entries[i].clean
         /\ f.headers[f.entries[i].descriptor].doc >= MinDescriptor
    /\ SumFunction(Declared(f)) <= f.size
    /\ SumFunction(Blocks(f, most)) <= SmallerOf(f.size, MaxVisits)

MostBlocks == image.size

-----------------------------------------------------------------------------
(* Properties.                                                             *)

HeldNow == kept + (IF pc \in {"block", "document"} THEN Len(payload) ELSE 0)

\* A file is accepted exactly when it is a container: every chain ends, stays in
\* the file and holds what it declares, the documents together fit the file, and
\* all the blocks together fit the one traversal budget.  What is then returned
\* for a logical file is the first `document size' bytes of its chain, in the
\* order of the chain and without the padding of its blocks.  And however the
\* blocks of the documents overlap, parse_container never holds more bytes than
\* the file has (the remaining_bytes account).
ReadingIsRight ==
    /\ HeldNow <= image.size
    /\ pc = "failed" => ~WellFormed(image, MostBlocks)
    /\ pc = "done" =>
         /\ WellFormed(image, MostBlocks)
         /\ files = [i \in 1..image.count |->
                       Document(image, image.entries[i].payload, MostBlocks)]

\* No input keeps the reader busy for ever.
ReaderEnds == <>(pc \in {"done", "failed"})

=============================================================================
