-------------------------- MODULE ContainerRoundTrip --------------------------
(***************************************************************************)
(* The writer and the reader of form_bin_container.hpp together: what      *)
(* serialize_container wrote is handed to parse_container.                 *)
(***************************************************************************)
EXTENDS ContainerReader, FiniteSets

CONSTANTS
    HeaderSize, ChunkSize, TocBlockSize,
    Packages    \* sequences of files, a file being the lengths of its documents

\* Headers and chunks are not empty, and a descriptor holds what every
\* descriptor holds.
ASSUME RoundTripAssumption ==
    /\ HeaderSize \in Nat \ {0} /\ ChunkSize \in Nat \ {0} /\ TocBlockSize \in Nat
    /\ Packages \subseteq Seq([descriptor : Nat, payload : Nat])
    /\ \A package \in Packages : \A i \in DOMAIN package :
         package[i].descriptor >= MinDescriptor

Writer == INSTANCE ContainerWriter WITH NoNextBlock <- End

Written == {Writer!Serialize(p, TocOffset, EntrySize) : p \in Packages}

\* The bytes found at the positions the reader collected.
BytesAt(positions) == [k \in DOMAIN positions |-> image.cells[positions[k]]]

\* Only a file that the writer laid out tells what its bytes are.
IsWritten == "cells" \in DOMAIN image

TocFits == image.count * EntrySize <= TocBlockSize

\* The entries fit the TOC block, and the blocks the reader's budget.
Readable == TocFits /\ Cardinality(DOMAIN image.headers) <= MaxVisits

\* A container with room for its files in the TOC block is accepted, unless it
\* has more blocks than the reader may visit; with more files the copied TOC
\* overwrites the descriptor that follows it.  Whatever the reader returns for a
\* written container is what was written: file by file the same bytes at full
\* length, whether a payload fits one block, ends exactly with a block or is
\* spread over several, and although payloads are stored in reverse order.
ReadsWhatWasWritten ==
    IsWritten /\ pc \in {"done", "failed"} =>
        \A package \in Packages :
            image = Writer!Serialize(package, TocOffset, EntrySize) =>
                /\ Readable => pc = "done"
                /\ pc = "done" =>
                     [i \in 1..image.count |-> BytesAt(files[i])]
                       = [i \in DOMAIN package |-> Writer!PayloadBytes(i, package[i].payload)]

=============================================================================
