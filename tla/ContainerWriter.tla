--------------------------- MODULE ContainerWriter ---------------------------
(***************************************************************************)
(* Writing a 1C container: serialize_container, append_document and        *)
(* append_block of include/oof/storage/form_bin_container.hpp.             *)
(*                                                                         *)
(* The data being written is known by its size, the block headers at their *)
(* offsets and, per position, the byte of a document that was put there.   *)
(***************************************************************************)
EXTENDS Integers, SequencesExt

CONSTANTS
    HeaderSize,     \* bytes block_header formats
    ChunkSize,      \* container_document_block_size
    TocBlockSize,   \* container_toc_block_size
    NoNextBlock     \* container_end_marker

Larger(a, b) == IF a > b THEN a ELSE b
Smaller(a, b) == IF a < b THEN a ELSE b

\* Padding bytes and the bytes of headers are of no document.
Filler == <<"filler", 0, 0>>

\* append_block: a header, the bytes, and zeros up to the block size.  Document
\* size 0 stands for the size of this block's own bytes.
AppendBlock(data, bytes, minSize, documentSize, next) ==
    LET cur == Larger(minSize, Len(bytes))
        header ==
          [doc |-> IF documentSize = 0 THEN Len(bytes) ELSE documentSize,
           cur |-> cur, next |-> next, body |-> data.size + HeaderSize]
        start == header.body
    IN  [size |-> start + cur,
         headers |-> [o \in DOMAIN data.headers \cup {data.size} |->
                        IF o = data.size THEN header ELSE data.headers[o]],
         cells |-> [p \in 0..(start + cur - 1) |->
                      IF p < data.size THEN data.cells[p]
                      ELSE IF p < start \/ p - start >= Len(bytes) THEN Filler
                      ELSE bytes[p - start + 1]]]

\* The number of chunks of append_document, and the bytes of the k-th.
Chunks(bytes) == (Len(bytes) + ChunkSize - 1) \div ChunkSize
Chunk(bytes, k) ==
    SubSeq(bytes, (k - 1) * ChunkSize + 1, Smaller(k * ChunkSize, Len(bytes)))

\* Mutant: the chunks after the first are looked for one header too early.
ChunkOffsetNoHeader(first, k) == first + (k - 1) * ChunkSize

\* Where the k-th chunk's header goes: all chunks before it are full.
ChunkOffset(first, k) == first + (k - 1) * (HeaderSize + ChunkSize)

\* append_document without a minimal block size, as serialize_container calls it.
AppendDocument(data, bytes) ==
    IF Len(bytes) <= ChunkSize
      THEN AppendBlock(data, bytes, 0, 0, NoNextBlock)
      ELSE LET n == Chunks(bytes)
               written[k \in 0..n] ==
                 IF k = 0 THEN data
                 ELSE AppendBlock(written[k - 1], Chunk(bytes, k), 0,
                                  IF k = 1 THEN Len(bytes) ELSE 0,
                                  IF k = n THEN NoNextBlock ELSE ChunkOffset(data.size, k + 1))
           IN  written[n]

\* The data when so many of the documents have been appended.
Appended(data, documents) ==
    LET written[k \in 0..Len(documents)] ==
          IF k = 0 THEN data ELSE AppendDocument(written[k - 1], documents[k])
    IN  written

\* The container header, then the TOC block: its declared size follows from the
\* number of files, its own size is fixed.
EmptyContainer(headerSize, tocBytes) ==
    [size |-> headerSize + HeaderSize + TocBlockSize,
     headers |-> [o \in {headerSize} |->
                    [doc |-> tocBytes, cur |-> TocBlockSize, next |-> NoNextBlock,
                     body |-> headerSize + HeaderSize]],
     cells |-> [p \in 0..(headerSize + HeaderSize + TocBlockSize - 1) |-> Filler]]

\* The bytes of the i-th file's descriptor and payload, each told apart.
DescriptorBytes(i, n) == [k \in 1..n |-> <<"descriptor", i, k>>]
PayloadBytes(i, n) == [k \in 1..n |-> <<"payload", i, k>>]

\* All descriptors in order, then the payloads from the last file to the first.
\* A file is given by the lengths of its two documents.
Documents(files) ==
    [i \in DOMAIN files |-> DescriptorBytes(i, files[i].descriptor)]
    \o Reverse([i \in DOMAIN files |-> PayloadBytes(i, files[i].payload)])

\* serialize_container.  Copying the TOC over the reserved block overwrites what
\* follows it when the entries need more room: the headers it covers are no
\* longer headers.
Serialize(files, headerSize, entrySize) ==
    LET n == Len(files)
        tocBytes == n * entrySize
        written == Appended(EmptyContainer(headerSize, tocBytes), Documents(files))
        data == written[2 * n]
        tocEnd == headerSize + HeaderSize + tocBytes
        intact == {o \in DOMAIN data.headers : o = headerSize \/ o >= tocEnd}
    IN  [size |-> data.size,
         magic |-> TRUE,
         headers |-> [o \in intact |-> data.headers[o]],
         count |-> n,
         entries |-> [i \in 1..n |->
                        [descriptor |-> written[i - 1].size,
                         payload |-> written[2 * n - i].size,
                         marker |-> TRUE, clean |-> TRUE]],
         cells |-> data.cells]

=============================================================================
