----------------------------- MODULE MCContainer -----------------------------
(* Every file of eight bytes with a TOC block at 1 and blocks at 3 and 5:   *)
(* chains that end, run into each other, run in circles or leave the file; *)
(* and the packages of up to three files with documents of none to three   *)
(* chunks, as the writer lays them out: its TOC block has room for two.    *)
EXTENDS ContainerRoundTrip, TLC

CONSTANT NoNext

FileSize == 8

Block(o, docs, curs, nexts) == [doc : docs, cur : curs, next : nexts, body : {o + 1}]

TocBlocks == Block(1, 0..2, {2}, {NoNext, 1, 5})
FileBlocks(o) == Block(o, 0..2, {0, 2}, {NoNext, 3, 5, FileSize})

HeaderMaps ==
    {1 :> t @@ 3 :> a @@ 5 :> b : t \in TocBlocks, a \in FileBlocks(3), b \in FileBlocks(5)}
    \cup {1 :> t @@ 3 :> a : t \in TocBlocks, a \in FileBlocks(3)}

Entry1(d, p) == [descriptor |-> d, payload |-> p, marker |-> TRUE, clean |-> TRUE]

EntryLists ==
    {<<>>, <<[Entry1(3, 3) EXCEPT !.marker = FALSE]>>,
     <<[Entry1(3, 3) EXCEPT !.clean = FALSE]>>}
    \cup {<<Entry1(3, 5)>>, <<Entry1(5, 4)>>, <<Entry1(3, 3), Entry1(3, 5)>>}

Image(m, h, e) ==
    [size |-> FileSize, magic |-> m, headers |-> h, count |-> Len(e), entries |-> e]

AnyFiles ==
    {Image(TRUE, h, e) : h \in HeaderMaps, e \in EntryLists}
    \cup {Image(FALSE, h, <<>>) : h \in HeaderMaps}

FileLengths == [descriptor : {1, 3}, payload : 0..5]

MCPackages == UNION {[1..n -> FileLengths] : n \in 0..2}
              \cup {[i \in 1..3 |-> f] : f \in FileLengths}

\* The files to read: any, and those written.
MCImages == AnyFiles \cup Written

=============================================================================
