--------------------------- MODULE MCDocumentState ---------------------------
(* What a document keeps beside its form: the state of its window; the     *)
(* selected dates of a calendar field, over four consecutive days and two  *)
(* times of day (a span can be cut at its start, at its end and inside,    *)
(* and two spans can have a gap of a day); and the value lists bound to    *)
(* its attributes: two lists of up to two rows that are replaced at will,  *)
(* shown by one list box, or lists of one row that never changes its       *)
(* contents, shared by two documents with two list boxes of two            *)
(* attributes.  The three have no state in common: while one is worked on  *)
(* the others stay at their start.                                         *)
EXTENDS WindowState, CalendarSelection, ValueListIdentity, TLC

CONSTANTS l1, l2, k1, k2, p1, p2, a1, a2, b1, b2

MCDays == 1..4

TwoBoxes == (b1 :> a1) @@ (b2 :> a2)

Symmetry == Permutations({l1, l2}) \cup Permutations({k1, k2})
              \cup Permutations({p1, p2})

NoWindowYet ==
    /\ state = Normal /\ ~connectable /\ permissions = Empty
    /\ ~opened /\ status = "none" /\ ~reported

NoCalendarYet == mode = "Single" /\ calendar = NoState

NoListsYet ==
    /\ identity = <<>>
    /\ \A l \in Lists : items[l] = <<>>
    /\ \A d \in Documents : bound[d] = NothingBound

RowsSeen ==
    {[id |-> identity[i].id, payload |-> identity[i].payload] : i \in Made}
    \cup UNION {ToSet(items[l]) : l \in Lists}

OneRowOnly == Cardinality(RowsSeen) <= 1

OneBoxOnly ==
    /\ \A d \in Documents \ {FirstDocument} : bound[d] = NothingBound /\ row[d] = NoRow
    /\ bound[FirstDocument][a2] = None
    /\ b2 \notin DOMAIN row[FirstDocument]

MCInit ==
    /\ Init /\ CalendarInit /\ ListsInit
    /\ \/ NoCalendarYet /\ NoListsYet
       \/ NoWindowYet /\ (NoCalendarYet \/ NoListsYet)

MCNext ==
    \/ NoCalendarYet /\ NoListsYet /\ Next /\ UNCHANGED <<calendarVars, listsVars>>
    \/ NoWindowYet /\ NoListsYet /\ CalendarNext /\ UNCHANGED <<vars, listsVars>>
    \/ NoWindowYet /\ NoCalendarYet /\ ListsNext /\ (OneRowOnly \/ OneBoxOnly)'
          /\ UNCHANGED <<vars, calendarVars>>

MCSpec == MCInit /\ [][MCNext]_<<vars, calendarVars, listsVars>>
=============================================================================
