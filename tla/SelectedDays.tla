---------------------------- MODULE SelectedDays ----------------------------
(***************************************************************************)
(* What the selection of a calendar field promises: a set of days, one at  *)
(* most in mode Single, a gapless one in mode Interval.                    *)
(***************************************************************************)
EXTENDS Integers

CONSTANT Days

VARIABLES
    mode,       \* Single, Multiple or Interval
    selected    \* the selected days

vars == <<mode, selected>>

Modes == {"Single", "Multiple", "Interval"}

Hull(s) == {d \in Days : \E a, b \in s : a <= d /\ d <= b}

Init == mode \in Modes /\ selected = {}

\* A form is loaded, a calendar is set up, or its current date is set.
Restart ==
    /\ mode' \in Modes
    /\ selected' \in {{}} \cup {{d} : d \in Days}

Add(d) ==
    /\ selected' = CASE mode = "Single" -> {d}
                     [] mode = "Multiple" -> selected \cup {d}
                     [] OTHER -> Hull(selected \cup {d})
    /\ UNCHANGED mode

\* In an interval what comes after a deleted day goes with it.
Delete(d) ==
    /\ selected' = IF d \notin selected THEN selected
                   ELSE IF mode = "Interval" THEN {x \in selected : x < d}
                   ELSE selected \ {d}
    /\ UNCHANGED mode

Change(m) ==
    /\ mode' = m
    /\ IF m = mode THEN UNCHANGED selected
       ELSE CASE m = "Multiple" -> UNCHANGED selected
              [] m = "Interval" -> selected' = Hull(selected)
              [] OTHER -> IF selected = {} THEN UNCHANGED selected
                          ELSE \E d \in selected : selected' = {d}

Next ==
    \/ Restart
    \/ \E d \in Days : Add(d) \/ Delete(d)
    \/ \E m \in Modes : Change(m)

Spec == Init /\ [][Next]_vars

=============================================================================
