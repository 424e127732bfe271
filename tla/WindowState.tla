------------------------------ MODULE WindowState ------------------------------
(***************************************************************************)
(* The window properties of a form document: the state of its window,      *)
(* whether other windows may be joined to it, and the five permissions     *)
(* that exist only at run time.  get_prop_val, set_prop_val, set_form and  *)
(* mark_opening_started of src/model/ordinary_form.cpp.                    *)
(*                                                                         *)
(* The permissions are computed from the stored state until something is   *)
(* assigned; the first assignment freezes all five.  An assignment that    *)
(* breaks a rule is kept, and reported.                                    *)
(***************************************************************************)
EXTENDS Naturals

CONSTANTS Normal, Docked, Autohide, Float,      \* WindowStateVariant
          Join                                  \* AllowJoinWindow

States == {Normal, Docked, Autohide, Float}

\* AllowNormalState and the like are named by their states.
Permissions == States \cup {Join}

ASSUME WindowAssumption ==
    \A x, y \in {<<1, Normal>>, <<2, Docked>>, <<3, Autohide>>, <<4, Float>>, <<5, Join>>} :
        x[2] = y[2] => x[1] = y[1]

VARIABLES
    state,          \* WindowState, Normal when it is not stored
    connectable,    \* ConnectableWindow, FALSE when it is not stored
    permissions,    \* window_permissions_: permission |-> value, or empty
    opened,         \* opening_started_
    status,         \* what the last assignment returned
    reported        \* history: since the form was set, an assignment broke a rule
                    \* or the form did

vars == <<state, connectable, permissions, opened, status, reported>>

Empty == [p \in {} |-> FALSE]
Side == {Docked, Autohide}

Statuses == {"none", "applied", "applied_runtime_only",
             "forbidden_after_opening_started",
             "window_state_disallowed_after_assignment",
             "window_join_disallowed_after_assignment",
             "window_requires_connectable_after_assignment"}

TypeOK ==
    /\ state \in States
    /\ connectable \in BOOLEAN
    /\ permissions \in {Empty} \cup [Permissions -> BOOLEAN]
    /\ opened \in BOOLEAN
    /\ status \in Statuses
    /\ reported \in BOOLEAN

-----------------------------------------------------------------------------
(* Reading.                                                                *)

\* What get_prop_val computes for ConnectableWindow.
Connectable == connectable \/ (opened /\ state \in Side)

\* What it computes for a permission nothing was assigned to.
Computed(p) == p = Normal \/ state # Normal \/ (p = Join /\ Connectable)

Permission(p) == IF permissions = Empty THEN Computed(p) ELSE permissions[p]

-----------------------------------------------------------------------------
(* Assigning.                                                              *)

\* The form a document is given: any stored state.
SetForm ==
    /\ state' \in States
    /\ connectable' \in BOOLEAN
    /\ permissions' = Empty
    /\ reported' = (state' \in Side /\ ~connectable')
    /\ UNCHANGED <<opened, status>>

Init ==
    /\ state \in States
    /\ connectable \in BOOLEAN
    /\ permissions = Empty
    /\ opened = FALSE
    /\ status = "none"
    /\ reported = (state \in Side /\ ~connectable)

\* Mutant: the permission to join is left out.
FrozenStates == [p \in States |-> Permission(p)]

\* Mutant: the permissions are fixed from the state after the assignment.
FrozenLate == [p \in Permissions |->
    IF permissions # Empty THEN permissions[p]
    ELSE p = Normal \/ state' # Normal \/ (p = Join /\ connectable')]

Frozen == [p \in Permissions |-> Permission(p)]

\* Mutant: an allowed state is not looked at again when its permission goes.
RuleOnlyAtState(what, s, c, allowed) ==
    IF what = "state" /\ ~allowed[s]
      THEN "window_state_disallowed_after_assignment"
    ELSE IF what \in {"connectable", "join"} /\ c /\ ~allowed[Join]
      THEN "window_join_disallowed_after_assignment"
    ELSE IF what \in {"state", "connectable"} /\ s \in Side /\ ~c
      THEN "window_requires_connectable_after_assignment"
    ELSE IF what \in {"permission", "join"} THEN "applied_runtime_only" ELSE "applied"

\* The rules, each looked at only after an assignment that may break it.
Rule(what, s, c, allowed) ==
    IF what \in {"state", "permission"} /\ ~allowed[s]
      THEN "window_state_disallowed_after_assignment"
    ELSE IF what \in {"connectable", "join"} /\ c /\ ~allowed[Join]
      THEN "window_join_disallowed_after_assignment"
    ELSE IF what \in {"state", "connectable"} /\ s \in Side /\ ~c
      THEN "window_requires_connectable_after_assignment"
    ELSE IF what \in {"permission", "join"} THEN "applied_runtime_only" ELSE "applied"

Report(what) ==
    /\ status' = Rule(what, state', connectable', permissions')
    /\ reported' = (reported \/ status' \notin {"applied", "applied_runtime_only"})

SetState(s) ==
    /\ ~opened
    /\ state' = s
    /\ UNCHANGED <<connectable, opened>>
    /\ permissions' = Frozen
    /\ Report("state")

SetConnectable(c) ==
    /\ ~opened
    /\ connectable' = c
    /\ UNCHANGED <<state, opened>>
    /\ permissions' = Frozen
    /\ Report("connectable")

SetPermission(p, v) ==
    /\ ~opened
    /\ UNCHANGED <<state, connectable, opened>>
    /\ permissions' = [Frozen EXCEPT ![p] = v]
    /\ Report(IF p = Join THEN "join" ELSE "permission")

\* Any assignment once the window is being opened.
Forbidden ==
    /\ opened
    /\ status' = "forbidden_after_opening_started"
    /\ UNCHANGED <<state, connectable, permissions, opened, reported>>

MarkOpeningStarted ==
    /\ opened' = TRUE
    /\ UNCHANGED <<state, connectable, permissions, status, reported>>

Next ==
    \/ \E s \in States : SetState(s)
    \/ \E c \in BOOLEAN : SetConnectable(c)
    \/ \E p \in Permissions, v \in BOOLEAN : SetPermission(p, v)
    \/ Forbidden \/ MarkOpeningStarted \/ SetForm

Spec == Init /\ [][Next]_vars

-----------------------------------------------------------------------------
(* What the properties promise.                                            *)

\* The rules are looked at one by one after single assignments, and still: a
\* window none of whose assignments was reported obeys them all together.  Its
\* state is permitted, it is connectable only if joining is allowed, and a
\* docked or hidden window is connectable.
UnreportedIsConsistent ==
    ~reported =>
        /\ Permission(state)
        /\ connectable => Permission(Join)
        /\ state \in Side => connectable

\* An assignment changes what is read of the property it names and of no other,
\* although the first one replaces five computed permissions by stored ones.
AssignmentIsLocal ==
    [][~opened /\ ~opened' /\ ~SetForm =>
         \/ \A p \in Permissions : Permission(p)' = Permission(p)
         \/ /\ state' = state /\ connectable' = connectable
            /\ \E q \in Permissions : \A p \in Permissions \ {q} :
                  Permission(p)' = Permission(p)]_vars

=============================================================================
