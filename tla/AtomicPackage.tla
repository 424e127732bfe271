---------------------------- MODULE AtomicPackage ----------------------------
(***************************************************************************)
(* What the package writer promises, run after run: the files of a package *)
(* are replaced together or not at all.  `package' is what a user can      *)
(* still get back, from the outputs or from the backups of the last run.   *)
(***************************************************************************)
CONSTANTS
    Files,      \* the files of the package
    Values,     \* what a file can hold, "no file" included
    Missing     \* "no file"

VARIABLES
    wanted,     \* file |-> what the run is to put there
    package,    \* file |-> what is there
    outcome     \* how the run ended, or "pending"

vars == <<wanted, package, outcome>>

Outcomes == {"pending", "installed", "rejected", "broken", "killed"}

TypeOK ==
    /\ wanted \in [Files -> Values]
    /\ package \in [Files -> Values]
    /\ outcome \in Outcomes

Init ==
    /\ wanted \in [Files -> Values]
    /\ package \in [Files -> Values]
    /\ outcome = "pending"

Install ==
    /\ outcome = "pending"
    /\ package' = wanted
    /\ outcome' = "installed"
    /\ UNCHANGED wanted

GiveUp ==
    /\ outcome = "pending"
    /\ outcome' \in {"rejected", "broken", "killed"}
    /\ UNCHANGED <<wanted, package>>

\* A new run does not look at the backups of the last one.  It finds the package
\* as that run left it, unless it was killed or broken: then each file is the old
\* one, the new one, or no file at all.
NextRun ==
    /\ outcome # "pending"
    /\ outcome' = "pending"
    /\ wanted' \in [Files -> Values]
    /\ IF outcome \in {"killed", "broken"}
         THEN /\ package' \in [Files -> Values]
              /\ \A f \in Files : package'[f] \in {package[f], wanted[f], Missing}
         ELSE package' = package

Next == Install \/ GiveUp \/ NextRun

Spec == Init /\ [][Next]_vars

=============================================================================
