-------------------------- MODULE OutputTransaction --------------------------
(***************************************************************************)
(* The package writer of the CLI: write_file_set and write_staged_file of  *)
(* src/cli/main.cpp.  A run of the program has N pending writes; every one *)
(* is staged in a temporary file beside its output, then all are installed *)
(* in order, each after moving the previous output to a backup file.  A    *)
(* handled error rolls the installed ones back in reverse order.           *)
(*                                                                         *)
(* One action per system call, so that the process may be killed between   *)
(* any two of them, and so that every call may fail.  A killed or ended    *)
(* program may be started again on the disk it left behind.                *)
(***************************************************************************)
EXTENDS Naturals

CONSTANTS
    N,          \* number of pending writes of a run
    Files,      \* the files that output paths resolve to
    Absent,     \* "no file here"
    Scrap,      \* a temporary file with nothing of value in it
    MaxRuns     \* bound: how many times the program is started

Writes == 1..N

\* What a file can hold: the contents f had before any run, or the bytes the
\* i-th write of run r stages.
Original(f) == <<0, f>>
Bytes(r, i) == <<r, i>>
Contents == {Original(f) : f \in Files} \cup ((1..MaxRuns) \X Writes)

ASSUME OutputAssumption ==
    /\ N \in Nat
    /\ MaxRuns \in Nat \ {0}
    /\ Absent \notin Contents \cup {Scrap}
    /\ Scrap \notin Contents

Disk == Contents \cup {Absent, Scrap}

VARIABLES
    run,            \* the number of this run
    target,         \* write |-> the file its output path resolves to
    refused,        \* files check_output_file rejects (link, read-only, ...)
    out,            \* file |-> contents found at its path
    stagedFile,     \* write |-> contents of its .oof-stage file
    backupFile,     \* write |-> contents of its .oof-backup file
    orphans,        \* contents of temporary files earlier runs left behind
    staged, backup, backedUp, installed,    \* the fields of PendingWrite
    alive,          \* the process has not been killed
    pc,             \* the call the program makes next
    w,              \* the pending write it is about
    failing,        \* inside the catch block of write_file_set
    rollbackFailure,
    cleanupFailure,
    deletionFailed, \* history: some removal of a temporary file failed
    exit,           \* how the run ended
    before          \* history: out when the run started

disk == <<out, stagedFile, backupFile, orphans>>
pending == <<staged, backup, backedUp, installed>>
errors == <<failing, rollbackFailure, cleanupFailure>>
setup == <<run, target, refused, before>>
vars == <<setup, disk, pending, errors, deletionFailed, alive, pc, w, exit>>

Steps == {"check", "stage", "stage_write", "install", "backup", "backup_close",
          "backup_move", "move", "chmod", "undo_remove", "undo_rename",
          "clean_staged", "clean_backup", "exited"}

Exits == {"none", "ok", "refused", "failed", "failed_cleanup_incomplete",
          "rollback_incomplete", "installed_cleanup_incomplete"}

TypeOK ==
    /\ run \in 1..MaxRuns
    /\ target \in [Writes -> Files]
    /\ refused \subseteq Files
    /\ out \in [Files -> Contents \cup {Absent}]
    /\ stagedFile \in [Writes -> Disk]
    /\ backupFile \in [Writes -> Disk]
    /\ orphans \subseteq Contents
    /\ staged \in [Writes -> BOOLEAN]
    /\ backup \in [Writes -> BOOLEAN]
    /\ backedUp \in [Writes -> BOOLEAN]
    /\ installed \in [Writes -> BOOLEAN]
    /\ alive \in BOOLEAN
    /\ pc \in Steps
    /\ w \in 0..(N + 1)
    /\ failing \in BOOLEAN
    /\ rollbackFailure \in BOOLEAN
    /\ cleanupFailure \in BOOLEAN
    /\ deletionFailed \in BOOLEAN
    /\ exit \in Exits
    /\ before \in [Files -> Contents \cup {Absent}]

\* A run starts with no pending write staged and nothing remembered.
NoFile == [i \in Writes |-> Absent]
NoFlag == [i \in Writes |-> FALSE]

Idle ==
    /\ stagedFile = NoFile /\ backupFile = NoFile
    /\ staged = NoFlag /\ backup = NoFlag
    /\ backedUp = NoFlag /\ installed = NoFlag
    /\ alive = TRUE /\ pc = "check" /\ w = 1 /\ exit = "none"
    /\ failing = FALSE /\ rollbackFailure = FALSE /\ cleanupFailure = FALSE
    /\ deletionFailed = FALSE

Init ==
    /\ run = 1
    /\ target \in [Writes -> Files]
    /\ \E existing \in SUBSET Files :
         /\ out = [f \in Files |-> IF f \in existing THEN Original(f) ELSE Absent]
         /\ refused \in SUBSET existing
    /\ orphans = {}
    /\ before = out
    /\ Idle

-----------------------------------------------------------------------------
(* The preflight loop: nothing is written before it has passed.            *)

Exit(how) == pc' = "exited" /\ exit' = how

Duplicate(i) == \E j \in 1..(i - 1) : target[j] = target[i]

\* check_output_file or the duplicate test throws, outside the try block.
CheckRefuses ==
    /\ pc = "check" /\ w <= N
    /\ target[w] \in refused \/ Duplicate(w)
    /\ Exit("refused")
    /\ UNCHANGED <<setup, disk, pending, errors, deletionFailed, w>>

CheckPasses ==
    /\ pc = "check"
    /\ IF w <= N
         THEN /\ target[w] \notin refused
              /\ ~Duplicate(w)
              /\ w' = w + 1
              /\ pc' = pc
         ELSE w' = 1 /\ pc' = "stage"
    /\ UNCHANGED <<setup, disk, pending, errors, deletionFailed, exit>>

-----------------------------------------------------------------------------
(* The catch block starts: rollback from the last write to the first.      *)

\* Mutant: the write that failed is not rolled back, only those before it.
ThrowAtPrevious ==
    /\ pc' = "undo_remove"
    /\ w' = w - 1
    /\ failing' = TRUE
    /\ UNCHANGED <<rollbackFailure, cleanupFailure>>

\* Mutant: the error path only cleans up.
ThrowWithoutRollback ==
    /\ pc' = "clean_staged"
    /\ w' = 1
    /\ failing' = TRUE
    /\ UNCHANGED <<rollbackFailure, cleanupFailure>>

Throw ==
    /\ pc' = "undo_remove"
    /\ w' = N
    /\ failing' = TRUE
    /\ UNCHANGED <<rollbackFailure, cleanupFailure>>

-----------------------------------------------------------------------------
(* Staging: create_directories, mkstemp, then the write loop and close.    *)

StageCreate ==
    /\ pc = "stage" /\ w <= N
    /\ stagedFile' = [stagedFile EXCEPT ![w] = Scrap]
    /\ pc' = "stage_write"
    /\ UNCHANGED <<setup, out, backupFile, orphans, pending, errors,
                   deletionFailed, w, exit>>

\* Mutant: a short write is taken for a complete one.
StageShortWrite ==
    /\ pc = "stage_write"
    /\ staged' = [staged EXCEPT ![w] = TRUE]
    /\ pc' = "stage"
    /\ w' = w + 1
    /\ UNCHANGED <<setup, disk, backup, backedUp, installed, errors,
                   deletionFailed, exit>>

StageWrite ==
    /\ pc = "stage_write"
    /\ stagedFile' = [stagedFile EXCEPT ![w] = Bytes(run, w)]
    /\ staged' = [staged EXCEPT ![w] = TRUE]
    /\ pc' = "stage"
    /\ w' = w + 1
    /\ UNCHANGED <<setup, out, backupFile, orphans, backup, backedUp, installed,
                   errors, deletionFailed, exit>>

StageDone ==
    /\ pc = "stage" /\ w > N
    /\ pc' = "install"
    /\ w' = 1
    /\ UNCHANGED <<setup, disk, pending, errors, deletionFailed, exit>>

\* Mutant: a failed write_staged_file does not try to remove its file.
StageWriteLeaks ==
    /\ pc = "stage_write"
    /\ Throw
    /\ UNCHANGED <<setup, disk, pending, deletionFailed, exit>>

\* write_staged_file failed after mkstemp: it removes its own file and ignores
\* the error of that removal; write.staged stays empty.
StageWriteFails ==
    /\ pc = "stage_write"
    /\ \/ /\ stagedFile' = [stagedFile EXCEPT ![w] = Absent]
          /\ UNCHANGED deletionFailed
       \/ /\ deletionFailed' = TRUE
          /\ UNCHANGED stagedFile
    /\ Throw
    /\ UNCHANGED <<setup, out, backupFile, orphans, pending, exit>>

-----------------------------------------------------------------------------
(* Installing: set the previous output aside, move the staged file in      *)
(* place, give it the permissions of the previous one.                     *)

InstallNext ==
    /\ pc = "install" /\ w <= N
    /\ pc' = IF out[target[w]] # Absent THEN "backup" ELSE "move"
    /\ UNCHANGED <<setup, disk, pending, errors, deletionFailed, w, exit>>

BackupCreate ==
    /\ pc = "backup"
    /\ backupFile' = [backupFile EXCEPT ![w] = Scrap]
    /\ pc' = "backup_close"
    /\ UNCHANGED <<setup, out, stagedFile, orphans, pending, errors,
                   deletionFailed, w, exit>>

BackupClose ==
    /\ pc = "backup_close"
    /\ backup' = [backup EXCEPT ![w] = TRUE]
    /\ pc' = "backup_move"
    /\ UNCHANGED <<setup, disk, staged, backedUp, installed, errors,
                   deletionFailed, w, exit>>

BackupCloseFails ==
    /\ pc = "backup_close"
    /\ \/ /\ backupFile' = [backupFile EXCEPT ![w] = Absent]
          /\ UNCHANGED deletionFailed
       \/ /\ deletionFailed' = TRUE
          /\ UNCHANGED backupFile
    /\ Throw
    /\ UNCHANGED <<setup, out, stagedFile, orphans, pending, exit>>

BackupMove ==
    /\ pc = "backup_move"
    /\ backupFile' = [backupFile EXCEPT ![w] = out[target[w]]]
    /\ out' = [out EXCEPT ![target[w]] = Absent]
    /\ backedUp' = [backedUp EXCEPT ![w] = TRUE]
    /\ pc' = "move"
    /\ UNCHANGED <<setup, stagedFile, orphans, staged, backup, installed, errors,
                   deletionFailed, w, exit>>

Move ==
    /\ pc = "move"
    /\ out' = [out EXCEPT ![target[w]] = stagedFile[w]]
    /\ stagedFile' = [stagedFile EXCEPT ![w] = Absent]
    /\ staged' = [staged EXCEPT ![w] = FALSE]
    /\ installed' = [installed EXCEPT ![w] = TRUE]
    /\ pc' = "chmod"
    /\ UNCHANGED <<setup, backupFile, orphans, backup, backedUp, errors,
                   deletionFailed, w, exit>>

\* Mutant: the backup goes as soon as its own output is installed.
ChmodDropsBackup ==
    /\ pc = "chmod"
    /\ pc' = "install"
    /\ w' = w + 1
    /\ backupFile' = [backupFile EXCEPT ![w] = Absent]
    /\ UNCHANGED <<setup, out, stagedFile, orphans, pending, errors,
                   deletionFailed, exit>>

Chmod ==
    /\ pc = "chmod"
    /\ pc' = "install"
    /\ w' = w + 1
    /\ UNCHANGED <<setup, disk, pending, errors, deletionFailed, exit>>

\* A call that fails and leaves the disk as it was: create_directories or
\* mkstemp, symlink_status, either rename, permissions.
CallFails ==
    /\ pc \in {"stage", "install", "backup", "backup_move", "move", "chmod"}
    /\ w <= N
    /\ Throw
    /\ UNCHANGED <<setup, disk, pending, deletionFailed, exit>>

InstallDone ==
    /\ pc = "install" /\ w > N
    /\ pc' = "clean_staged"
    /\ w' = 1
    /\ UNCHANGED <<setup, disk, pending, errors, deletionFailed, exit>>

-----------------------------------------------------------------------------
(* Rollback, for w = N down to 1.                                          *)

UndoRemove ==
    /\ pc = "undo_remove" /\ w > 0
    /\ IF installed[w]
         THEN \/ /\ out' = [out EXCEPT ![target[w]] = Absent]
                 /\ UNCHANGED rollbackFailure
              \/ /\ rollbackFailure' = TRUE
                 /\ UNCHANGED out
         ELSE UNCHANGED <<out, rollbackFailure>>
    /\ pc' = "undo_rename"
    /\ UNCHANGED <<setup, stagedFile, backupFile, orphans, pending, failing,
                   cleanupFailure, deletionFailed, w, exit>>

\* Mutant: the rollback loop does not move on.
UndoRenameStuck ==
    /\ pc = "undo_rename"
    /\ pc' = "undo_remove"
    /\ UNCHANGED <<setup, disk, pending, errors, deletionFailed, w, exit>>

\* rename replaces whatever is still at the output path.
UndoRename ==
    /\ pc = "undo_rename"
    /\ IF backedUp[w]
         THEN \/ /\ out' = [out EXCEPT ![target[w]] = backupFile[w]]
                 /\ backupFile' = [backupFile EXCEPT ![w] = Absent]
                 /\ backup' = [backup EXCEPT ![w] = FALSE]
                 /\ UNCHANGED rollbackFailure
              \/ /\ rollbackFailure' = TRUE
                 /\ UNCHANGED <<out, backupFile, backup>>
         ELSE UNCHANGED <<out, backupFile, backup, rollbackFailure>>
    /\ pc' = "undo_remove"
    /\ w' = w - 1
    /\ UNCHANGED <<setup, stagedFile, orphans, staged, backedUp, installed, failing,
                   cleanupFailure, deletionFailed, exit>>

UndoDone ==
    /\ pc = "undo_remove" /\ w = 0
    /\ pc' = "clean_staged"
    /\ w' = 1
    /\ UNCHANGED <<setup, disk, pending, errors, deletionFailed, exit>>

-----------------------------------------------------------------------------
(* The cleanup lambda, for w = 1 to N: the staged file, then the backup.   *)
(* std::filesystem::remove of a file that is gone is no error.             *)

CleanStaged ==
    /\ pc = "clean_staged" /\ w <= N
    /\ IF staged[w]
         THEN \/ /\ stagedFile' = [stagedFile EXCEPT ![w] = Absent]
                 /\ UNCHANGED <<cleanupFailure, deletionFailed>>
              \/ /\ cleanupFailure' = TRUE
                 /\ deletionFailed' = TRUE
                 /\ UNCHANGED stagedFile
         ELSE UNCHANGED <<stagedFile, cleanupFailure, deletionFailed>>
    /\ pc' = "clean_backup"
    /\ UNCHANGED <<setup, out, backupFile, orphans, pending, failing,
                   rollbackFailure, w, exit>>

\* Mutant: a failed rollback loses its backups in the cleanup.
PreserveNothing == FALSE

PreserveBackups == rollbackFailure

CleanBackup ==
    /\ pc = "clean_backup"
    /\ IF backup[w] /\ ~PreserveBackups
         THEN \/ /\ backupFile' = [backupFile EXCEPT ![w] = Absent]
                 /\ UNCHANGED <<cleanupFailure, deletionFailed>>
              \/ /\ cleanupFailure' = TRUE
                 /\ deletionFailed' = TRUE
                 /\ UNCHANGED backupFile
         ELSE UNCHANGED <<backupFile, cleanupFailure, deletionFailed>>
    /\ pc' = "clean_staged"
    /\ w' = w + 1
    /\ UNCHANGED <<setup, out, stagedFile, orphans, pending, failing,
                   rollbackFailure, exit>>

\* What write_file_set tells its caller.
Outcome ==
    IF failing
      THEN IF rollbackFailure THEN "rollback_incomplete"
           ELSE IF cleanupFailure THEN "failed_cleanup_incomplete" ELSE "failed"
      ELSE IF cleanupFailure THEN "installed_cleanup_incomplete" ELSE "ok"

Finish ==
    /\ pc = "clean_staged" /\ w > N
    /\ Exit(Outcome)
    /\ UNCHANGED <<setup, disk, pending, errors, deletionFailed, w>>

-----------------------------------------------------------------------------
(* The environment: a kill or a power cut at any point, and another run.   *)

Running == alive /\ pc # "exited"

Kill ==
    /\ Running
    /\ alive' = FALSE
    /\ UNCHANGED <<setup, disk, pending, errors, deletionFailed, pc, w, exit>>

\* Temporary names are unique per run: what is left of them is never reused.
Restart ==
    /\ ~Running
    /\ run < MaxRuns
    /\ run' = run + 1
    /\ before' = out
    /\ orphans' = orphans \cup
         (Contents \cap {stagedFile[i] : i \in Writes}) \cup
         (Contents \cap {backupFile[i] : i \in Writes})
    /\ stagedFile' = NoFile /\ backupFile' = NoFile
    /\ staged' = NoFlag /\ backup' = NoFlag
    /\ backedUp' = NoFlag /\ installed' = NoFlag
    /\ alive' = TRUE /\ pc' = "check" /\ w' = 1 /\ exit' = "none"
    /\ failing' = FALSE /\ rollbackFailure' = FALSE /\ cleanupFailure' = FALSE
    /\ deletionFailed' = FALSE
    /\ UNCHANGED <<target, refused, out>>

Program ==
    \/ CheckRefuses \/ CheckPasses
    \/ StageCreate \/ StageWrite \/ StageDone \/ StageWriteFails
    \/ InstallNext \/ BackupCreate \/ BackupClose \/ BackupCloseFails
    \/ BackupMove \/ Move \/ Chmod \/ CallFails \/ InstallDone
    \/ UndoRemove \/ UndoRename \/ UndoDone
    \/ CleanStaged \/ CleanBackup \/ Finish

Advance == alive /\ Program /\ UNCHANGED alive

Next == Advance \/ Kill \/ Restart

Spec == Init /\ [][Next]_vars

\* A program that is not killed goes on to its next statement.
FairSpec == Spec /\ WF_vars(Advance)

-----------------------------------------------------------------------------
(* What the program promises.                                              *)

AllInstalled == \A i \in Writes : out[target[i]] = Bytes(run, i)

\* A run that reports an ordinary failure has left every output as it was,
\* whichever call failed and however far the installation had come: the catch
\* block of write_file_set undoes every installed write.
FailureRestoresOutputs ==
    exit \in {"refused", "failed", "failed_cleanup_incomplete"} => out = before

\* A run that reports success, or success with temporary files left, has put
\* every write in place (none replaced by another of the same package) and
\* touched no other file.
SuccessInstallsAll ==
    exit \in {"ok", "installed_cleanup_incomplete"} =>
        /\ AllInstalled
        /\ \A f \in Files : (\A i \in Writes : target[i] # f) => out[f] = before[f]

\* What a run reports is what is on disk.
OutcomeIsTrue == FailureRestoresOutputs /\ SuccessInstallsAll

\* Until every output holds its new bytes, what each output held when the run
\* started is on disk, at its own path or in its backup file: also when the
\* process is killed between two renames, and also after a failed rollback.
OldBytesOnDisk ==
    AllInstalled \/ \A f \in Files :
        \/ out[f] = before[f]
        \/ before[f] = Absent
        \/ \E i \in Writes : target[i] = f /\ backupFile[i] = before[f]

Temporaries == {i \in Writes : stagedFile[i] # Absent \/ backupFile[i] # Absent}

\* When no removal failed, an ended run leaves no temporary file behind, unless
\* it says that the rollback was incomplete (then backups are kept on purpose).
NoLeftovers ==
    (pc = "exited" /\ exit # "rollback_incomplete" /\ ~deletionFailed)
        => Temporaries = {}

\* docs/ordinary-form-target-contract.md:349: an error in removing temporary
\* files is reported explicitly.
DeletionErrorReported == exit \in {"ok", "failed"} => ~deletionFailed

Held(c) ==
    \/ c \in orphans
    \/ \E f \in Files : out[f] = c
    \/ \E i \in Writes : backupFile[i] = c

\* Over any number of killed, failed and repeated runs, the last copy of
\* something an earlier run or the user had stored disappears only in a step of
\* a run all of whose outputs hold their new bytes.
LastCopyOnlyAfterInstall ==
    [][\A c \in Contents :
         (c[1] < run /\ Held(c) /\ ~Held(c)') => AllInstalled]_vars

\* A run that is not killed ends: staging, installation, rollback and cleanup
\* loops all come to their end.
RunEnds == (pc = "check") ~> ~Running

-----------------------------------------------------------------------------
(* Refinement: every run is an atomic replacement of the package, if       *)
(* backups count as the place of what they hold until the installation is  *)
(* complete.                                                               *)

Committed ==
    /\ ~failing
    /\ pc \in {"clean_staged", "clean_backup", "exited"}
    /\ exit # "refused"

Recoverable(f) ==
    IF \E i \in Writes : target[i] = f /\ backedUp[i] /\ backupFile[i] # Absent
      THEN backupFile[CHOOSE i \in Writes : target[i] = f /\ backedUp[i]]
      ELSE IF \E i \in Writes : target[i] = f /\ installed[i] /\ ~backedUp[i]
             THEN Absent
             ELSE out[f]

Wanted(f) ==
    IF \E i \in Writes : target[i] = f
      THEN Bytes(run, CHOOSE i \in Writes : target[i] = f)
      ELSE before[f]

WantedFiles == [f \in Files |-> Wanted(f)]

Package == [f \in Files |-> IF Committed THEN out[f] ELSE Recoverable(f)]

Result ==
    IF Committed THEN "installed"
    ELSE IF exit = "rollback_incomplete" THEN "broken"
    ELSE IF exit # "none" THEN "rejected"
    ELSE IF alive THEN "pending" ELSE "killed"

Atomic == INSTANCE AtomicPackage WITH
    Values <- Contents \cup {Absent},
    Missing <- Absent,
    wanted <- WantedFiles,
    package <- Package,
    outcome <- Result

\* The runs of the writer, killed, failed or complete, implement the atomic
\* replacement of the package.
AtomicReplacement == Atomic!Spec

=============================================================================
