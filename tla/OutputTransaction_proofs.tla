---------------------- MODULE OutputTransaction_proofs ----------------------
(***************************************************************************)
(* Proofs about OutputTransaction, for any number of writes, files and     *)
(* runs: type correctness; a returned failure has restored every output, a *)
(* returned success has installed every one; and wherever the process      *)
(* stops, the bytes it found are on disk until all of its own are          *)
(* installed.                                                              *)
(***************************************************************************)
EXTENDS OutputTransaction, TLAPS

Preparing == {"check", "stage", "stage_write"}
Placing == {"install", "backup", "backup_close", "backup_move"}
Forward == Preparing \cup Placing \cup {"move", "chmod"}
Undoing == {"undo_remove", "undo_rename"}
Cleaning == {"clean_staged", "clean_backup"}

\* The loops are within their bounds.
Index ==
    /\ pc \in {"stage_write", "backup", "backup_close", "backup_move", "move",
               "chmod", "undo_rename", "clean_backup"} => w \in Writes
    /\ pc \in {"check", "stage", "install", "clean_staged"} => w \in 1..(N + 1)
    /\ pc = "undo_remove" => w \in 0..N

\* Which part of write_file_set the run is in, and what it may have returned.
Control ==
    /\ pc \in Forward => ~failing
    /\ pc \in Undoing => failing
    /\ exit = "none" <=> pc # "exited"
    /\ exit \in {"ok", "installed_cleanup_incomplete", "refused"} => ~failing
    /\ exit \in {"failed", "failed_cleanup_incomplete"} => failing /\ ~rollbackFailure
    /\ exit = "rollback_incomplete" => failing

\* The preflight has established that the writes have files of their own.
TargetsDiffer ==
    (pc # "check" /\ exit # "refused") =>
        \A i, j \in Writes : target[i] = target[j] => i = j
TargetsChecked ==
    pc = "check" =>
        \A i, j \in Writes : (i < w /\ j < w /\ target[i] = target[j]) => i = j

\* No other file is touched.
OthersKept ==
    \A f \in Files : (\A i \in Writes : target[i] # f) => out[f] = before[f]

\* A write that installation has not come to.
Fresh(i) == ~installed[i] /\ ~backedUp[i]

\* What the flags of a write say is so on disk.
AsRecorded(i) ==
    /\ out[target[i]] = IF installed[i] THEN Bytes(run, i)
                        ELSE IF backedUp[i] THEN Absent ELSE before[target[i]]
    /\ backedUp[i] => before[target[i]] # Absent /\ backupFile[i] = before[target[i]]
    /\ installed[i] /\ ~backedUp[i] => before[target[i]] = Absent

\* A write rollback is done with.
Undone(i) ==
    /\ \/ out[target[i]] = before[target[i]]
       \/ /\ rollbackFailure
          /\ IF backedUp[i] THEN backupFile[i] = before[target[i]]
                            ELSE before[target[i]] = Absent
    /\ backedUp[i] /\ ~rollbackFailure => ~backup[i] /\ backupFile[i] = Absent

\* A write between the two calls of its rollback.
HalfUndone(i) ==
    IF backedUp[i]
      THEN /\ out[target[i]] \in {Absent, Bytes(run, i)}
           /\ before[target[i]] # Absent
           /\ backupFile[i] = before[target[i]]
      ELSE \/ out[target[i]] = before[target[i]]
           \/ rollbackFailure /\ before[target[i]] = Absent

\* How far installation has come.
Progress ==
    /\ pc \in Preparing => \A i \in Writes : Fresh(i)
    /\ pc \in Placing => \A i \in Writes : IF i < w THEN installed[i] ELSE Fresh(i)
    /\ pc = "move" => /\ \A i \in Writes : i < w => installed[i]
                      /\ \A i \in Writes : i > w => Fresh(i)
                      /\ ~installed[w]
                      /\ out[target[w]] = Absent
    /\ pc = "chmod" => \A i \in Writes : IF i <= w THEN installed[i] ELSE Fresh(i)
    /\ pc \in {"backup", "backup_close", "backup_move"} => out[target[w]] # Absent

StagedFiles ==
    /\ pc \in {"stage", "stage_write"} =>
         \A i \in Writes : i < w => stagedFile[i] = Bytes(run, i)
    /\ pc \in Placing \cup {"move"} =>
         \A i \in Writes : i >= w => stagedFile[i] = Bytes(run, i)
    /\ pc = "chmod" => \A i \in Writes : i > w => stagedFile[i] = Bytes(run, i)

\* A backup file that nothing was moved to has nothing of value.
BackupFiles ==
    \A i \in Writes :
        IF backedUp[i] THEN backupFile[i] \in Contents \cup {Absent}
                       ELSE backupFile[i] \in {Absent, Scrap}

Stages ==
    /\ pc \in Forward \/ exit = "refused" => \A i \in Writes : AsRecorded(i)
    /\ exit = "refused" => \A i \in Writes : Fresh(i)
    /\ pc = "undo_remove" => \A i \in Writes : IF i <= w THEN AsRecorded(i) ELSE Undone(i)
    /\ pc = "undo_rename" => /\ \A i \in Writes : i < w => AsRecorded(i)
                             /\ \A i \in Writes : i > w => Undone(i)
                             /\ HalfUndone(w)
    /\ pc \in Cleaning \cup {"exited"} /\ failing => \A i \in Writes : Undone(i)
    /\ pc \in Cleaning \cup {"exited"} /\ ~failing /\ exit # "refused" => AllInstalled

IInv ==
    /\ TypeOK /\ Index /\ Control
    /\ TargetsDiffer /\ TargetsChecked /\ OthersKept
    /\ Progress /\ StagedFiles /\ BackupFiles /\ Stages

-----------------------------------------------------------------------------
(* Proofs of the inductive invariant, one lemma for each action.           *)

LEMMA Values ==
    /\ \A i \in Writes, r \in 1..MaxRuns : Bytes(r, i) \in Contents
    /\ \A f \in Files : Original(f) \in Contents
    /\ Absent \notin Contents /\ Scrap \notin Contents /\ Absent # Scrap
    /\ Contents \subseteq Disk /\ Absent \in Disk /\ Scrap \in Disk
BY OutputAssumption DEF Contents, Bytes, Original, Disk

LEMMA CheckRefusesKeeps ==
    ASSUME IInv, CheckRefuses, UNCHANGED alive
    PROVE  IInv'
<1>1. TypeOK'
  BY DEF IInv, CheckRefuses, TypeOK, Steps, Exits, Exit, setup, disk, pending,
      errors
<1>2. Index'
  BY DEF IInv, CheckRefuses, Index, Writes
<1>3. Control'
  BY DEF IInv, CheckRefuses, Control, Forward, Preparing, Undoing, Exit, errors
<1>4. TargetsDiffer'
  BY DEF IInv, CheckRefuses, TargetsDiffer, Exit
<1>5. TargetsChecked'
  BY DEF IInv, CheckRefuses, TargetsChecked, setup
<1>6. OthersKept'
  BY DEF IInv, CheckRefuses, OthersKept, setup, disk
<1>7. Progress'
  BY DEF IInv, CheckRefuses, Progress, Preparing, Placing, Exit
<1>8. StagedFiles'
  BY DEF IInv, CheckRefuses, StagedFiles, Placing, Exit
<1>9. BackupFiles'
  BY DEF IInv, CheckRefuses, BackupFiles, disk, pending
<1>10. Stages'
  BY DEF IInv, CheckRefuses, Stages, Progress, Forward, Preparing, Fresh,
      AsRecorded, Undone, Exit, setup, disk, pending
<1> QED
  BY <1>1, <1>2, <1>3, <1>4, <1>5, <1>6, <1>7, <1>8, <1>9, <1>10 DEF IInv

LEMMA CheckPassesKeeps ==
    ASSUME IInv, CheckPasses, UNCHANGED alive
    PROVE  IInv'
<1>1. TypeOK'
  BY OutputAssumption DEF IInv, CheckPasses, TypeOK, Steps, setup, disk,
      pending, errors
<1>2. Index'
  BY OutputAssumption DEF IInv, CheckPasses, Index
<1>3. Control'
  BY DEF IInv, CheckPasses, Control, Forward, Preparing, Undoing, errors
<1>4. TargetsDiffer'
  BY OutputAssumption DEF IInv, CheckPasses, TypeOK, TargetsDiffer,
      TargetsChecked, setup, Writes
<1>5. TargetsChecked'
  BY DEF IInv, CheckPasses, TargetsChecked, Index, Duplicate, setup, Writes
<1>6. OthersKept'
  BY DEF IInv, CheckPasses, OthersKept, setup, disk
<1>7. Progress'
  BY DEF IInv, CheckPasses, Progress, Preparing, Placing, Fresh, pending
<1>8. StagedFiles'
  BY DEF IInv, CheckPasses, StagedFiles, Placing, Writes
<1>9. BackupFiles'
  BY DEF IInv, CheckPasses, BackupFiles, disk, pending
<1>10. Stages'
  BY DEF IInv, CheckPasses, Stages, Forward, Preparing, Cleaning, Fresh,
      AsRecorded, setup, disk, pending
<1> QED
  BY <1>1, <1>2, <1>3, <1>4, <1>5, <1>6, <1>7, <1>8, <1>9, <1>10 DEF IInv

LEMMA StageCreateKeeps ==
    ASSUME IInv, StageCreate, UNCHANGED alive
    PROVE  IInv'
<1>1. TypeOK'
  BY DEF IInv, StageCreate, TypeOK, Disk, Steps, Index, setup, pending, errors,
      Writes
<1>2. Index'
  BY DEF IInv, StageCreate, Index, Writes
<1>3. Control'
  BY DEF IInv, StageCreate, Control, Forward, Preparing, Undoing, errors
<1>4. TargetsDiffer'
  BY DEF IInv, StageCreate, TargetsDiffer, setup
<1>5. TargetsChecked'
  BY DEF IInv, StageCreate, TargetsChecked
<1>6. OthersKept'
  BY DEF IInv, StageCreate, OthersKept, setup
<1>7. Progress'
  BY DEF IInv, StageCreate, Progress, Preparing, Placing, Fresh, pending
<1>8. StagedFiles'
  BY DEF IInv, StageCreate, StagedFiles, Placing, Index, setup
<1>9. BackupFiles'
  BY DEF IInv, StageCreate, BackupFiles, pending
<1>10. Stages'
  BY DEF IInv, StageCreate, Stages, Forward, Preparing, Cleaning, Fresh,
      AsRecorded, setup, pending
<1> QED
  BY <1>1, <1>2, <1>3, <1>4, <1>5, <1>6, <1>7, <1>8, <1>9, <1>10 DEF IInv

LEMMA StageWriteKeeps ==
    ASSUME IInv, StageWrite, UNCHANGED alive
    PROVE  IInv'
<1>1. TypeOK'
  BY Values, OutputAssumption DEF IInv, StageWrite, TypeOK, Steps, Index,
      setup, errors, Writes
<1>2. Index'
  BY OutputAssumption DEF IInv, StageWrite, Index, Writes
<1>3. Control'
  BY DEF IInv, StageWrite, Control, Forward, Preparing, Undoing, errors
<1>4. TargetsDiffer'
  BY DEF IInv, StageWrite, TargetsDiffer, setup
<1>5. TargetsChecked'
  BY DEF IInv, StageWrite, TargetsChecked
<1>6. OthersKept'
  BY DEF IInv, StageWrite, OthersKept, setup
<1>7. Progress'
  BY DEF IInv, StageWrite, Progress, Preparing, Placing, Fresh
<1>8. StagedFiles'
  BY DEF IInv, StageWrite, TypeOK, StagedFiles, Placing, setup, Writes
<1>9. BackupFiles'
  BY DEF IInv, StageWrite, BackupFiles
<1>10. Stages'
  BY DEF IInv, StageWrite, Stages, Forward, Preparing, Cleaning, Fresh,
      AsRecorded, setup
<1> QED
  BY <1>1, <1>2, <1>3, <1>4, <1>5, <1>6, <1>7, <1>8, <1>9, <1>10 DEF IInv

LEMMA StageDoneKeeps ==
    ASSUME IInv, StageDone, UNCHANGED alive
    PROVE  IInv'
<1>1. TypeOK'
  BY OutputAssumption DEF IInv, StageDone, TypeOK, Steps, setup, disk, pending,
      errors
<1>2. Index'
  BY OutputAssumption DEF IInv, StageDone, Index
<1>3. Control'
  BY DEF IInv, StageDone, Control, Forward, Preparing, Undoing, errors
<1>4. TargetsDiffer'
  BY DEF IInv, StageDone, TargetsDiffer, setup
<1>5. TargetsChecked'
  BY DEF IInv, StageDone, TargetsChecked
<1>6. OthersKept'
  BY DEF IInv, StageDone, OthersKept, setup, disk
<1>7. Progress'
  BY DEF IInv, StageDone, Progress, Preparing, Fresh, pending, Writes
<1>8. StagedFiles'
  BY OutputAssumption DEF IInv, StageDone, StagedFiles, Index, setup, disk,
      Writes
<1>9. BackupFiles'
  BY DEF IInv, StageDone, BackupFiles, disk, pending
<1>10. Stages'
  BY DEF IInv, StageDone, Stages, Forward, Preparing, Cleaning, Fresh,
      AsRecorded, setup, disk, pending
<1> QED
  BY <1>1, <1>2, <1>3, <1>4, <1>5, <1>6, <1>7, <1>8, <1>9, <1>10 DEF IInv

LEMMA StageWriteFailsKeeps ==
    ASSUME IInv, StageWriteFails, UNCHANGED alive
    PROVE  IInv'
<1>1. TypeOK'
  <2>1. w \in Writes
    BY DEF IInv, Index, StageWriteFails
  <2>2. stagedFile' \in [Writes -> Disk]
    BY <2>1, Values DEF IInv, TypeOK, StageWriteFails
  <2>3. deletionFailed' \in BOOLEAN
    BY DEF IInv, TypeOK, StageWriteFails
  <2> QED
    BY <2>1, <2>2, <2>3, OutputAssumption DEF IInv, TypeOK, StageWriteFails,
        Throw, setup, pending, Steps, Exits, Writes
<1>2. Index'
  BY OutputAssumption DEF IInv, StageWriteFails, Index, Throw
<1>3. Control'
  BY DEF IInv, StageWriteFails, Control, Forward, Preparing, Placing, Throw
<1>4. TargetsDiffer'
  BY DEF IInv, StageWriteFails, TargetsDiffer, setup
<1>5. TargetsChecked'
  BY DEF IInv, StageWriteFails, TargetsChecked, Throw
<1>6. OthersKept'
  BY DEF IInv, StageWriteFails, OthersKept, setup
<1>7. Progress'
  BY DEF IInv, StageWriteFails, Progress, Preparing, Placing, Throw
<1>8. StagedFiles'
  BY DEF IInv, StageWriteFails, StagedFiles, Placing, Throw
<1>9. BackupFiles'
  BY DEF IInv, StageWriteFails, BackupFiles, pending
<1>10. Stages'
  BY DEF IInv, StageWriteFails, Stages, Progress, Forward, Preparing, Fresh,
      AsRecorded, Undone, Throw, setup, pending
<1> QED
  BY <1>1, <1>2, <1>3, <1>4, <1>5, <1>6, <1>7, <1>8, <1>9, <1>10 DEF IInv

LEMMA InstallNextKeeps ==
    ASSUME IInv, InstallNext, UNCHANGED alive
    PROVE  IInv'
<1>1. TypeOK'
  BY DEF IInv, InstallNext, TypeOK, Steps, setup, disk, pending, errors
<1>2. Index'
  BY DEF IInv, InstallNext, Index, Writes
<1>3. Control'
  BY DEF IInv, InstallNext, Control, Forward, Placing, Undoing, errors
<1>4. TargetsDiffer'
  BY DEF IInv, InstallNext, TargetsDiffer, setup
<1>5. TargetsChecked'
  BY DEF IInv, InstallNext, TargetsChecked
<1>6. OthersKept'
  BY DEF IInv, InstallNext, OthersKept, setup, disk
<1>7. Progress'
  BY DEF IInv, InstallNext, Progress, Preparing, Placing, Fresh, Index, setup,
      disk, pending, Writes
<1>8. StagedFiles'
  BY DEF IInv, InstallNext, StagedFiles, Placing, setup, disk
<1>9. BackupFiles'
  BY DEF IInv, InstallNext, BackupFiles, disk, pending
<1>10. Stages'
  BY DEF IInv, InstallNext, Stages, Forward, Placing, Cleaning, Fresh,
      AsRecorded, setup, disk, pending
<1> QED
  BY <1>1, <1>2, <1>3, <1>4, <1>5, <1>6, <1>7, <1>8, <1>9, <1>10 DEF IInv

LEMMA BackupCreateKeeps ==
    ASSUME IInv, BackupCreate, UNCHANGED alive
    PROVE  IInv'
<1>1. TypeOK'
  BY DEF IInv, BackupCreate, TypeOK, Disk, Steps, Index, setup, pending, errors
<1>2. Index'
  BY DEF IInv, BackupCreate, Index
<1>3. Control'
  BY DEF IInv, BackupCreate, Control, Forward, Placing, Undoing, errors
<1>4. TargetsDiffer'
  BY DEF IInv, BackupCreate, TargetsDiffer, setup
<1>5. TargetsChecked'
  BY DEF IInv, BackupCreate, TargetsChecked
<1>6. OthersKept'
  BY DEF IInv, BackupCreate, OthersKept, setup
<1>7. Progress'
  BY DEF IInv, BackupCreate, Progress, Preparing, Placing, Fresh, setup,
      pending
<1>8. StagedFiles'
  BY DEF IInv, BackupCreate, StagedFiles, Placing, setup
<1>9. BackupFiles'
  BY DEF IInv, BackupCreate, TypeOK, BackupFiles, Progress, Fresh, Placing,
      pending
<1>10. Stages'
  BY DEF IInv, BackupCreate, TypeOK, Stages, Progress, Forward, Placing,
      Cleaning, Fresh, AsRecorded, setup, pending
<1> QED
  BY <1>1, <1>2, <1>3, <1>4, <1>5, <1>6, <1>7, <1>8, <1>9, <1>10 DEF IInv

LEMMA BackupCloseKeeps ==
    ASSUME IInv, BackupClose, UNCHANGED alive
    PROVE  IInv'
<1>1. TypeOK'
  BY DEF IInv, BackupClose, TypeOK, Steps, Index, setup, disk, errors
<1>2. Index'
  BY DEF IInv, BackupClose, Index
<1>3. Control'
  BY DEF IInv, BackupClose, Control, Forward, Placing, Undoing, errors
<1>4. TargetsDiffer'
  BY DEF IInv, BackupClose, TargetsDiffer, setup
<1>5. TargetsChecked'
  BY DEF IInv, BackupClose, TargetsChecked
<1>6. OthersKept'
  BY DEF IInv, BackupClose, OthersKept, setup, disk
<1>7. Progress'
  BY DEF IInv, BackupClose, Progress, Preparing, Placing, Fresh, setup, disk
<1>8. StagedFiles'
  BY DEF IInv, BackupClose, StagedFiles, Placing, setup, disk
<1>9. BackupFiles'
  BY DEF IInv, BackupClose, BackupFiles, disk
<1>10. Stages'
  BY DEF IInv, BackupClose, Stages, Forward, Placing, Cleaning, Fresh,
      AsRecorded, setup, disk
<1> QED
  BY <1>1, <1>2, <1>3, <1>4, <1>5, <1>6, <1>7, <1>8, <1>9, <1>10 DEF IInv

LEMMA BackupCloseFailsKeeps ==
    ASSUME IInv, BackupCloseFails, UNCHANGED alive
    PROVE  IInv'
<1>1. TypeOK'
  <2>1. w \in Writes
    BY DEF IInv, Index, BackupCloseFails
  <2>2. backupFile' \in [Writes -> Disk]
    BY <2>1, Values DEF IInv, TypeOK, BackupCloseFails
  <2>3. deletionFailed' \in BOOLEAN
    BY DEF IInv, TypeOK, BackupCloseFails
  <2> QED
    BY <2>1, <2>2, <2>3, OutputAssumption DEF IInv, TypeOK, BackupCloseFails,
        Throw, setup, pending, Steps, Exits, Writes
<1>2. Index'
  BY OutputAssumption DEF IInv, BackupCloseFails, Index, Throw
<1>3. Control'
  BY DEF IInv, BackupCloseFails, Control, Forward, Preparing, Placing, Throw
<1>4. TargetsDiffer'
  BY DEF IInv, BackupCloseFails, TargetsDiffer, setup
<1>5. TargetsChecked'
  BY DEF IInv, BackupCloseFails, TargetsChecked, Throw
<1>6. OthersKept'
  BY DEF IInv, BackupCloseFails, OthersKept, setup
<1>7. Progress'
  BY DEF IInv, BackupCloseFails, Progress, Preparing, Placing, Throw
<1>8. StagedFiles'
  BY DEF IInv, BackupCloseFails, StagedFiles, Placing, Throw
<1>9. BackupFiles'
  BY OutputAssumption DEF IInv, BackupCloseFails, TypeOK, BackupFiles, pending
<1>10. Stages'
  BY OutputAssumption DEF IInv, BackupCloseFails, TypeOK, Stages, Progress,
      Forward, Placing, Cleaning, Fresh, AsRecorded, Throw, setup, pending,
      Writes
<1> QED
  BY <1>1, <1>2, <1>3, <1>4, <1>5, <1>6, <1>7, <1>8, <1>9, <1>10 DEF IInv

LEMMA BackupMoveKeeps ==
    ASSUME IInv, BackupMove, UNCHANGED alive
    PROVE  IInv'
<1>1. TypeOK'
  BY DEF IInv, BackupMove, TypeOK, Disk, Steps, Index, setup, errors
<1>2. Index'
  BY DEF IInv, BackupMove, Index
<1>3. Control'
  BY DEF IInv, BackupMove, Control, Forward, Placing, Undoing, errors
<1>4. TargetsDiffer'
  BY DEF IInv, BackupMove, TargetsDiffer, setup
<1>5. TargetsChecked'
  BY DEF IInv, BackupMove, TargetsChecked
<1>6. OthersKept'
  BY DEF IInv, BackupMove, OthersKept, Index, setup
<1>7. Progress'
  BY DEF IInv, BackupMove, TypeOK, Progress, Preparing, Placing, Fresh, Index,
      setup, Writes
<1>8. StagedFiles'
  BY DEF IInv, BackupMove, StagedFiles, Placing, setup
<1>9. BackupFiles'
  BY DEF IInv, BackupMove, TypeOK, BackupFiles
<1>10. Stages'
  BY DEF IInv, BackupMove, TypeOK, Stages, Progress, Index, Control,
      TargetsDiffer, Forward, Placing, Cleaning, Fresh, AsRecorded, setup
<1> QED
  BY <1>1, <1>2, <1>3, <1>4, <1>5, <1>6, <1>7, <1>8, <1>9, <1>10 DEF IInv

LEMMA MoveKeeps ==
    ASSUME IInv, Move, UNCHANGED alive
    PROVE  IInv'
<1>1. TypeOK'
  <2>1. w \in Writes
    BY DEF IInv, Index, Move
  <2>2. stagedFile[w] \in Contents
    BY <2>1, Values DEF IInv, TypeOK, StagedFiles, Move, Writes
  <2>3. out' \in [Files -> Contents \cup {Absent}]
    BY <2>1, <2>2 DEF IInv, TypeOK, Move
  <2>4. stagedFile' \in [Writes -> Disk]
    BY <2>1, Values DEF IInv, TypeOK, Move
  <2>5. staged' \in [Writes -> BOOLEAN] /\ installed' \in [Writes -> BOOLEAN]
    BY <2>1 DEF IInv, TypeOK, Move
  <2> QED
    BY <2>1, <2>2, <2>3, <2>4, <2>5, OutputAssumption DEF IInv, TypeOK, Move,
        setup, errors, Steps, Exits, Writes
<1>2. Index'
  BY DEF IInv, Move, Index
<1>3. Control'
  BY DEF IInv, Move, Control, Forward, Undoing, errors
<1>4. TargetsDiffer'
  BY DEF IInv, Move, TargetsDiffer, setup
<1>5. TargetsChecked'
  BY DEF IInv, Move, TargetsChecked
<1>6. OthersKept'
  BY DEF IInv, Move, OthersKept, Index, setup
<1>7. Progress'
  BY DEF IInv, Move, TypeOK, Progress, Preparing, Placing, Fresh, Writes
<1>8. StagedFiles'
  BY DEF IInv, Move, StagedFiles, Placing, Index, setup, Writes
<1>9. BackupFiles'
  BY DEF IInv, Move, BackupFiles
<1>10. Stages'
  BY DEF IInv, Move, TypeOK, Stages, Progress, StagedFiles, Index, Control,
      TargetsDiffer, Forward, Cleaning, AsRecorded, setup
<1> QED
  BY <1>1, <1>2, <1>3, <1>4, <1>5, <1>6, <1>7, <1>8, <1>9, <1>10 DEF IInv

LEMMA ChmodKeeps ==
    ASSUME IInv, Chmod, UNCHANGED alive
    PROVE  IInv'
<1>1. TypeOK'
  BY OutputAssumption DEF IInv, Chmod, TypeOK, Steps, Index, setup, disk,
      pending, errors, Writes
<1>2. Index'
  BY OutputAssumption DEF IInv, Chmod, Index, Writes
<1>3. Control'
  BY DEF IInv, Chmod, Control, Forward, Undoing, errors
<1>4. TargetsDiffer'
  BY DEF IInv, Chmod, TargetsDiffer, setup
<1>5. TargetsChecked'
  BY DEF IInv, Chmod, TargetsChecked
<1>6. OthersKept'
  BY DEF IInv, Chmod, OthersKept, setup, disk
<1>7. Progress'
  BY DEF IInv, Chmod, Progress, Preparing, Fresh, Index, pending, Writes
<1>8. StagedFiles'
  BY DEF IInv, Chmod, StagedFiles, Index, setup, disk, Writes
<1>9. BackupFiles'
  BY DEF IInv, Chmod, BackupFiles, disk, pending
<1>10. Stages'
  BY DEF IInv, Chmod, Stages, Forward, Cleaning, Fresh, AsRecorded, setup,
      disk, pending
<1> QED
  BY <1>1, <1>2, <1>3, <1>4, <1>5, <1>6, <1>7, <1>8, <1>9, <1>10 DEF IInv

LEMMA CallFailsKeeps ==
    ASSUME IInv, CallFails, UNCHANGED alive
    PROVE  IInv'
<1>1. TypeOK'
  BY OutputAssumption DEF IInv, CallFails, TypeOK, Steps, Throw, setup, disk,
      pending
<1>2. Index'
  BY OutputAssumption DEF IInv, CallFails, Index, Throw
<1>3. Control'
  BY DEF IInv, CallFails, Control, Forward, Preparing, Placing, Throw
<1>4. TargetsDiffer'
  BY DEF IInv, CallFails, TargetsDiffer, setup
<1>5. TargetsChecked'
  BY DEF IInv, CallFails, TargetsChecked, Throw
<1>6. OthersKept'
  BY DEF IInv, CallFails, OthersKept, setup, disk
<1>7. Progress'
  BY DEF IInv, CallFails, Progress, Preparing, Placing, Throw
<1>8. StagedFiles'
  BY DEF IInv, CallFails, StagedFiles, Placing, Throw
<1>9. BackupFiles'
  BY DEF IInv, CallFails, BackupFiles, disk, pending
<1>10. Stages'
  BY DEF IInv, CallFails, Stages, Forward, Preparing, Placing, Cleaning, Fresh,
      AsRecorded, Throw, setup, disk, pending, Writes
<1> QED
  BY <1>1, <1>2, <1>3, <1>4, <1>5, <1>6, <1>7, <1>8, <1>9, <1>10 DEF IInv

LEMMA InstallDoneKeeps ==
    ASSUME IInv, InstallDone, UNCHANGED alive
    PROVE  IInv'
<1>1. TypeOK'
  BY OutputAssumption DEF IInv, InstallDone, TypeOK, Steps, setup, disk,
      pending, errors
<1>2. Index'
  BY OutputAssumption DEF IInv, InstallDone, Index
<1>3. Control'
  BY DEF IInv, InstallDone, Control, Forward, Preparing, Placing, Undoing
<1>4. TargetsDiffer'
  BY DEF IInv, InstallDone, TargetsDiffer, setup
<1>5. TargetsChecked'
  BY DEF IInv, InstallDone, TargetsChecked
<1>6. OthersKept'
  BY DEF IInv, InstallDone, OthersKept, setup, disk
<1>7. Progress'
  BY DEF IInv, InstallDone, Progress, Preparing, Placing
<1>8. StagedFiles'
  BY DEF IInv, InstallDone, StagedFiles, Placing
<1>9. BackupFiles'
  BY DEF IInv, InstallDone, BackupFiles, disk, pending
<1>10. Stages'
  BY OutputAssumption DEF IInv, InstallDone, TypeOK, Stages, Progress, Control,
      Forward, Placing, AsRecorded, AllInstalled, setup, disk, pending, errors,
      Writes
<1> QED
  BY <1>1, <1>2, <1>3, <1>4, <1>5, <1>6, <1>7, <1>8, <1>9, <1>10 DEF IInv

LEMMA UndoRemoveKeeps ==
    ASSUME IInv, UndoRemove, UNCHANGED alive
    PROVE  IInv'
<1>1. TypeOK'
  <2>1. w \in Writes
    BY OutputAssumption DEF IInv, Index, UndoRemove, Writes
  <2>2. out' \in [Files -> Contents \cup {Absent}]
    BY <2>1 DEF IInv, TypeOK, UndoRemove
  <2>3. rollbackFailure' \in BOOLEAN
    BY DEF IInv, TypeOK, UndoRemove
  <2> QED
    BY <2>1, <2>2, <2>3, OutputAssumption DEF IInv, TypeOK, UndoRemove, setup,
        pending, Steps, Exits, Writes
<1>2. Index'
  BY DEF IInv, UndoRemove, Index, Writes
<1>3. Control'
  BY DEF IInv, UndoRemove, Control, Forward, Preparing, Placing, Undoing
<1>4. TargetsDiffer'
  BY DEF IInv, UndoRemove, TargetsDiffer, setup
<1>5. TargetsChecked'
  BY DEF IInv, UndoRemove, TargetsChecked
<1>6. OthersKept'
  BY DEF IInv, UndoRemove, TypeOK, OthersKept, Index, setup, Writes
<1>7. Progress'
  BY DEF IInv, UndoRemove, Progress, Preparing, Placing
<1>8. StagedFiles'
  BY DEF IInv, UndoRemove, StagedFiles, Placing
<1>9. BackupFiles'
  BY DEF IInv, UndoRemove, BackupFiles, pending
<1>10. Stages'
  BY DEF IInv, UndoRemove, TypeOK, Stages, Index, TargetsDiffer, Forward,
      Preparing, Placing, Cleaning, Fresh, AsRecorded, Undone, HalfUndone,
      setup, pending, Writes
<1> QED
  BY <1>1, <1>2, <1>3, <1>4, <1>5, <1>6, <1>7, <1>8, <1>9, <1>10 DEF IInv

LEMMA UndoRenameKeeps ==
    ASSUME IInv, UndoRename, UNCHANGED alive
    PROVE  IInv'
<1>1. TypeOK'
  <2>1. w \in Writes
    BY DEF IInv, Index, UndoRename
  <2>2. backedUp[w] => backupFile[w] \in Contents \cup {Absent}
    BY <2>1 DEF IInv, BackupFiles
  <2>3. out' \in [Files -> Contents \cup {Absent}]
    BY <2>1, <2>2 DEF IInv, TypeOK, UndoRename
  <2>4. backupFile' \in [Writes -> Disk]
    BY <2>1, Values DEF IInv, TypeOK, UndoRename
  <2>5. backup' \in [Writes -> BOOLEAN]
    BY <2>1 DEF IInv, TypeOK, UndoRename
  <2>6. rollbackFailure' \in BOOLEAN
    BY DEF IInv, TypeOK, UndoRename
  <2> QED
    BY <2>1, <2>2, <2>3, <2>4, <2>5, <2>6, OutputAssumption DEF IInv, TypeOK,
        UndoRename, setup, Steps, Exits, Writes
<1>2. Index'
  BY OutputAssumption DEF IInv, UndoRename, Index, Writes
<1>3. Control'
  BY DEF IInv, UndoRename, Control, Forward, Preparing, Placing, Undoing
<1>4. TargetsDiffer'
  BY DEF IInv, UndoRename, TargetsDiffer, setup
<1>5. TargetsChecked'
  BY DEF IInv, UndoRename, TargetsChecked
<1>6. OthersKept'
  BY DEF IInv, UndoRename, TypeOK, OthersKept, Index, setup
<1>7. Progress'
  BY DEF IInv, UndoRename, Progress, Preparing, Placing
<1>8. StagedFiles'
  BY DEF IInv, UndoRename, StagedFiles, Placing
<1>9. BackupFiles'
  BY OutputAssumption DEF IInv, UndoRename, TypeOK, BackupFiles
<1>10. Stages'
  BY OutputAssumption DEF IInv, UndoRename, TypeOK, Stages, Index,
      TargetsDiffer, Forward, Preparing, Placing, Cleaning, Fresh, AsRecorded,
      Undone, HalfUndone, setup, Writes
<1> QED
  BY <1>1, <1>2, <1>3, <1>4, <1>5, <1>6, <1>7, <1>8, <1>9, <1>10 DEF IInv

LEMMA UndoDoneKeeps ==
    ASSUME IInv, UndoDone, UNCHANGED alive
    PROVE  IInv'
<1>1. TypeOK'
  BY OutputAssumption DEF IInv, UndoDone, TypeOK, Steps, setup, disk, pending,
      errors
<1>2. Index'
  BY OutputAssumption DEF IInv, UndoDone, Index
<1>3. Control'
  BY DEF IInv, UndoDone, Control, Forward, Preparing, Placing, Undoing
<1>4. TargetsDiffer'
  BY DEF IInv, UndoDone, TargetsDiffer, setup
<1>5. TargetsChecked'
  BY DEF IInv, UndoDone, TargetsChecked
<1>6. OthersKept'
  BY DEF IInv, UndoDone, OthersKept, setup, disk
<1>7. Progress'
  BY DEF IInv, UndoDone, Progress, Preparing, Placing
<1>8. StagedFiles'
  BY DEF IInv, UndoDone, StagedFiles, Placing
<1>9. BackupFiles'
  BY DEF IInv, UndoDone, BackupFiles, disk, pending
<1>10. Stages'
  BY DEF IInv, UndoDone, Stages, Control, Forward, Preparing, Placing, Undoing,
      Undone, setup, disk, pending, errors, Writes
<1> QED
  BY <1>1, <1>2, <1>3, <1>4, <1>5, <1>6, <1>7, <1>8, <1>9, <1>10 DEF IInv

LEMMA CleanStagedKeeps ==
    ASSUME IInv, CleanStaged, UNCHANGED alive
    PROVE  IInv'
<1>1. TypeOK'
  <2>1. w \in Writes
    BY OutputAssumption DEF IInv, Index, CleanStaged, Writes
  <2>2. stagedFile' \in [Writes -> Disk]
    BY <2>1, Values DEF IInv, TypeOK, CleanStaged
  <2>3. cleanupFailure' \in BOOLEAN /\ deletionFailed' \in BOOLEAN
    BY DEF IInv, TypeOK, CleanStaged
  <2> QED
    BY <2>1, <2>2, <2>3, OutputAssumption DEF IInv, TypeOK, CleanStaged, setup,
        pending, Steps, Exits, Writes
<1>2. Index'
  BY DEF IInv, CleanStaged, Index, Writes
<1>3. Control'
  BY DEF IInv, CleanStaged, Control, Forward, Preparing, Placing, Undoing
<1>4. TargetsDiffer'
  BY DEF IInv, CleanStaged, TargetsDiffer, setup
<1>5. TargetsChecked'
  BY DEF IInv, CleanStaged, TargetsChecked
<1>6. OthersKept'
  BY DEF IInv, CleanStaged, OthersKept, setup
<1>7. Progress'
  BY DEF IInv, CleanStaged, Progress, Preparing, Placing
<1>8. StagedFiles'
  BY DEF IInv, CleanStaged, StagedFiles, Placing
<1>9. BackupFiles'
  BY DEF IInv, CleanStaged, BackupFiles, pending
<1>10. Stages'
  BY DEF IInv, CleanStaged, Stages, Forward, Preparing, Placing, Cleaning,
      Fresh, AsRecorded, Undone, AllInstalled, setup, pending
<1> QED
  BY <1>1, <1>2, <1>3, <1>4, <1>5, <1>6, <1>7, <1>8, <1>9, <1>10 DEF IInv

LEMMA CleanBackupKeeps ==
    ASSUME IInv, CleanBackup, UNCHANGED alive
    PROVE  IInv'
<1>1. TypeOK'
  <2>1. w \in Writes
    BY DEF IInv, Index, CleanBackup
  <2>2. backupFile' \in [Writes -> Disk]
    BY <2>1, Values DEF IInv, TypeOK, CleanBackup
  <2>3. cleanupFailure' \in BOOLEAN /\ deletionFailed' \in BOOLEAN
    BY DEF IInv, TypeOK, CleanBackup
  <2> QED
    BY <2>1, <2>2, <2>3, OutputAssumption DEF IInv, TypeOK, CleanBackup, setup,
        pending, Steps, Exits, Writes
<1>2. Index'
  BY OutputAssumption DEF IInv, CleanBackup, Index, Writes
<1>3. Control'
  BY DEF IInv, CleanBackup, Control, Forward, Preparing, Placing, Undoing
<1>4. TargetsDiffer'
  BY DEF IInv, CleanBackup, TargetsDiffer, setup
<1>5. TargetsChecked'
  BY DEF IInv, CleanBackup, TargetsChecked
<1>6. OthersKept'
  BY DEF IInv, CleanBackup, OthersKept, setup
<1>7. Progress'
  BY DEF IInv, CleanBackup, Progress, Preparing, Placing
<1>8. StagedFiles'
  BY DEF IInv, CleanBackup, StagedFiles, Placing
<1>9. BackupFiles'
  BY OutputAssumption DEF IInv, CleanBackup, TypeOK, BackupFiles, pending
<1>10. Stages'
  BY OutputAssumption DEF IInv, CleanBackup, TypeOK, Stages, Forward,
      Preparing, Placing, Cleaning, Fresh, AsRecorded, Undone, AllInstalled,
      PreserveBackups, setup, pending
<1> QED
  BY <1>1, <1>2, <1>3, <1>4, <1>5, <1>6, <1>7, <1>8, <1>9, <1>10 DEF IInv

LEMMA FinishKeeps ==
    ASSUME IInv, Finish, UNCHANGED alive
    PROVE  IInv'
<1>1. TypeOK'
  BY DEF IInv, Finish, TypeOK, Steps, Exits, Outcome, Exit, setup, disk,
      pending, errors
<1>2. Index'
  BY DEF IInv, Finish, Index, Exit
<1>3. Control'
  BY DEF IInv, Finish, Control, Forward, Preparing, Placing, Undoing, Outcome,
      Exit, errors
<1>4. TargetsDiffer'
  BY DEF IInv, Finish, TargetsDiffer, Control, setup
<1>5. TargetsChecked'
  BY DEF IInv, Finish, TargetsChecked, Exit
<1>6. OthersKept'
  BY DEF IInv, Finish, OthersKept, setup, disk
<1>7. Progress'
  BY DEF IInv, Finish, Progress, Preparing, Placing, Exit
<1>8. StagedFiles'
  BY DEF IInv, Finish, StagedFiles, Placing, Exit
<1>9. BackupFiles'
  BY DEF IInv, Finish, BackupFiles, disk, pending
<1>10. Stages'
  BY DEF IInv, Finish, Stages, Control, Forward, Preparing, Placing, Cleaning,
      Undone, AllInstalled, Outcome, Exit, setup, disk, pending, errors
<1> QED
  BY <1>1, <1>2, <1>3, <1>4, <1>5, <1>6, <1>7, <1>8, <1>9, <1>10 DEF IInv

LEMMA KillKeeps ==
    ASSUME IInv, Kill
    PROVE  IInv'
<1>1. TypeOK'
  <2> QED
    BY OutputAssumption DEF IInv, TypeOK, Kill, setup, disk, pending, errors,
        Steps, Exits, Writes
<1>2. Index'
  BY DEF IInv, Kill, Index
<1>3. Control'
  BY DEF IInv, Kill, Control, errors
<1>4. TargetsDiffer'
  BY DEF IInv, Kill, TargetsDiffer, setup
<1>5. TargetsChecked'
  BY DEF IInv, Kill, TargetsChecked, setup
<1>6. OthersKept'
  BY DEF IInv, Kill, OthersKept, setup, disk
<1>7. Progress'
  BY DEF IInv, Kill, Progress, Fresh, setup, disk, pending
<1>8. StagedFiles'
  BY DEF IInv, Kill, StagedFiles, setup, disk
<1>9. BackupFiles'
  BY DEF IInv, Kill, BackupFiles, disk, pending
<1>10. Stages'
  BY DEF IInv, Kill, Stages, Fresh, AsRecorded, Undone, HalfUndone,
      AllInstalled, setup, disk, pending, errors
<1> QED
  BY <1>1, <1>2, <1>3, <1>4, <1>5, <1>6, <1>7, <1>8, <1>9, <1>10 DEF IInv

LEMMA RestartKeeps ==
    ASSUME IInv, Restart
    PROVE  IInv'
<1>1. TypeOK'
  <2>1. NoFile \in [Writes -> Disk] /\ NoFlag \in [Writes -> BOOLEAN]
    BY Values DEF NoFile, NoFlag
  <2>2. orphans' \subseteq Contents
    BY DEF IInv, TypeOK, Restart
  <2>3. run' \in 1..MaxRuns
    BY OutputAssumption DEF IInv, TypeOK, Restart
  <2>4. stagedFile' \in [Writes -> Disk] /\ backupFile' \in [Writes -> Disk]
    BY <2>1 DEF Restart
  <2>5. /\ staged' \in [Writes -> BOOLEAN] /\ backup' \in [Writes -> BOOLEAN]
       /\ backedUp' \in [Writes -> BOOLEAN] /\ installed' \in [Writes -> BOOLEAN]
    BY <2>1 DEF Restart
  <2>6. /\ pc' \in Steps /\ exit' \in Exits
    BY DEF Restart, Steps, Exits
  <2>7. w' \in 0..(N + 1)
    BY OutputAssumption DEF Restart
  <2>8. /\ alive' \in BOOLEAN /\ failing' \in BOOLEAN
        /\ rollbackFailure' \in BOOLEAN /\ cleanupFailure' \in BOOLEAN
        /\ deletionFailed' \in BOOLEAN
    BY Zenon DEF Restart
  <2>9. /\ target' \in [Writes -> Files] /\ refused' \subseteq Files
       /\ out' \in [Files -> Contents \cup {Absent}]
       /\ before' \in [Files -> Contents \cup {Absent}]
    BY DEF IInv, TypeOK, Restart
  <2> QED
    BY <2>2, <2>3, <2>4, <2>5, <2>6, <2>7, <2>8, <2>9 DEF TypeOK
<1>2. Index'
  BY OutputAssumption DEF IInv, Restart, Index
<1>3. Control'
  BY DEF IInv, Restart, Control, Undoing
<1>4. TargetsDiffer'
  BY DEF IInv, Restart, TargetsDiffer
<1>5. TargetsChecked'
  BY DEF IInv, Restart, TargetsChecked, Writes
<1>6. OthersKept'
  BY DEF IInv, Restart, OthersKept
<1>7. Progress'
  BY DEF IInv, Restart, Progress, Fresh, NoFlag, Writes
<1>8. StagedFiles'
  BY DEF IInv, Restart, StagedFiles, Placing
<1>9. BackupFiles'
  BY DEF IInv, Restart, BackupFiles, NoFile
<1>10. Stages'
  BY DEF IInv, Restart, Stages, Cleaning, AsRecorded, NoFlag
<1> QED
  BY <1>1, <1>2, <1>3, <1>4, <1>5, <1>6, <1>7, <1>8, <1>9, <1>10 DEF IInv

-----------------------------------------------------------------------------
(* The invariant holds, and what follows from it.                          *)

LEMMA InitEstablishes == Init => IInv
<1> SUFFICES ASSUME Init PROVE IInv
  OBVIOUS
<1>1. TypeOK
  <2>1. PICK existing \in SUBSET Files :
          /\ out = [f \in Files |-> IF f \in existing THEN Original(f) ELSE Absent]
          /\ refused \in SUBSET existing
    BY DEF Init
  <2>2. out \in [Files -> Contents \cup {Absent}]
    BY <2>1, Values
  <2>3. refused \subseteq Files
    BY <2>1
  <2>4. /\ stagedFile \in [Writes -> Disk] /\ backupFile \in [Writes -> Disk]
        /\ staged \in [Writes -> BOOLEAN] /\ backup \in [Writes -> BOOLEAN]
        /\ backedUp \in [Writes -> BOOLEAN] /\ installed \in [Writes -> BOOLEAN]
    BY Values DEF Init, Idle, NoFile, NoFlag
  <2>5. /\ run \in 1..MaxRuns /\ orphans \subseteq Contents
        /\ target \in [Writes -> Files] /\ before = out
    BY OutputAssumption DEF Init
  <2>6. /\ pc \in Steps /\ exit \in Exits
    BY DEF Init, Idle, Steps, Exits
  <2>7. w \in 0..(N + 1)
    BY OutputAssumption DEF Init, Idle
  <2>8. /\ alive \in BOOLEAN /\ failing \in BOOLEAN
        /\ rollbackFailure \in BOOLEAN /\ cleanupFailure \in BOOLEAN
        /\ deletionFailed \in BOOLEAN
    BY Zenon DEF Init, Idle
  <2> QED
    BY <2>2, <2>3, <2>4, <2>5, <2>6, <2>7, <2>8 DEF TypeOK
<1>2. Index /\ Control
  BY OutputAssumption DEF Init, Idle, Index, Control, Forward, Preparing, Placing,
     Undoing
<1>3. TargetsDiffer /\ TargetsChecked /\ OthersKept
  BY OutputAssumption DEF Init, Idle, TargetsDiffer, TargetsChecked, OthersKept,
     Writes
<1>4. \A i \in Writes : Fresh(i) /\ AsRecorded(i)
  BY DEF Init, Idle, NoFlag, Fresh, AsRecorded
<1>5. Progress /\ StagedFiles /\ BackupFiles /\ Stages
  BY <1>4 DEF Init, Idle, NoFile, NoFlag, Progress, StagedFiles, BackupFiles,
     Stages, Preparing, Placing, Forward, Undoing, Cleaning
<1> QED
  BY <1>1, <1>2, <1>3, <1>5 DEF IInv

LEMMA ProgramKeeps ==
    ASSUME IInv, Advance
    PROVE  IInv'
<1>1. CASE CheckRefuses \/ CheckPasses
  BY <1>1, CheckRefusesKeeps, CheckPassesKeeps DEF Advance
<1>2. CASE StageCreate \/ StageWrite \/ StageDone \/ StageWriteFails
  BY <1>2, StageCreateKeeps, StageWriteKeeps, StageDoneKeeps, StageWriteFailsKeeps
     DEF Advance
<1>3. CASE InstallNext \/ BackupCreate \/ BackupClose \/ BackupCloseFails
  BY <1>3, InstallNextKeeps, BackupCreateKeeps, BackupCloseKeeps,
     BackupCloseFailsKeeps DEF Advance
<1>4. CASE BackupMove \/ Move \/ Chmod \/ CallFails \/ InstallDone
  BY <1>4, BackupMoveKeeps, MoveKeeps, ChmodKeeps, CallFailsKeeps, InstallDoneKeeps
     DEF Advance
<1>5. CASE UndoRemove \/ UndoRename \/ UndoDone
  BY <1>5, UndoRemoveKeeps, UndoRenameKeeps, UndoDoneKeeps DEF Advance
<1>6. CASE CleanStaged \/ CleanBackup \/ Finish
  BY <1>6, CleanStagedKeeps, CleanBackupKeeps, FinishKeeps DEF Advance
<1> QED
  BY <1>1, <1>2, <1>3, <1>4, <1>5, <1>6 DEF Advance, Program

LEMMA StepKeeps == IInv /\ [Next]_vars => IInv'
<1> SUFFICES ASSUME IInv, [Next]_vars PROVE IInv'
  OBVIOUS
<1>1. CASE Advance
  BY <1>1, ProgramKeeps
<1>2. CASE Kill
  BY <1>2, KillKeeps
<1>3. CASE Restart
  BY <1>3, RestartKeeps
<1>4. CASE UNCHANGED vars
  <2>1. TypeOK' /\ Index' /\ Control'
    BY <1>4 DEF vars, setup, disk, pending, errors, IInv, TypeOK, Index, Control
  <2>2. TargetsDiffer' /\ TargetsChecked' /\ OthersKept'
    BY <1>4 DEF vars, setup, disk, IInv, TargetsDiffer, TargetsChecked, OthersKept
  <2>3. Progress' /\ StagedFiles' /\ BackupFiles'
    BY <1>4 DEF vars, setup, disk, pending, IInv, Progress, StagedFiles, BackupFiles,
       Fresh
  <2>4. Stages'
    BY <1>4 DEF vars, setup, disk, pending, errors, IInv, Stages, Fresh, AsRecorded,
       Undone, HalfUndone, AllInstalled
  <2> QED
    BY <2>1, <2>2, <2>3, <2>4 DEF IInv
<1> QED
  BY <1>1, <1>2, <1>3, <1>4 DEF Next

\* The inductive invariant: what every state of write_file_set, of the killed
\* program and of the next run satisfies.
THEOREM Invariance == Spec => []IInv
<1>1. Init => IInv
  BY InitEstablishes
<1>2. IInv /\ [Next]_vars => IInv'
  BY StepKeeps
<1> QED
  BY <1>1, <1>2, PTL DEF Spec

\* Type correctness: the flags, files, loop index and outcome of write_file_set
\* stay in their ranges, in particular no loop leaves the vector of writes.
THEOREM TypeCorrect == Spec => []TypeOK
<1>1. IInv => TypeOK
  BY DEF IInv
<1> QED
  BY <1>1, Invariance, PTL

LEMMA RestoredOnFailure == IInv => FailureRestoresOutputs
<1> SUFFICES ASSUME IInv,
                    exit \in {"refused", "failed", "failed_cleanup_incomplete"}
             PROVE  out = before
  BY DEF FailureRestoresOutputs
<1>1. \A i \in Writes : out[target[i]] = before[target[i]]
  BY DEF IInv, Control, Stages, Fresh, AsRecorded, Undone, Cleaning
<1>2. \A f \in Files : out[f] = before[f]
  BY <1>1 DEF IInv, OthersKept
<1> QED
  BY <1>2 DEF IInv, TypeOK

\* The catch block of write_file_set puts every output back: a run that returns
\* an ordinary failure has changed none of them.
THEOREM FailureRestores == Spec => []FailureRestoresOutputs
<1> QED
  BY RestoredOnFailure, Invariance, PTL

\* A run that returns success holds every new output, each under its own name,
\* and has changed no other file.
THEOREM SuccessInstalls == Spec => []SuccessInstallsAll
<1>1. IInv => SuccessInstallsAll
  BY DEF IInv, Control, Stages, Cleaning, OthersKept, SuccessInstallsAll
<1> QED
  BY <1>1, Invariance, PTL

\* What a run reports is what is on disk: OutcomeIsTrue.
THEOREM OutcomesAreTrue == Spec => []OutcomeIsTrue
<1>1. FailureRestoresOutputs /\ SuccessInstallsAll => OutcomeIsTrue
  BY DEF OutcomeIsTrue
<1> QED
  BY <1>1, FailureRestores, SuccessInstalls, PTL

\* Whenever the process stops, the old bytes of each output are at its path or in
\* its backup file, unless all the new ones are installed.
THEOREM OldBytesStay == Spec => []OldBytesOnDisk
<1>1. IInv => OldBytesOnDisk
  <2> SUFFICES ASSUME IInv, ~AllInstalled, NEW f \in Files
               PROVE  \/ out[f] = before[f]
                      \/ before[f] = Absent
                      \/ \E i \in Writes : target[i] = f /\ backupFile[i] = before[f]
    BY DEF OldBytesOnDisk
  <2>1. CASE \A i \in Writes : target[i] # f
    BY <2>1 DEF IInv, OthersKept
  <2>2. ASSUME NEW i \in Writes, target[i] = f
        PROVE  \/ out[f] = before[f]
               \/ before[f] = Absent
               \/ backupFile[i] = before[f]
    <3>1. CASE AsRecorded(i)
      BY <2>2, <3>1 DEF AsRecorded
    <3>2. CASE Undone(i)
      BY <2>2, <3>2 DEF Undone
    <3>3. CASE i = w /\ HalfUndone(w)
      BY <2>2, <3>3 DEF HalfUndone
    <3>4. AsRecorded(i) \/ Undone(i) \/ (i = w /\ HalfUndone(w))
      <4>1. /\ pc \in Steps /\ w \in 0..(N + 1) /\ N \in Nat
            /\ exit # "refused" \/ pc = "exited"
        BY OutputAssumption DEF IInv, TypeOK, Control
      <4>2. i < w \/ i = w \/ i > w
        BY <4>1 DEF Writes
      <4> QED
        BY <4>1, <4>2 DEF IInv, Stages, Steps, Forward, Preparing, Placing, Cleaning,
           Writes
    <3> QED
      BY <3>1, <3>2, <3>3, <3>4
  <2> QED
    BY <2>1, <2>2
<1> QED
  BY <1>1, Invariance, PTL

-----------------------------------------------------------------------------
(* Temporary files: the flags of PendingWrite know every one of them, and  *)
(* the cleanup loop comes past all.  Only a removal that fails hides one.  *)

\* Each temporary file has its flag set, but for the one being written.
Tracked ==
    deletionFailed \/ \A i \in Writes :
        /\ stagedFile[i] # Absent => staged[i] \/ (pc = "stage_write" /\ i = w)
        /\ backupFile[i] # Absent => backup[i] \/ (pc = "backup_close" /\ i = w)

BackupTracked == pc = "backup_move" => backup[w]

NothingCreated == pc = "check" => stagedFile = NoFile /\ backupFile = NoFile

\* A write the cleanup loop is done with.
Swept(i) == stagedFile[i] = Absent /\ (rollbackFailure \/ backupFile[i] = Absent)

Sweeping ==
    deletionFailed \/
        /\ pc = "clean_staged" => \A i \in Writes : i < w => Swept(i)
        /\ pc = "clean_backup" =>
             /\ stagedFile[w] = Absent
             /\ \A i \in Writes : i < w => Swept(i)
        /\ pc = "exited" => \A i \in Writes : Swept(i)

\* Backups are kept on purpose only by a run that says so.
KeepingReported ==
    /\ rollbackFailure => failing
    /\ pc = "exited" /\ rollbackFailure => exit = "rollback_incomplete"

CleanInv == Tracked /\ BackupTracked /\ NothingCreated /\ Sweeping /\ KeepingReported

LEMMA StagingKeepsClean ==
    ASSUME IInv, CleanInv,
           \/ CheckRefuses \/ CheckPasses
           \/ StageCreate \/ StageWrite \/ StageDone \/ StageWriteFails
    PROVE  CleanInv'
<1> USE DEF CleanInv
<1>1. CASE CheckRefuses
  BY <1>1 DEF IInv, Control, CheckRefuses, Exit, setup, disk, pending, errors,
     Tracked, BackupTracked, NothingCreated, Sweeping, Swept, KeepingReported,
     NoFile, Forward, Preparing
<1>2. CASE CheckPasses
  BY <1>2 DEF CheckPasses, setup, disk, pending, errors,
     Tracked, BackupTracked, NothingCreated, Sweeping, Swept, KeepingReported
<1>3. CASE StageCreate
  BY <1>3 DEF IInv, TypeOK, StageCreate, setup, pending, errors,
     Tracked, BackupTracked, NothingCreated, Sweeping, Swept, KeepingReported
<1>4. CASE StageWrite
  BY <1>4 DEF IInv, TypeOK, StageWrite, setup, errors,
     Tracked, BackupTracked, NothingCreated, Sweeping, Swept, KeepingReported
<1>5. CASE StageDone
  BY <1>5 DEF StageDone, setup, disk, pending, errors,
     Tracked, BackupTracked, NothingCreated, Sweeping, Swept, KeepingReported
<1>6. CASE StageWriteFails
  BY <1>6 DEF IInv, TypeOK, StageWriteFails, Throw, setup, pending,
     Tracked, BackupTracked, NothingCreated, Sweeping, Swept, KeepingReported
<1> QED
  BY <1>1, <1>2, <1>3, <1>4, <1>5, <1>6

LEMMA InstallingKeepsClean ==
    ASSUME IInv, CleanInv,
           \/ InstallNext \/ BackupCreate \/ BackupClose \/ BackupCloseFails
           \/ BackupMove \/ Move \/ Chmod \/ CallFails \/ InstallDone
    PROVE  CleanInv'
<1> USE DEF CleanInv
<1>1. CASE InstallNext \/ Chmod
  BY <1>1 DEF InstallNext, Chmod, setup, disk, pending, errors,
     Tracked, BackupTracked, NothingCreated, Sweeping, Swept, KeepingReported
<1>2. CASE BackupCreate
  BY <1>2 DEF IInv, TypeOK, BackupCreate, setup, pending, errors,
     Tracked, BackupTracked, NothingCreated, Sweeping, Swept, KeepingReported
<1>3. CASE BackupClose
  BY <1>3 DEF IInv, TypeOK, Index, BackupClose, setup, disk, errors,
     Tracked, BackupTracked, NothingCreated, Sweeping, Swept, KeepingReported
<1>4. CASE BackupCloseFails
  BY <1>4 DEF IInv, TypeOK, BackupCloseFails, Throw, setup, pending,
     Tracked, BackupTracked, NothingCreated, Sweeping, Swept, KeepingReported
<1>5. CASE BackupMove
  BY <1>5 DEF IInv, TypeOK, BackupMove, setup, errors,
     Tracked, BackupTracked, NothingCreated, Sweeping, Swept, KeepingReported
<1>6. CASE Move
  BY <1>6 DEF IInv, TypeOK, Move, setup, errors,
     Tracked, BackupTracked, NothingCreated, Sweeping, Swept, KeepingReported
<1>7. CASE CallFails
  BY <1>7 DEF CallFails, Throw, setup, disk, pending,
     Tracked, BackupTracked, NothingCreated, Sweeping, Swept, KeepingReported
<1>8. CASE InstallDone
  BY <1>8, OutputAssumption DEF InstallDone, setup, disk, pending, errors, Writes,
     Tracked, BackupTracked, NothingCreated, Sweeping, Swept, KeepingReported
<1> QED
  BY <1>1, <1>2, <1>3, <1>4, <1>5, <1>6, <1>7, <1>8

LEMMA EndingKeepsClean ==
    ASSUME IInv, CleanInv,
           \/ UndoRemove \/ UndoRename \/ UndoDone
           \/ CleanStaged \/ CleanBackup \/ Finish
    PROVE  CleanInv'
<1> USE DEF CleanInv
<1>1. CASE UndoRemove
  BY <1>1 DEF IInv, Control, Undoing, UndoRemove, setup, pending,
     Tracked, BackupTracked, NothingCreated, Sweeping, Swept, KeepingReported
<1>2. CASE UndoRename
  BY <1>2 DEF IInv, TypeOK, Control, Undoing, UndoRename, setup,
     Tracked, BackupTracked, NothingCreated, Sweeping, Swept, KeepingReported
<1>3. CASE UndoDone
  BY <1>3, OutputAssumption DEF UndoDone, setup, disk, pending, errors, Writes,
     Tracked, BackupTracked, NothingCreated, Sweeping, Swept, KeepingReported
<1>4. CASE CleanStaged
  <2>1. w \in Writes
    BY <1>4, OutputAssumption DEF IInv, Index, CleanStaged, Writes
  <2> QED
    BY <1>4, <2>1, OutputAssumption DEF IInv, TypeOK, CleanStaged, setup, pending,
       Tracked, BackupTracked, NothingCreated, Sweeping, Swept, KeepingReported
<1>5. CASE CleanBackup
  <2>1. w \in Writes
    BY <1>5 DEF IInv, Index, CleanBackup
  <2> QED
    BY <1>5, <2>1, OutputAssumption DEF IInv, TypeOK, CleanBackup, PreserveBackups,
       setup, pending, Writes,
       Tracked, BackupTracked, NothingCreated, Sweeping, Swept, KeepingReported
<1>6. CASE Finish
  <2>1. \A i \in Writes : i < w
    BY <1>6, OutputAssumption DEF IInv, Index, Finish, Writes
  <2> QED
    BY <1>6, <2>1 DEF Finish, Exit, Outcome, setup, disk, pending, errors,
       Tracked, BackupTracked, NothingCreated, Sweeping, Swept, KeepingReported
<1> QED
  BY <1>1, <1>2, <1>3, <1>4, <1>5, <1>6

LEMMA StepKeepsClean == IInv /\ CleanInv /\ [Next]_vars => CleanInv'
<1> SUFFICES ASSUME IInv, CleanInv, [Next]_vars PROVE CleanInv'
  OBVIOUS
<1>1. CASE Advance
  BY <1>1, StagingKeepsClean, InstallingKeepsClean, EndingKeepsClean
     DEF Advance, Program
<1>2. CASE Kill \/ UNCHANGED vars
  BY <1>2 DEF CleanInv, Kill, vars, setup, disk, pending, errors,
     Tracked, BackupTracked, NothingCreated, Sweeping, Swept, KeepingReported
<1>3. CASE Restart
  BY <1>3 DEF CleanInv, Restart, NoFile,
     Tracked, BackupTracked, NothingCreated, Sweeping, KeepingReported
<1> QED
  BY <1>1, <1>2, <1>3 DEF Next

\* A run that has ended, and whose removals all succeeded, leaves no temporary
\* file behind, whichever call of write_file_set failed; only a run that reports
\* an incomplete rollback keeps backups.
THEOREM NothingLeft == Spec => []NoLeftovers
<1>1. Init => CleanInv
  BY DEF Init, Idle, CleanInv, NoFile,
     Tracked, BackupTracked, NothingCreated, Sweeping, KeepingReported
<1>2. CleanInv => NoLeftovers
  BY DEF CleanInv, Sweeping, Swept, KeepingReported, NoLeftovers, Temporaries
<1> QED
  BY <1>1, <1>2, StepKeepsClean, Invariance, PTL DEF Spec

-----------------------------------------------------------------------------
(* What a step may destroy.                                                *)

\* A write whose backup file was never filled holds nothing there.
LEMMA UnfilledBackup ==
    ASSUME IInv, NEW i \in Writes, ~backedUp[i]
    PROVE  backupFile[i] \notin Contents
BY Values DEF IInv, BackupFiles

LEMMA HeldUnlessTouched ==
    ASSUME NEW c \in Contents, Held(c), UNCHANGED <<out, backupFile, orphans>>
    PROVE  Held(c)'
BY DEF Held

LEMMA CopyKept ==
    ASSUME IInv, NEW c \in Contents, c[1] < run, Held(c), ~AllInstalled, [Next]_vars
    PROVE  Held(c)'
<1> USE DEF Held
<1>1. CASE UNCHANGED <<out, backupFile, orphans>>
  BY <1>1, HeldUnlessTouched
<1>2. CASE BackupCreate
  <2>1. w \in Writes /\ ~backedUp[w]
    BY <1>2, OutputAssumption DEF IInv, Index, Progress, Placing, Fresh, BackupCreate,
       Writes
  <2> QED
    BY <1>2, <2>1, UnfilledBackup DEF IInv, TypeOK, BackupCreate
<1>3. CASE BackupCloseFails
  <2>1. w \in Writes /\ ~backedUp[w]
    BY <1>3, OutputAssumption DEF IInv, Index, Progress, Placing, Fresh,
       BackupCloseFails, Writes
  <2> QED
    BY <1>3, <2>1, UnfilledBackup DEF IInv, TypeOK, BackupCloseFails
<1>4. CASE BackupMove
  <2>1. w \in Writes /\ ~backedUp[w] /\ target[w] \in Files
    BY <1>4 DEF IInv, TypeOK, Index, Progress, Placing, Fresh, BackupMove
  <2> QED
    BY <1>4, <2>1, UnfilledBackup DEF IInv, TypeOK, BackupMove
<1>5. CASE Move
  <2>1. w \in Writes /\ out[target[w]] = Absent
    BY <1>5 DEF IInv, Index, Progress, Move
  <2> QED
    BY <1>5, <2>1, Values DEF IInv, TypeOK, Move
<1>6. CASE UndoRemove
  <2>1. CASE installed[w]
    <3>1. w \in Writes /\ AsRecorded(w)
      BY <1>6, OutputAssumption DEF IInv, Index, Stages, UndoRemove, Writes
    <3>2. out[target[w]] = Bytes(run, w)
      BY <2>1, <3>1 DEF AsRecorded
    <3>3. c # out[target[w]]
      BY <3>2 DEF IInv, TypeOK, Bytes
    <3> QED
      BY <1>6, <2>1, <3>1, <3>3 DEF IInv, TypeOK, UndoRemove
  <2> QED
    BY <1>1, <1>6, <2>1 DEF UndoRemove
<1>7. CASE UndoRename
  <2>1. CASE backedUp[w]
    <3>1. w \in Writes /\ HalfUndone(w) /\ target[w] \in Files
      BY <1>7 DEF IInv, TypeOK, Index, Stages, UndoRename
    <3>2. out[target[w]] \in {Absent, Bytes(run, w)}
      BY <2>1, <3>1 DEF HalfUndone
    <3>3. c # out[target[w]]
      BY <3>2, Values DEF IInv, TypeOK, Bytes
    <3> QED
      BY <1>7, <2>1, <3>1, <3>3 DEF IInv, TypeOK, UndoRename
  <2> QED
    BY <1>1, <1>7, <2>1 DEF UndoRename
<1>8. CASE CleanBackup
  <2>1. CASE backup[w] /\ ~PreserveBackups
    <3>1. w \in Writes /\ Undone(w)
      BY <1>8 DEF IInv, Index, Stages, Control, CleanBackup, Cleaning
    <3>2. backupFile[w] \notin Contents
      BY <2>1, <3>1, UnfilledBackup DEF Undone, PreserveBackups
    <3> QED
      BY <1>8, <3>1, <3>2 DEF IInv, TypeOK, CleanBackup
  <2> QED
    BY <1>1, <1>8, <2>1 DEF CleanBackup
<1>9. CASE Restart
  BY <1>9 DEF Restart
<1>10. CASE Advance
  <2>1. \/ UNCHANGED <<out, backupFile, orphans>>
        \/ BackupCreate \/ BackupCloseFails \/ BackupMove \/ Move
        \/ UndoRemove \/ UndoRename \/ CleanBackup
    BY <1>10 DEF Advance, Program, disk, CheckRefuses, CheckPasses, StageCreate,
       StageWrite, StageDone, StageWriteFails, InstallNext, BackupClose, Chmod,
       CallFails, InstallDone, UndoDone, CleanStaged, Finish
  <2> QED
    BY <1>1, <1>2, <1>3, <1>4, <1>5, <1>6, <1>7, <1>8, <2>1
<1>11. CASE Kill \/ UNCHANGED vars
  BY <1>1, <1>11 DEF Kill, vars, disk
<1> QED
  BY <1>9, <1>10, <1>11 DEF Next

\* Over any number of runs, whatever way they end: the last copy of something
\* stored before this run, at an output path, in a backup file or in a file an
\* earlier run left, goes only after every output of this run is in place.
THEOREM LastCopyStays == Spec => LastCopyOnlyAfterInstall
<1>1. IInv /\ [Next]_vars =>
        [\A c \in Contents : (c[1] < run /\ Held(c) /\ ~Held(c)') => AllInstalled]_vars
  BY CopyKept
<1> QED
  BY <1>1, Invariance, PTL DEF Spec, LastCopyOnlyAfterInstall

-----------------------------------------------------------------------------
(* Refinement of AtomicPackage.                                            *)

\* Until a run has committed, what an output held can be found: in the backup
\* if there is one, nowhere if a new file took an empty place, else in place.
Kept(i) ==
    IF backedUp[i]
      THEN \/ backupFile[i] = before[target[i]] /\ before[target[i]] # Absent
           \/ backupFile[i] = Absent /\ out[target[i]] = before[target[i]]
      ELSE IF installed[i] THEN before[target[i]] = Absent
           ELSE out[target[i]] = before[target[i]]

Recovery == ~Committed => \A i \in Writes : Kept(i)

\* No output ever holds anything but what it held, its new bytes or nothing.
Known == \A i \in Writes :
            out[target[i]] \in {before[target[i]], Bytes(run, i), Absent}

LEMMA RecordedIsKept ==
    ASSUME NEW i \in Writes, AsRecorded(i)
    PROVE  Kept(i)
BY DEF AsRecorded, Kept

LEMMA RecordedIsKnown ==
    ASSUME NEW i \in Writes, AsRecorded(i)
    PROVE  out[target[i]] \in {before[target[i]], Bytes(run, i), Absent}
BY DEF AsRecorded

\* Up to the end of the installation the flags tell it.
LEMMA ForwardRecovers ==
    IInv /\ (pc \in Forward \/ exit = "refused") => Recovery /\ Known
<1> SUFFICES ASSUME IInv, pc \in Forward \/ exit = "refused" PROVE Recovery /\ Known
  OBVIOUS
<1>1. \A i \in Writes : AsRecorded(i)
  BY DEF IInv, Stages
<1> QED
  BY <1>1, RecordedIsKept, RecordedIsKnown DEF Recovery, Known

LEMMA TargetsOwn ==
    ASSUME IInv, pc # "check", exit # "refused",
           NEW i \in Writes, NEW j \in Writes, i # j
    PROVE  target[i] # target[j]
BY DEF IInv, TargetsDiffer

LEMMA UndoingRecovers ==
    ASSUME IInv, Recovery, Known, UndoRemove \/ UndoRename
    PROVE  Recovery' /\ Known'
<1>1. ~Committed /\ w \in Writes /\ target \in [Writes -> Files]
  BY OutputAssumption DEF IInv, TypeOK, Index, Committed, UndoRemove, UndoRename,
     Writes
<1>2. /\ \A i \in Writes : Kept(i)
      /\ \A i \in Writes : i # w => target[i] # target[w]
  BY <1>1, TargetsOwn DEF Recovery, IInv, Control, UndoRemove, UndoRename
<1>3. CASE UndoRemove
  <2>1. AsRecorded(w)
    BY <1>1, <1>3, OutputAssumption DEF IInv, Stages, UndoRemove, Writes
  <2>2. Known'
    BY <1>1, <1>2, <1>3 DEF IInv, TypeOK, Known, UndoRemove, setup
  <2>3. ASSUME NEW i \in Writes PROVE Kept(i)'
    <3>1. CASE i = w
      BY <1>1, <1>2, <1>3, <2>1, <3>1 DEF IInv, TypeOK, Kept, AsRecorded, UndoRemove,
         setup, pending
    <3>2. CASE i # w
      BY <1>1, <1>2, <1>3, <3>2 DEF IInv, TypeOK, Kept, UndoRemove, setup, pending
    <3> QED
      BY <3>1, <3>2
  <2> QED
    BY <2>2, <2>3 DEF Recovery
<1>4. CASE UndoRename
  <2>1. HalfUndone(w)
    BY <1>4 DEF IInv, Stages, UndoRename
  <2>2. Known'
    BY <1>1, <1>2, <1>4, <2>1 DEF IInv, TypeOK, Known, HalfUndone, UndoRename, setup
  <2>3. ASSUME NEW i \in Writes PROVE Kept(i)'
    <3>1. CASE i = w
      BY <1>1, <1>2, <1>4, <2>1, <3>1 DEF IInv, TypeOK, Kept, HalfUndone, UndoRename,
         setup
    <3>2. CASE i # w
      BY <1>1, <1>2, <1>4, <3>2 DEF IInv, TypeOK, Kept, UndoRename, setup
    <3> QED
      BY <3>1, <3>2
  <2> QED
    BY <2>2, <2>3 DEF Recovery
<1> QED
  BY <1>3, <1>4

LEMMA CleaningRecovers ==
    ASSUME IInv, Recovery, Known,
           UndoDone \/ CleanStaged \/ CleanBackup \/ Finish
    PROVE  Recovery' /\ Known'
<1>1. Known'
  BY DEF Known, UndoDone, CleanStaged, CleanBackup, Finish, setup, disk
<1>2. CASE UndoDone \/ CleanStaged \/ Finish
  <2>1. Committed \/ ~Committed'
    BY <1>2 DEF IInv, Control, Undoing, Committed, UndoDone, CleanStaged, Finish, Exit,
       Outcome, errors
  <2>2. Committed => Committed'
    BY <1>2 DEF Committed, UndoDone, CleanStaged, Finish, Exit, Outcome, errors
  <2> QED
    BY <1>1, <1>2, <2>1, <2>2 DEF Recovery, Kept, UndoDone, CleanStaged, Finish, setup,
       disk, pending
<1>3. CASE CleanBackup
  <2>1. Committed' <=> Committed
    BY <1>3 DEF Committed, CleanBackup
  <2>2. ASSUME ~Committed, NEW i \in Writes PROVE Kept(i)'
    <3>1. failing /\ w \in Writes
      BY <1>3, <2>2 DEF IInv, Index, Control, Committed, CleanBackup
    <3>2. Kept(i) /\ Undone(i)
      BY <1>3, <2>2, <3>1 DEF Recovery, IInv, Stages, Cleaning, CleanBackup
    <3>3. CASE i = w /\ backup[w] /\ ~PreserveBackups
      BY <1>3, <3>1, <3>2, <3>3 DEF IInv, TypeOK, Kept, Undone, PreserveBackups,
         CleanBackup, setup, pending
    <3>4. CASE ~(i = w /\ backup[w] /\ ~PreserveBackups)
      BY <1>3, <3>1, <3>2, <3>4 DEF IInv, TypeOK, Kept, CleanBackup, setup, pending
    <3> QED
      BY <3>3, <3>4
  <2> QED
    BY <1>1, <2>1, <2>2 DEF Recovery
<1> QED
  BY <1>2, <1>3

LEMMA ThrowingRecovers ==
    ASSUME IInv, Recovery, Known, StageWriteFails \/ BackupCloseFails \/ CallFails
    PROVE  Recovery' /\ Known'
<1>1. ~Committed /\ ~Committed'
  BY DEF Committed, StageWriteFails, BackupCloseFails, CallFails, Throw
<1>2. UNCHANGED <<setup, out, backedUp, installed>>
  BY DEF StageWriteFails, BackupCloseFails, CallFails, disk, pending
<1>3. ASSUME NEW i \in Writes PROVE Kept(i)'
  <2>1. Kept(i)
    BY <1>1 DEF Recovery
  <2>2. backedUp[i] => backupFile'[i] = backupFile[i]
    <3>1. CASE BackupCloseFails
      <4>1. w \in Writes /\ ~backedUp[w]
        BY <3>1, OutputAssumption DEF IInv, Index, Progress, Placing, Fresh,
           BackupCloseFails, Writes
      <4> QED
        BY <3>1, <4>1 DEF IInv, TypeOK, BackupCloseFails
    <3> QED
      BY <3>1 DEF StageWriteFails, CallFails, disk
  <2> QED
    BY <1>2, <2>1, <2>2 DEF Kept, setup
<1> QED
  BY <1>1, <1>2, <1>3 DEF Recovery, Known, setup

LEMMA StepRecovers == IInv /\ Recovery /\ Known /\ [Next]_vars => Recovery' /\ Known'
<1> SUFFICES ASSUME IInv, Recovery, Known, [Next]_vars PROVE Recovery' /\ Known'
  OBVIOUS
<1>1. IInv'
  BY StepKeeps
<1>2. IInv' /\ (pc \in Forward \/ exit = "refused")' => Recovery' /\ Known'
  BY ForwardRecovers, PTL
<1>3. CASE pc' \in Forward \/ exit' = "refused"
  BY <1>1, <1>2, <1>3
<1>4. CASE InstallDone
  <2>1. Committed'
    BY <1>4 DEF IInv, Control, Forward, Placing, Committed, InstallDone, errors
  <2> QED
    BY <1>4, <2>1 DEF Recovery, Known, InstallDone, setup, disk
<1>5. CASE Advance
  <2>1. \/ pc' \in Forward \/ exit' = "refused"
        \/ StageWriteFails \/ BackupCloseFails \/ CallFails \/ InstallDone
        \/ UndoRemove \/ UndoRename
        \/ UndoDone \/ CleanStaged \/ CleanBackup \/ Finish
    BY <1>5 DEF Advance, Program, Exit, CheckRefuses, CheckPasses, StageCreate,
       StageWrite, StageDone, InstallNext, BackupCreate, BackupClose, BackupMove, Move,
       Chmod, Forward, Preparing, Placing
  <2> QED
    BY <1>3, <1>4, <2>1, ThrowingRecovers, UndoingRecovers, CleaningRecovers
<1>6. CASE Kill \/ UNCHANGED vars
  BY <1>6 DEF Kill, vars, setup, disk, pending, errors, Recovery, Known, Kept, Committed
<1>7. CASE Restart
  BY <1>3, <1>7 DEF Restart, Forward, Preparing
<1> QED
  BY <1>5, <1>6, <1>7 DEF Next

\* What the user can get back is what the run found, until it commits ...
LEMMA PackageBefore == IInv /\ Recovery /\ ~Committed => Package = before
<1> SUFFICES ASSUME IInv, Recovery, ~Committed, NEW f \in Files
             PROVE  Recoverable(f) = before[f]
  BY DEF Package, IInv, TypeOK
<1>1. CASE \A i \in Writes : target[i] # f
  BY <1>1 DEF IInv, OthersKept, Recoverable
<1>2. ASSUME NEW i \in Writes, target[i] = f
      PROVE  Recoverable(f) = before[f]
  <2>1. Kept(i)
    BY DEF Recovery
  <2>2. CASE \A j \in Writes : target[j] = f => Fresh(j)
    BY <1>2, <2>1, <2>2 DEF Recoverable, Kept, Fresh
  <2>3. ASSUME NEW k \in Writes, target[k] = f, ~Fresh(k)
        PROVE  Recoverable(f) = before[f]
    <3>1. pc # "check" /\ exit # "refused"
      BY <2>3 DEF IInv, Progress, Preparing, Stages
    <3>2. \A j \in Writes : target[j] = f <=> j = i
      BY <1>2, <3>1, TargetsOwn
    <3>3. CASE backedUp[i]
      <4>1. (CHOOSE j \in Writes : target[j] = f /\ backedUp[j]) = i
        BY <3>2, <3>3
      <4> QED
        BY <1>2, <2>1, <3>2, <3>3, <4>1 DEF Recoverable, Kept
    <3>4. CASE ~backedUp[i]
      BY <1>2, <2>1, <3>2, <3>4 DEF Recoverable, Kept
    <3> QED
      BY <3>3, <3>4
  <2> QED
    BY <2>2, <2>3
<1> QED
  BY <1>1, <1>2

\* ... and from then on it is what the run wanted.
LEMMA PackageAfter == IInv /\ Committed => Package = WantedFiles
<1> SUFFICES ASSUME IInv, Committed, NEW f \in Files
             PROVE  out[f] = Wanted(f)
  BY DEF Package, WantedFiles
<1>1. AllInstalled
  BY DEF IInv, Stages, Committed, Cleaning
<1>2. CASE \A i \in Writes : target[i] # f
  BY <1>2 DEF IInv, OthersKept, Wanted
<1>3. CASE \E i \in Writes : target[i] = f
  BY <1>1, <1>3 DEF AllInstalled, Wanted
<1> QED
  BY <1>2, <1>3

LEMMA WantedIsValue == IInv => WantedFiles \in [Files -> Contents \cup {Absent}]
BY Values DEF IInv, TypeOK, WantedFiles, Wanted

\* Only a run that is still going does anything but start again.
LEMMA StepsOfARun ==
    ASSUME IInv, Advance \/ Kill
    PROVE  /\ Committed \/ Result = "pending"
           /\ Committed => Committed'
           /\ UNCHANGED <<setup, WantedFiles>>
<1>1. alive /\ pc # "exited"
  BY DEF Advance, Kill, Running, Program, CheckRefuses, CheckPasses, StageCreate,
     StageWrite, StageDone, StageWriteFails, InstallNext, BackupCreate, BackupClose,
     BackupCloseFails, BackupMove, Move, Chmod, CallFails, InstallDone, UndoRemove,
     UndoRename, UndoDone, CleanStaged, CleanBackup, Finish
<1>2. Committed \/ Result = "pending"
  BY <1>1 DEF IInv, Control, Result
<1>3. ASSUME Committed PROVE Committed'
  <2>1. CleanStaged \/ CleanBackup \/ Finish \/ Kill
    BY <1>1, <1>3 DEF Committed, Advance, Program, CheckRefuses, CheckPasses,
       StageCreate, StageWrite, StageDone, StageWriteFails, InstallNext, BackupCreate,
       BackupClose, BackupCloseFails, BackupMove, Move, Chmod, CallFails, InstallDone,
       UndoRemove, UndoRename, UndoDone
  <2> QED
    BY <1>3, <2>1 DEF Committed, CleanStaged, CleanBackup, Finish, Exit, Outcome, Kill,
       errors
<1>4. UNCHANGED setup
  BY DEF Advance, Kill, Program, CheckRefuses, CheckPasses, StageCreate, StageWrite,
     StageDone, StageWriteFails, InstallNext, BackupCreate, BackupClose,
     BackupCloseFails, BackupMove, Move, Chmod, CallFails, InstallDone, UndoRemove,
     UndoRename, UndoDone, CleanStaged, CleanBackup, Finish
<1>5. UNCHANGED WantedFiles
  BY <1>4 DEF setup, WantedFiles, Wanted
<1> QED
  BY <1>2, <1>3, <1>4, <1>5

LEMMA RunRefines ==
    ASSUME IInv, Recovery, IInv', Recovery', Advance \/ Kill
    PROVE  [Atomic!Next]_(Atomic!vars)
<1>1. /\ Committed \/ Result = "pending"
      /\ Committed => Committed'
      /\ UNCHANGED <<setup, WantedFiles>>
  BY StepsOfARun
<1>2. (IInv /\ Recovery /\ ~Committed => Package = before)'
  BY PackageBefore, PTL
<1>3. (IInv /\ Committed => Package = WantedFiles)'
  BY PackageAfter, PTL
<1>4. CASE ~Committed /\ ~Committed'
  <2>1. UNCHANGED Package
    BY <1>1, <1>2, <1>4, PackageBefore DEF setup
  <2>2. Result' \in {"pending", "rejected", "broken", "killed"}
    BY <1>4 DEF Result
  <2> QED
    BY <1>1, <1>4, <2>1, <2>2 DEF Atomic!Next, Atomic!GiveUp, Atomic!vars
<1>5. CASE ~Committed /\ Committed'
  <2>1. Result' = "installed"
    BY <1>5 DEF Result
  <2> QED
    BY <1>1, <1>3, <1>5, <2>1 DEF Atomic!Next, Atomic!Install, Atomic!vars
<1>6. CASE Committed
  <2>1. UNCHANGED <<Package, Result>>
    BY <1>1, <1>3, <1>6, PackageAfter DEF Result
  <2> QED
    BY <1>1, <2>1 DEF Atomic!vars
<1> QED
  BY <1>1, <1>4, <1>5, <1>6

LEMMA RestartRefines ==
    ASSUME IInv, Recovery, Known, IInv', Recovery', Restart
    PROVE  Atomic!NextRun
<1>1. ~Committed' /\ Result' = "pending" /\ before' = out
  BY DEF Restart, Committed, Result
<1>2. (IInv /\ Recovery /\ ~Committed => Package = before)'
  BY PackageBefore, PTL
<1>3. (IInv => WantedFiles \in [Files -> Contents \cup {Absent}])'
  BY WantedIsValue, PTL
<1>4. Package' = out
  BY <1>1, <1>2
<1>5. Result # "pending"
  BY DEF Restart, Running, Result, IInv, Control
<1>6. CASE Committed
  <2>1. Result = "installed" /\ Package = out
    BY <1>6 DEF Result, Package, IInv, TypeOK
  <2> QED
    BY <1>1, <1>3, <1>4, <2>1 DEF Atomic!NextRun
<1>7. CASE ~Committed /\ Result \in {"killed", "broken"}
  <2>1. out \in [Files -> Contents \cup {Absent}]
    BY DEF IInv, TypeOK
  <2>2. ASSUME NEW f \in Files PROVE out[f] \in {Package[f], WantedFiles[f], Absent}
    <3>1. Package = before
      BY <1>7, PackageBefore
    <3>2. CASE \A i \in Writes : target[i] # f
      BY <3>1, <3>2 DEF IInv, OthersKept
    <3>3. ASSUME NEW i \in Writes, target[i] = f
          PROVE  out[f] \in {before[f], WantedFiles[f], Absent}
      <4>1. CASE pc = "check"
        BY <3>3, <4>1 DEF IInv, Stages, Progress, Forward, Preparing, Fresh, AsRecorded
      <4>2. CASE pc # "check"
        <5>1. exit # "refused"
          BY <1>7 DEF Result
        <5>2. \A j \in Writes : target[j] = f <=> j = i
          BY <3>3, <4>2, <5>1, TargetsOwn
        <5>3. WantedFiles[f] = Bytes(run, i)
          BY <5>2 DEF WantedFiles, Wanted
        <5> QED
          BY <3>3, <5>3 DEF Known
      <4> QED
        BY <4>1, <4>2
    <3> QED
      BY <3>1, <3>2, <3>3
  <2>3. /\ Package' \in [Files -> Contents \cup {Absent}]
        /\ \A f \in Files : Package'[f] \in {Package[f], WantedFiles[f], Absent}
    BY <1>4, <2>1, <2>2
  <2>4. WantedFiles' \in [Files -> Contents \cup {Absent}]
    BY <1>1, <1>3
  <2> QED
    BY <1>1, <1>5, <1>7, <2>3, <2>4 DEF Atomic!NextRun
<1>8. CASE ~Committed /\ Result = "rejected"
  <2>1. exit \in {"refused", "failed", "failed_cleanup_incomplete"}
    BY <1>8 DEF Result, Committed, IInv, TypeOK, Control, Exits
  <2>2. out = before
    BY <2>1, RestoredOnFailure DEF FailureRestoresOutputs
  <2> QED
    BY <1>1, <1>3, <1>4, <1>8, <2>2, PackageBefore DEF Atomic!NextRun
<1> QED
  BY <1>5, <1>6, <1>7, <1>8 DEF Result

\* Every run of write_file_set, however it ends, replaces the package as a whole
\* or leaves it as it was, backups counted; and the next run finds, in each file,
\* the old contents, the new ones or nothing.
THEOREM Replacement == Spec => AtomicReplacement
<1>1. Init => Recovery /\ Known /\ Atomic!Init
  <2> SUFFICES ASSUME Init PROVE Recovery /\ Known /\ Atomic!Init
    OBVIOUS
  <2>1. IInv /\ pc \in Forward
    BY InitEstablishes DEF Init, Idle, Forward, Preparing
  <2>2. Recovery /\ Known
    BY <2>1, ForwardRecovers
  <2>3. ~Committed /\ Result = "pending"
    BY DEF Init, Idle, Committed, Result
  <2>4. Package \in [Files -> Contents \cup {Absent}]
    BY <2>1, <2>2, <2>3, PackageBefore DEF IInv, TypeOK
  <2> QED
    BY <2>1, <2>2, <2>3, <2>4, WantedIsValue, Zenon DEF Atomic!Init
<1>2. IInv /\ Recovery /\ Known /\ IInv' /\ Recovery' /\ [Next]_vars
        => [Atomic!Next]_(Atomic!vars)
  <2>1. ASSUME UNCHANGED vars PROVE UNCHANGED Atomic!vars
    BY <2>1 DEF vars, setup, disk, pending, errors, Atomic!vars, WantedFiles, Wanted,
       Package, Recoverable, Committed, Result
  <2> QED
    BY <2>1, RunRefines, RestartRefines DEF Next, Atomic!Next
<1> QED
  BY <1>1, <1>2, StepRecovers, Invariance, PTL DEF Spec, AtomicReplacement, Atomic!Spec

=============================================================================
