SPECIFICATION FairSpec
CONSTANTS
    N = 2
    Files = {f1, f2}
    Absent = Absent
    Scrap = Scrap
    MaxRuns = 2
CHECK_DEADLOCK FALSE
INVARIANTS
    TypeOK
    OutcomeIsTrue
    OldBytesOnDisk
    NoLeftovers
PROPERTIES
    LastCopyOnlyAfterInstall
    AtomicReplacement
    RunEnds
