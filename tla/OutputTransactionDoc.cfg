SPECIFICATION Spec
CONSTANTS
    N = 2
    Files = {f1, f2}
    Absent = Absent
    Scrap = Scrap
    MaxRuns = 1
INVARIANTS
    DeletionErrorReported
CHECK_DEADLOCK FALSE
