SPECIFICATION FairSpec
CONSTANTS
    Procs = {p1, p2}
    Keys = {k1}
    NoKey = NoKey
    NoProc = NoProc
    Torn = Torn
    LockWorks = TRUE
    MaxRecords = 3
    MaxCrashes = 1
    MaxTorn = 1
    MaxErrors = 1
    MaxRebuildErrors = 1
ACTION_CONSTRAINT TornAlone
INVARIANTS
    AckedDurable RetryReturnsSame RecoverNotDangling
PROPERTIES CallsReturn Abstract
