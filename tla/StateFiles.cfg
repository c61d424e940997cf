SPECIFICATION Spec
CONSTANTS
    s1 = s1
    s2 = s2
    a1 = a1
    c1 = c1
    c2 = c2
    Stages <- MCStages
    Artifacts <- MCArtifacts
    Checkpoints <- MCCheckpoints
    Legacy <- MCLegacy
    NoId = NoId
    Torn = Torn
    Procs = {p1, p2}
    Statuses = {"in_progress", "completed"}
    Thresholds = {81, 97}
    MaxCalls = 2
    MaxCrashes = 1
    MaxErrors = 2
INVARIANTS FailedRepairRestores RepairSettles RecoveryPointIsWhole RecordedOnceOrOverlap
CHECK_DEADLOCK FALSE
SYMMETRY ProcSymmetry
