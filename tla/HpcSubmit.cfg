SPECIFICATION Spec
CONSTANTS
    Procs = {p1, p2}
    Plans = {v1, v2}
    Good = {v1}
    Refs = {r1}
    QuietEdits = TRUE
    MaxEdits = 2
    MaxPlans = 2
    MaxSubmits = 2
    MaxDecisions = 2
    MaxCrashes = 1
INVARIANTS JobRunsItsPlan JobsOnRecord
PROPERTY AbstractRuns
SYMMETRY ProcSymmetry
