SPECIFICATION Spec
CONSTANTS
    Entries <- MCEntries
    Direct <- MCDirect
    Single <- MCSingle
    Targets <- MCTargets
    Audits <- MCAudits
    MaxCalls = 3
    MaxFaults = 1
INVARIANTS
    CompletedIsCurrent
    FailureIsExplained
    VerdictNeedsEvidence
CHECK_DEADLOCK FALSE
