SPECIFICATION EvSpec
CHECK_DEADLOCK FALSE
CONSTANTS
    None = None
    Keys <- MCKeys
    Contract <- MCContract
    Sessions = {s1, s2}
    User = s1
    PlanContents <- MCPlans
    Starts <- MCApproved
INVARIANTS
    ApprovedSubmitPasses
