SPECIFICATION CalcSpec
CONSTANTS
    Missing = Missing
    Unset = Unset
    PerIon = PerIon
    None = None
    Generators = {g1, g2}
    Structures <- MCStructures
    UserPotcars <- MCUserPotcars
    Requests <- MCRequests
    PlanRequests <- MCPlanRequests
    SetupTables <- MCSetupTables
    Zval <- MCZval
    MaxStructures = 2
    MaxCalls = 2
    MaxFiles = 2
    MaxFaults = 1
INVARIANTS
    NoTempLeft
    CurrentInputsAgree
    BandsAboveOccupied
PROPERTIES
    OthersPotcarKept
CHECK_DEADLOCK FALSE
