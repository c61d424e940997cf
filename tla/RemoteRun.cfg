SPECIFICATION FairSpec
CONSTANTS
    s1 = s1
    s2 = s2
    Servers <- MCServers
    Brokers = {b1}
    Plans = {v1, v2}
    Start = v1
    Nothing = Nothing
    Part = Part
    MaxCalls = 2
    MaxEdits = 1
    MaxFaults = 1
ACTION_CONSTRAINT FirstAtS1
INVARIANTS VerifiedWasThere JobsAsRecorded
PROPERTY CallsEnd
CHECK_DEADLOCK FALSE
