SPECIFICATION FairSpec
CONSTANTS
    Procs = {p1, p2}
    Exps = {e1}
    Attempts = {a1}
    Keys = {k1}
    Updates = {"completed"}
    NoAttempt = NoAttempt
    NoKey = NoKey
    NoProc = NoProc
    NoExp = NoExp
    Broken = Broken
    MaxShown = 3
    MaxCalls = 3
    MaxCrashes = 1
    MaxTorn = 1
    MaxErrors = 1
INVARIANTS StaysReadable AckedIsShown RetryReturnsSame
PROPERTY CallsReturn
