SPECIFICATION LitSpec
CONSTANTS
    None = None
    Spelling <- MCSpelling
    Score <- MCScore
    Worlds <- MCWorlds
    Requests <- MCRequests
    Offers <- MCOffers
    Locators = {p3}
    Claims = {c1, c2}
    Verdicts = {"verified", "contradicted"}
    MaxRetries = 1
    MaxExpiries = 1
    MaxFaults = 1
    MaxMarks = 3
INVARIANTS
    PapersApart
    LocalPapersKept
    UncutIsComplete
PROPERTIES
    CallsAnswer
