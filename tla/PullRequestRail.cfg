CONSTANTS
    c1 = c1
    c2 = c2
    c3 = c3
    c4 = c4
    k1 = k1
    Clients <- Four
    Plans <- AllPlans
    CheckRuns <- OneRun
    FirstPage <- OneRun
    NoBranch = NoBranch
    MaxChanges = 2
    MaxPulls = 3
    MaxFaults = 2
SPECIFICATION FairSpec
INVARIANTS Settled RollupOfHead
PROPERTIES EventuallyAnswered
CHECK_DEADLOCK FALSE
