CONSTANTS
    c1 = c1
    c2 = c2
    f1 = f1
    f2 = f2
    f3 = f3
    Converges <- Two
    Paths <- Three
    Wants <- Overlapping
    NoFile = NoFile
    User = User
    NoBranch = NoBranch
    MaxFaults = 2
    MaxDrift = 1
SPECIFICATION FairSpec
INVARIANTS ReturnedIsReachable ConflictMeansAdvanced
PROPERTIES ImplementsAtomicFiles EventuallyConverged
CHECK_DEADLOCK FALSE
