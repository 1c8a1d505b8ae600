CONSTANTS
    Writers = {w1, w2}
    Outsiders = {o1}
    Local = TRUE
    CheckedOut = TRUE
    Unborn = FALSE
    MaxFaults = 2
    Nobody = Nobody
    NoBranch = NoBranch
    Dirty = Dirty
SPECIFICATION FairSpec
INVARIANTS NoSelfInflictedWedge OnlyLosersConflict
PROPERTIES ImplementsRefLog EventuallyDecided
CHECK_DEADLOCK FALSE
