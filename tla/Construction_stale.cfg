SPECIFICATION Spec
CONSTANTS
    Candidates <- MCEarly
    MaxAttempts <- MCMaxAttempts
    Module <- MCModule
    Hosts <- MCHosts
    Menu <- MCMenu
    TemporalExempt = {}
    Surface <- MCSurface
    HooksExtras = {}
    Normalize <- MCNormalize
    Design <- MCDesign
    GoPackages <- MCGoPackages
    Activities <- MCActivities
    Troubled <- MCTroubled
    MaxBuilds = 2
    Strays <- MCStrays
    MaxDrift = 0
    Releases <- MCReleases
    Tasks <- MCTasks
    Own <- MCOwn
    Entries <- MCEntries
    Stubborn <- MCStubborn
    MaxSeats = 0
    MaxHands = 0
INVARIANT
    NoPassLeftBehind
CHECK_DEADLOCK FALSE
