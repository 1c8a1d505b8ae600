SPECIFICATION Spec
CONSTANTS
    Candidates <- MCCandidates
    MaxAttempts <- MCMaxAttempts
    Module <- MCModule
    Hosts <- MCHosts
    Menu <- MCMenu
    TemporalExempt = {}
    Surface <- MCSurface
    HooksExtras = {}
    Normalize <- MCNormalize
    Design <- MCDesign
    GoPackages <- MCGoPackages
    Activities <- MCActivities
    Troubled <- MCTroubled
    MaxBuilds = 2
    Strays <- MCStrays
    MaxDrift = 1
    Releases <- MCReleases
    Tasks <- MCTasks
    Own <- MCOwn
    Entries <- MCEntries
    Stubborn <- MCStubborn
    MaxSeats = 3
    MaxHands = 1
INVARIANTS
    NoStalePass
    AlignmentHonest
    SeatIsExact
    SurfaceCloses
PROPERTY ForeignKept
CHECK_DEADLOCK FALSE
