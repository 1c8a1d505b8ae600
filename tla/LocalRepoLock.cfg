CONSTANTS
    Callers = {c1, c2}
    Paths <- MCPaths
    Repos <- MCRepos
    RealPath <- MCRealPath
    Created <- MCCreated
    Slots = {s1, s2, s3}
    NoSlot = NoSlot
SPECIFICATION LockFairSpec
PROPERTIES ImplementsRepoLock WaiterReturns
