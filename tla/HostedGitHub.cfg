CONSTANTS
    p1 = p1
    p2 = p2
    p3 = p3
    l1 = l1
    s1 = s1
    s2 = s2
    d1 = d1
    d2 = d2
    o1 = o1
    o2 = o2
    w1 = w1
    w2 = w2
    x = x
    y = y
    Provisioners = {p1, p2, p3}
    Wanted <- Wants
    Listers = {l1}
    Repos <- Names
    Refused <- InvalidName
    MaxDeletions = 1
    Seaters = {s1, s2}
    Content <- Files
    NoFile = NoFile
    Submitters = {d1, d2}
    MaxForeign = 1
    Storers = {o1, o2}
    NoCommit = NoCommit
    Writers = {w1, w2}
    Merge = Merge
    Direct = Direct
    NoBranch = NoBranch
    MaxSessionFaults = 4
    PageSize = 2
    MaxFaults = 2
    Olds <- AllOrSome
    Crews <- Meetings
SPECIFICATION FairSpec
INVARIANTS BareIsOwed CatalogComplete RefusalMeansRace OneAnswer CommittedOnce
PROPERTIES EveryCallReturns
CHECK_DEADLOCK FALSE
