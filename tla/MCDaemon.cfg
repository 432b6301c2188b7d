SPECIFICATION FairSpec
CONSTANTS
    Usernames = {"alice", "bob"}
    Hashes = {"p1", "p2"}
    Slugs = {s1}
    Names = {n1}
    Hrefs = {}
    Uids = {}
    ETags = {}
    NoRow = NoRow
    Unconditional = Unconditional
    ForeignKeys = {TRUE}
    LockWait = 0
    MaxUsers = 2
    MaxBooks = 2
    MaxRev = 0
    MaxClock = 0
    MaxBatch = 0
    Seeds <- ThreeSeeds
    DefaultSlug = s1
    DefaultName = n1
    Conns = {c1, c2}
    Limit = 1
    FailDelay = TRUE
INVARIANTS
    DaemonTypeOK
    SlotsAreHeld
    SeedsInPlace
    ClosesLast
PROPERTIES
    Stops
    GateOpens
