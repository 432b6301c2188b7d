SPECIFICATION StoreSpec
CONSTANTS
    Usernames = {u1}
    Hashes = {p1}
    Slugs = {s1}
    Names = {n1}
    Hrefs = {h1, h2}
    Uids = {x1, x2}
    ETags = {e1, e2}
    NoRow = NoRow
    Unconditional = Unconditional
    ForeignKeys = {TRUE, FALSE}
    LockWait = 1
    MaxUsers = 1
    MaxBooks = 2
    MaxRev = 3
    MaxClock = 2
    MaxBatch = 2
CONSTRAINT ShortLives
SYMMETRY Symmetry
CHECK_DEADLOCK FALSE
INVARIANTS
    TypeOK
    JournalAgrees
PROPERTIES
    TailsStayWhole
    FreshBookIsEmpty
    CTagTracksCards
