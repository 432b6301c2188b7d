SPECIFICATION StoreSpec
CONSTANTS
    Usernames = {u1}
    Hashes = {p1}
    Slugs = {s1}
    Names = {n1}
    Hrefs = {h1}
    Uids = {x1}
    ETags = {e1}
    NoRow = NoRow
    Unconditional = Unconditional
    ForeignKeys = {TRUE, FALSE}
    LockWait = 1
    MaxUsers = 2
    MaxBooks = 2
    MaxRev = 2
    MaxClock = 1
    MaxBatch = 1
SYMMETRY Symmetry
CHECK_DEADLOCK FALSE
INVARIANTS
    NoOrphans
