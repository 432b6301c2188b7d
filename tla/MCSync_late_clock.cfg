SPECIFICATION SyncSpec
CONSTANTS
    Usernames = {u1}
    Hashes = {p1}
    Slugs = {s1}
    Names = {n1}
    Hrefs = {1, 2}
    Uids = {1, 2}
    ETags = {e1, e2}
    NoRow = NoRow
    Unconditional = Unconditional
    ForeignKeys = {TRUE}
    LockWait = 1
    MaxUsers = 1
    MaxBooks = 1
    MaxRev = 4
    MaxClock = 2
    MaxBatch = 1
    Clients = {c1}
    Username = u1
    Slug = s1
    Limits = {3}
    MaxEntries = 2
    MaxItems = 10
    Keep = 0
    Retention = 1
    Burst = 3
    Span = 1
SYMMETRY Symmetry
INVARIANTS
    SyncSound
