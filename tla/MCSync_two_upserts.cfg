SPECIFICATION SyncSpec
CONSTANTS
    Usernames = {u1}
    Hashes = {p1}
    Slugs = {s1}
    Names = {n1}
    Hrefs = {1, 2}
    Uids = {1, 2}
    ETags = {e1, e2}
    NoRow = NoRow
    Unconditional = Unconditional
    ForeignKeys = {TRUE}
    LockWait = 0
    MaxUsers = 1
    MaxBooks = 1
    MaxRev = 3
    MaxClock = 0
    MaxBatch = 1
    Clients = {c1, c2}
    Username = u1
    Slug = s1
    Limits = {1}
    MaxEntries = 2
    MaxItems = 1
    Keep = 0
    Retention = 0
    Burst = 3
    Span = 0
SYMMETRY Symmetry
INVARIANTS
    NoLostUpsert
    CacheWithinCaps
