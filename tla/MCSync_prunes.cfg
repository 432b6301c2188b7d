SPECIFICATION SyncSpec
CONSTANTS
    Usernames = {u1}
    Hashes = {p1}
    Slugs = {s1}
    Names = {n1}
    Hrefs = {1, 2}
    Uids = {1, 2}
    ETags = {e1, e2}
    NoRow = NoRow
    Unconditional = Unconditional
    ForeignKeys = {TRUE}
    LockWait = 0
    MaxUsers = 1
    MaxBooks = 1
    MaxRev = 3
    MaxClock = 2
    MaxBatch = 1
    Clients = {c1}
    Username = u1
    Slug = s1
    Limits = {0, 1}
    MaxEntries = 2
    MaxItems = 10
    Keep = 2
    Retention = 1
    Burst = 2
    Span = 1
SYMMETRY Symmetry
INVARIANTS
    SyncTypeOK
    SyncSound
PROPERTIES
    TokenMovesForward
