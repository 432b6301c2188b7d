SPECIFICATION FairSpec
CONSTANTS
    Usernames = {u1}
    Hashes = {p1}
    Slugs = {s1}
    Names = {n1}
    Hrefs = {1, 2}
    Uids = {1, 2}
    ETags = {e1}
    NoRow = NoRow
    Unconditional = Unconditional
    ForeignKeys = {TRUE}
    LockWait = 0
    MaxUsers = 1
    MaxBooks = 2
    MaxRev = 2
    MaxClock = 0
    MaxBatch = 1
    Clients = {c1}
    Username = u1
    Slug = s1
    Limits = {1}
    MaxEntries = 2
    MaxItems = 10
    Keep = 1
    Retention = 0
    Burst = 1
    Span = 0
INVARIANTS
    SyncSound
PROPERTIES
    EventuallyInSync
