SPECIFICATION HandlerSpec
CONSTANTS
    Usernames = {u1}
    Hashes = {p1}
    Slugs = {s1}
    Names = {n1}
    Hrefs = {h1}
    Uids = {x1}
    ETags = {e1, e2}
    NoRow = NoRow
    Unconditional = Unconditional
    ForeignKeys = {TRUE}
    LockWait = 0
    MaxUsers = 1
    MaxBooks = 1
    MaxRev = 3
    MaxClock = 0
    MaxBatch = 1
    Clients = {c1, c2}
    Username = u1
    Slug = s1
    Wildcard = Wildcard
    Headers = {e1, e2, Wildcard, Unconditional}
SYMMETRY Symmetry
PROPERTIES
    UpdateChangesETag
