SPECIFICATION HandlerSpec
CONSTANTS
    Usernames = {u1}
    Hashes = {p1}
    Slugs = {s1}
    Names = {n1}
    Hrefs = {h1, h2}
    Uids = {x1}
    ETags = {e1, e2}
    NoRow = NoRow
    Unconditional = Unconditional
    ForeignKeys = {TRUE, FALSE}
    LockWait = 0
    MaxUsers = 1
    MaxBooks = 2
    MaxRev = 3
    MaxClock = 0
    MaxBatch = 1
    Clients = {c1, c2}
    Username = u1
    Slug = s1
    Wildcard = Wildcard
    Headers = {e1, e2, Wildcard, Unconditional}
VIEW View
SYMMETRY Symmetry
INVARIANTS
    HandlerTypeOK
PROPERTIES
    WritesHonourConditions
    AnswersAreTrue
