SPECIFICATION ReportsSpec
CONSTANTS
    Usernames = {u1}
    Hashes = {p1}
    Slugs = {s1}
    Names <- BookNames
    Hrefs = {h1, h2}
    Uids = {h1, h2}
    ETags = {e1, e2}
    NoRow = NoRow
    Unconditional = Unconditional
    ForeignKeys = {TRUE, FALSE}
    LockWait = 0
    MaxUsers = 1
    MaxBooks = 3
    MaxRev = 3
    MaxClock = 0
    MaxBatch = 1
    Username = u1
    Slug = s1
    FirstName <- PlainName
    Written <- OwnUids
    Readers = {r1}
    Displays = {"s1", "pals"}
    Descs = {"", "team"}
    SlugName = "s1"
    Blank = ""
    MaxOps = 2
VIEW View
SYMMETRY Symmetry
INVARIANTS
    ReportsTypeOK
PROPERTIES
    CTagNotAheadOfToken
    ReportsAreTrue
    TokenCoversListing
    MkcolAnswerIsTrue
