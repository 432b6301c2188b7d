SPECIFICATION TransferSpec
CONSTANTS
    Usernames = {u1}
    Hashes = {p1}
    Slugs = {s1}
    Names = {n1}
    Hrefs = {h1, h2}
    Uids = {h1, h2}
    ETags = {e1}
    NoRow = NoRow
    Unconditional = Unconditional
    ForeignKeys = {TRUE, FALSE}
    LockWait = 0
    MaxUsers = 1
    MaxBooks = 1
    MaxRev = 3
    MaxClock = 0
    MaxBatch = 2
    Username = u1
    Slug = s1
    FirstName = n1
    Written <- AnyCards
SYMMETRY Symmetry
INVARIANTS
    TransferTypeOK
    BatchIsASnapshot
PROPERTIES
    Implements
    ResultsAreTrue
