----------------------------- MODULE Bootstrap -----------------------------
(***************************************************************************)
(* The seeding of users at start-up (src/internal/daemon/daemon.go) and    *)
(* contactctl's user commands (src/internal/ctl/ctl.go) over the store.    *)
(* Each is a sequence of single statements that a crash may cut anywhere:  *)
(*     start     Count [-> (Lookup -> Create or Rehash -> FindBook         *)
(*               [-> InsertBook]) ...]                                     *)
(*     user add  AddUser -> AddFindBook [-> AddInsertBook]                 *)
(*                                                                         *)
(* `blamed' is a history variable: the users whose state somebody else is  *)
(* to blame for, because a start was cut short of them or an operator or   *)
(* a client changed them.                                                  *)
(***************************************************************************)
EXTENDS Store

CONSTANTS
    Seeds,        \* CONTACTD_USERS: a sequence of [name, hash]
    DefaultSlug, DefaultName

ASSUME SeedAssumption ==
    /\ Seeds \in Seq([name : Usernames, hash : Hashes])
    /\ DefaultSlug \in Slugs /\ DefaultName \in Names

VARIABLES boot, adding, touched, blamed
bootVars == <<boot, adding, touched, blamed>>

Off == [pc |-> "off", force |-> FALSE, i |-> 1, uid |-> 0]
NotAdding == [pc |-> "idle", uid |-> 0]

SeedNames == {Seeds[i].name : i \in DOMAIN Seeds}
NotSeededYet(i) == {Seeds[j].name : j \in i .. Len(Seeds)}
Named(n) == {u \in UserIds : users[u] # NoRow /\ users[u].name = n}
BookOf(u) == {id \in Live : books[id].owner = u /\ books[id].slug = DefaultSlug}

-----------------------------------------------------------------------------
\* Mutation: --force-seed does not reset passwords.
NeverRehashed(force) == "book"

-----------------------------------------------------------------------------
(* startupStore *)

\* blamed after a start that got to seed i and no further.
BlamedFrom(i) == blamed \cup NotSeededYet(i)

StartDaemon(force) ==
    /\ boot.pc = "off"
    /\ boot' = [Off EXCEPT !.pc = "count", !.force = force]
    /\ touched' = {}
    /\ UNCHANGED <<storeVars, adding, blamed>>

\* A start that seeds to the end makes good what went wrong before, except for what
\* others changed while it ran.
Done ==
    /\ boot' = [boot EXCEPT !.pc = "done"]
    /\ blamed' = blamed \cap touched
Fail ==
    /\ boot' = [boot EXCEPT !.pc = "failed"]
    /\ blamed' = BlamedFrom(boot.i)

\* UserCount: seeds are for an empty database, unless forced.
Skips == ~boot.force /\ \E u \in UserIds : users[u] # NoRow
Count ==
    /\ boot.pc = "count"
    /\ boot' = [boot EXCEPT !.pc = IF Skips \/ Seeds = <<>> THEN "done" ELSE "lookup"]
    /\ UNCHANGED <<storeVars, adding, touched, blamed>>

\* What follows for a user that was there.
AfterFound(force) == IF force THEN "rehash" ELSE "book"

Lookup ==
    /\ boot.pc = "lookup"
    /\ LET there == Named(Seeds[boot.i].name) IN
         IF there = {} THEN boot' = [boot EXCEPT !.pc = "create"]
         ELSE \E u \in there : boot' = [boot EXCEPT !.pc = AfterFound(boot.force), !.uid = u]
    /\ UNCHANGED <<storeVars, adding, touched, blamed>>

Create ==
    /\ boot.pc = "create"
    /\ \/ /\ CreateUser(Seeds[boot.i].name, Seeds[boot.i].hash)
          /\ boot' = [boot EXCEPT !.pc = "book", !.uid = seq.users + 1]
          /\ UNCHANGED blamed
       \/ Named(Seeds[boot.i].name) # {} /\ Fail /\ UNCHANGED storeVars
    /\ UNCHANGED <<adding, touched>>

Rehash ==
    /\ boot.pc = "rehash"
    /\ IF users[boot.uid] = NoRow THEN Fail /\ UNCHANGED storeVars
       ELSE /\ SetUserPasswordHash(boot.uid, Seeds[boot.i].hash)
            /\ boot' = [boot EXCEPT !.pc = "book"]
            /\ UNCHANGED blamed
    /\ UNCHANGED <<adding, touched>>

\* Mutation: UserCount is asked again before each seed.
NextSeedIfEmpty ==
    IF boot.i < Len(Seeds) /\ boot.force
    THEN boot' = [boot EXCEPT !.pc = "lookup", !.i = @ + 1, !.uid = 0] /\ UNCHANGED blamed
    ELSE Done

NextSeed ==
    IF boot.i < Len(Seeds)
    THEN boot' = [boot EXCEPT !.pc = "lookup", !.i = @ + 1, !.uid = 0] /\ UNCHANGED blamed
    ELSE Done

\* EnsureAddressbook: a SELECT, then an INSERT that fails if the book is there by
\* now or the user is gone.
FindBook ==
    /\ boot.pc = "book"
    /\ IF BookOf(boot.uid) # {} THEN NextSeed
       ELSE boot' = [boot EXCEPT !.pc = "insert"] /\ UNCHANGED blamed
    /\ UNCHANGED <<storeVars, adding, touched>>
InsertBook ==
    /\ boot.pc = "insert"
    /\ \/ CreateAddressbook(boot.uid, DefaultSlug, DefaultName, TRUE) /\ NextSeed
       \/ (BookOf(boot.uid) # {} \/ users[boot.uid] = NoRow) /\ Fail /\ UNCHANGED storeVars
    /\ UNCHANGED <<adding, touched>>

Seeding == boot.pc \in {"lookup", "create", "rehash", "book", "insert"}
SeedStep == Count \/ Lookup \/ Create \/ Rehash \/ FindBook \/ InsertBook

\* The process dies; what was committed stays.
Cut ==
    /\ boot' = Off
    /\ blamed' = IF Seeding THEN BlamedFrom(boot.i) ELSE blamed
    /\ UNCHANGED <<storeVars, adding, touched>>

-----------------------------------------------------------------------------
(* contactctl, and clients *)

Touch(names) == touched' = touched \cup names /\ blamed' = blamed \cup names

\* A user added to an empty database makes every later start skip the seeds.
AddUser(n, p) ==
    /\ adding.pc = "idle"
    /\ CreateUser(n, p)
    /\ adding' = [pc |-> "book", uid |-> seq.users + 1]
    /\ Touch({n} \cup IF \A u \in UserIds : users[u] = NoRow THEN SeedNames ELSE {})
    /\ UNCHANGED boot
AddFindBook ==
    /\ adding.pc = "book"
    /\ adding' = IF BookOf(adding.uid) # {} THEN NotAdding ELSE [adding EXCEPT !.pc = "insert"]
    /\ UNCHANGED <<storeVars, boot, touched, blamed>>
AddInsertBook ==
    /\ adding.pc = "insert"
    /\ adding' = NotAdding
    /\ \/ CreateAddressbook(adding.uid, DefaultSlug, DefaultName, TRUE)
       \/ (BookOf(adding.uid) # {} \/ users[adding.uid] = NoRow) /\ UNCHANGED storeVars
    /\ UNCHANGED <<boot, touched, blamed>>
AddCut ==
    /\ adding.pc # "idle" /\ adding' = NotAdding
    /\ UNCHANGED <<storeVars, boot, touched, blamed>>

UserDelete(u) ==
    /\ users[u] # NoRow
    /\ Touch({users[u].name})
    /\ DeleteUser(u)
    /\ UNCHANGED <<boot, adding>>
UserPasswd(u, p) ==
    /\ users[u] # NoRow
    /\ Touch({users[u].name})
    /\ SetUserPasswordHash(u, p)
    /\ UNCHANGED <<boot, adding>>
CtlStep ==
    \/ \E n \in Usernames, p \in Hashes : AddUser(n, p)
    \/ AddFindBook \/ AddInsertBook \/ AddCut
    \/ \E u \in UserIds : UserDelete(u)
    \/ \E u \in UserIds, p \in Hashes : UserPasswd(u, p)

\* A client deletes its default collection, or makes it again with MKCOL.
ClientStep ==
    /\ \E n \in Usernames :
        /\ Touch({n})
        /\ \/ \E fk \in ForeignKeys : DeleteAddressbook(n, DefaultSlug, fk)
           \/ \E u \in Named(n), fk \in ForeignKeys :
                 CreateAddressbook(u, DefaultSlug, DefaultName, fk)
    /\ UNCHANGED <<boot, adding>>

BootInit ==
    /\ StoreInit
    /\ boot = Off /\ adding = NotAdding
    /\ touched = {} /\ blamed = {}

-----------------------------------------------------------------------------
(* Properties *)

BootOK ==
    boot \in [pc : {"off", "count", "lookup", "create", "rehash", "book", "insert", "done", "failed"},
              force : BOOLEAN, i : Nat, uid : 0 .. MaxUsers]
AddingOK == adding = NotAdding \/ adding \in [pc : {"book", "insert"}, uid : UserIds]

BootTypeOK ==
    /\ TypeOK /\ BootOK /\ AddingOK
    /\ touched \subseteq Usernames /\ blamed \subseteq Usernames

\* A seed is in place: the user has the seed's password and the default book.
InPlace(seed) ==
    \E u \in Named(seed.name) : users[u].hash = seed.hash /\ BookOf(u) # {}

\* When start-up is over every seed is in place (one of those of its name, if there
\* are several: CONTACTD_USERS may repeat a name), except those that a crash or a
\* failed start kept from it, then or earlier, and those that others changed.
\* A start that seeds to the end, forced or on an empty database, repairs all
\* of that, also a user that a crash left without a book.
SeedsInPlace ==
    boot.pc = "done" => \A i \in DOMAIN Seeds : Seeds[i].name \notin blamed =>
        \E j \in DOMAIN Seeds : Seeds[j].name = Seeds[i].name /\ InPlace(Seeds[j])

\* What SeedsInPlace needs to be inductive.
\* The tables of users and books, and the ids that were not handed out yet.
AccountsOK ==
    /\ users \in [UserIds -> UserRow \cup {NoRow}]
    /\ books \in [BookIds -> BookRow \cup {NoRow}]
    /\ seq \in [users : 0 .. MaxUsers, books : 0 .. MaxBooks]
    /\ \A u \in UserIds : u > seq.users => users[u] = NoRow
    /\ \A id \in BookIds : id > seq.books => books[id] = NoRow
    /\ \A u, v \in UserIds : users[u] # NoRow /\ users[v] # NoRow /\ users[u].name = users[v].name
                             => u = v

\* One of the seeds of this name is in place.
Placed(n) == \E j \in DOMAIN Seeds : Seeds[j].name = n /\ InPlace(Seeds[j])

\* The user that a seed is being given to has the seed's name, and its password once
\* it was created or rehashed, or found by a start that does not rehash.
SeedInHand ==
    /\ boot.pc = "count" => boot.i = 1
    /\ Seeding => boot.i \in DOMAIN Seeds
    /\ boot.pc \in {"rehash", "book", "insert"} =>
          /\ boot.uid \in 1 .. seq.users
          /\ users[boot.uid] # NoRow => users[boot.uid].name = Seeds[boot.i].name
          /\ boot.pc # "rehash" /\ Seeds[boot.i].name \notin touched =>
                \E j \in DOMAIN Seeds : users[boot.uid] = Seeds[j]

\* A start that does not rehash found no user, so each is a seed or somebody else's.
OnlySeeds ==
    Seeding /\ ~boot.force => \A u \in UserIds :
        users[u] # NoRow /\ users[u].name \notin touched => \E j \in DOMAIN Seeds : users[u] = Seeds[j]

\* The seeds that this start got to, and those that an earlier one left in place.
SeededSoFar ==
    Seeding => \A j \in DOMAIN Seeds : j < boot.i /\ Seeds[j].name \notin touched => Placed(Seeds[j].name)
SeededBefore ==
    ~Seeding /\ (\E u \in UserIds : users[u] # NoRow) =>
        \A j \in DOMAIN Seeds : Seeds[j].name \notin blamed => Placed(Seeds[j].name)

SeedInv ==
    /\ AccountsOK /\ BootOK /\ AddingOK /\ touched \subseteq blamed
    /\ SeedInHand /\ OnlySeeds /\ SeededSoFar /\ SeededBefore /\ SeedsInPlace
=============================================================================
