----------------------------- MODULE SeedProofs ----------------------------
(***************************************************************************)
(* The seeding of users, proved for any list of seeds, any number of       *)
(* crashes and restarts and anything contactctl and clients do meanwhile:  *)
(* a start-up that is over has every seed in place that nobody is to blame *)
(* for (SeedsInPlace).  And whatever the process and contactctl do to the  *)
(* tables is what Store says a transaction may do.                         *)
(***************************************************************************)
EXTENDS DaemonProofs, StoreProofs

-----------------------------------------------------------------------------
(* What a step of the store does to the accounts *)

\* A seed is a row of the table of users.
LEMMA SeedsAreUsers == ASSUME NEW j \in DOMAIN Seeds PROVE Seeds[j] \in UserRow /\ Seeds[j] # NoRow
<1>1. Seeds \in Seq(UserRow)
  BY SeedAssumption DEF UserRow
<1>2. Seeds[j] \in UserRow
  BY <1>1
<1>3. QED
  BY <1>2, NoRowAssumption

\* What the users of name n have stays: password, books and their slugs.
Keeps(n) ==
    \A u \in UserIds : users[u] # NoRow /\ users[u].name = n =>
        /\ users'[u] = users[u]
        /\ \A id \in BookIds : books[id] # NoRow /\ books[id].owner = u =>
              books'[id] # NoRow /\ books'[id].owner = u /\ books'[id].slug = books[id].slug

\* Nobody is renamed, and nobody comes back.
KeepsIds ==
    /\ seq'.users >= seq.users
    /\ \A u \in UserIds : users'[u] # NoRow /\ u <= seq.users =>
          users[u] # NoRow /\ users'[u].name = users[u].name

\* A placed seed stays placed while its account is kept.
LEMMA PlacedStays ==
  ASSUME NEW n, AccountsOK, Placed(n), Keeps(n)
  PROVE  Placed(n)'
<1>1. PICK j \in DOMAIN Seeds : Seeds[j].name = n /\ InPlace(Seeds[j])
  BY DEF Placed
<1>2. PICK u \in UserIds : /\ users[u] # NoRow /\ users[u].name = n
                           /\ users[u].hash = Seeds[j].hash /\ BookOf(u) # {}
  BY <1>1 DEF InPlace, Named
<1>3. PICK id \in BookIds : books[id] # NoRow /\ books[id].owner = u /\ books[id].slug = DefaultSlug
  BY <1>2 DEF BookOf, Live
<1>4. users'[u] = users[u] /\ id \in BookOf(u)'
  BY <1>2, <1>3 DEF Keeps, BookOf, Live
<1>5. u \in Named(n)'
  BY <1>2, <1>4 DEF Named
<1>6. InPlace(Seeds[j])'
  BY <1>1, <1>2, <1>4, <1>5 DEF InPlace
<1>7. QED
  BY <1>1, <1>6 DEF Placed

LEMMA CreateUserKeeps ==
  ASSUME AccountsOK, NEW n \in Usernames, NEW p \in Hashes, CreateUser(n, p)
  PROVE  /\ AccountsOK' /\ KeepsIds /\ \A m : Keeps(m)
         /\ seq.users + 1 \in 1 .. seq'.users
         /\ users' = [users EXCEPT ![seq.users + 1] = [name |-> n, hash |-> p]]
<1> USE BoundsAssumption, NoRowAssumption DEF AccountsOK, UserIds, UserRow
<1>1. seq.users + 1 \in UserIds /\ [name |-> n, hash |-> p] \in UserRow
  BY DEF CreateUser
<1>2. seq' \in [users : 0 .. MaxUsers, books : 0 .. MaxBooks] /\ seq'.users = seq.users + 1
      /\ seq'.books = seq.books
  BY <1>1 DEF CreateUser
<1>3. /\ users' \in [UserIds -> UserRow \cup {NoRow}]
      /\ users'[seq.users + 1] = [name |-> n, hash |-> p]
      /\ \A u \in UserIds : u # seq.users + 1 => users'[u] = users[u]
  BY <1>1 DEF CreateUser
<1>4. books' = books
  BY DEF CreateUser
<1>5. AccountsOK'
  <2>1. \A u \in UserIds : users[u] # NoRow => users[u].name # n
    BY DEF CreateUser
  <2>2. \A u, v \in UserIds : users'[u] # NoRow /\ users'[v] # NoRow /\ users'[u].name = users'[v].name
                               => u = v
    BY <1>3, <2>1
  <2>3. \A u \in UserIds : u > seq'.users => users'[u] = NoRow
    BY <1>1, <1>2, <1>3
  <2>4. books' \in [BookIds -> BookRow \cup {NoRow}] /\ \A id \in BookIds : id > seq'.books => books'[id] = NoRow
    BY <1>2, <1>4
  <2>5. QED
    BY <1>2, <1>3, <2>2, <2>3, <2>4
<1>6. KeepsIds
  <2>1. seq.users \in Nat
    OBVIOUS
  <2>2. \A u \in UserIds : u <= seq.users => u # seq.users + 1
    BY <2>1
  <2>3. QED
    BY <1>2, <1>3, <2>1, <2>2 DEF KeepsIds
<1>7. ASSUME NEW m PROVE Keeps(m)
  BY <1>1, <1>3, <1>4 DEF Keeps
<1>8. QED
  BY <1>1, <1>2, <1>5, <1>6, <1>7 DEF CreateUser

LEMMA SetHashKeeps ==
  ASSUME AccountsOK, NEW u \in UserIds, NEW p \in Hashes, SetUserPasswordHash(u, p)
  PROVE  /\ AccountsOK' /\ KeepsIds /\ users[u] # NoRow
         /\ \A m : m # users[u].name => Keeps(m)
         /\ seq' = seq /\ books' = books
         /\ users' = [users EXCEPT ![u] = [name |-> users[u].name, hash |-> p]]
<1> USE DEF AccountsOK
<1>1. users[u] # NoRow /\ users[u] \in UserRow /\ books' = books /\ seq' = seq
      /\ users' = [users EXCEPT ![u].hash = p]
  BY DEF SetUserPasswordHash
<1>2. users' = [users EXCEPT ![u] = [name |-> users[u].name, hash |-> p]]
  <2>1. ASSUME NEW r \in UserRow
        PROVE  [r EXCEPT !.hash = p] = [name |-> r.name, hash |-> p]
    BY DEF UserRow
  <2>2. [users[u] EXCEPT !.hash = p] = [name |-> users[u].name, hash |-> p]
    BY <1>1, <2>1
  <2>3. users' = [users EXCEPT ![u] = [users[u] EXCEPT !.hash = p]]
    BY <1>1
  <2>4. QED
    BY <2>2, <2>3
<1>3. [name |-> users[u].name, hash |-> p] \in UserRow
  BY <1>1 DEF UserRow
<1>4. users' \in [UserIds -> UserRow \cup {NoRow}]
  BY <1>2, <1>3
<1>5. /\ users'[u].name = users[u].name /\ users'[u] # NoRow
      /\ \A v \in UserIds : v # u => users'[v] = users[v]
  BY <1>2, <1>3, NoRowAssumption
<1>6. AccountsOK'
  <2>1. \A v \in UserIds : v > seq.users => users'[v] = NoRow
    BY <1>1, <1>5
  <2>2. \A v, w \in UserIds : users'[v] # NoRow /\ users'[w] # NoRow /\ users'[v].name = users'[w].name
                               => v = w
    BY <1>1, <1>5
  <2>3. QED
    BY <1>1, <1>4, <2>1, <2>2
<1>7. KeepsIds
  BY <1>1, <1>5 DEF KeepsIds
<1>8. ASSUME NEW m, m # users[u].name PROVE Keeps(m)
  BY <1>1, <1>5, <1>8 DEF Keeps
<1>9. QED
  BY <1>1, <1>2, <1>6, <1>7, <1>8

LEMMA DeleteUserKeeps ==
  ASSUME AccountsOK, NEW u \in UserIds, DeleteUser(u)
  PROVE  AccountsOK' /\ KeepsIds /\ \A m : m # users[u].name => Keeps(m)
<1> USE DEF AccountsOK
<1>1. /\ seq' = seq /\ users' = [users EXCEPT ![u] = NoRow]
      /\ books' = [id \in BookIds |-> IF id \in {i \in Live : books[i].owner = u} THEN NoRow ELSE books[id]]
  BY DEF DeleteUser, RemoveBooks
<1>2. books' \in [BookIds -> BookRow \cup {NoRow}] /\ users' \in [UserIds -> UserRow \cup {NoRow}]
  BY <1>1
<1>3. AccountsOK'
  BY <1>1, <1>2
<1>4. KeepsIds
  BY <1>1 DEF KeepsIds
<1>5. ASSUME NEW m, m # users[u].name PROVE Keeps(m)
  BY <1>1, <1>5 DEF Keeps, Live
<1>6. QED
  BY <1>3, <1>4, <1>5

LEMMA CreateBookKeeps ==
  ASSUME AccountsOK, NEW u \in UserIds, NEW slug \in Slugs, NEW name \in Names, NEW fk,
         CreateAddressbook(u, slug, name, fk)
  PROVE  /\ AccountsOK' /\ KeepsIds /\ \A m : Keeps(m)
         /\ users' = users /\ seq'.users = seq.users
         /\ NewBookId \in BookIds /\ books'[NewBookId] # NoRow
         /\ books'[NewBookId].owner = u /\ books'[NewBookId].slug = slug
<1> USE BoundsAssumption DEF AccountsOK, BookIds, NewBookId
<1> DEFINE row == [owner |-> u, slug |-> slug, name |-> name, revision |-> 0]
<1>1. /\ NewBookId \in BookIds /\ users' = users
      /\ books' = [books EXCEPT ![NewBookId] = row]
      /\ seq' = [seq EXCEPT !.books = NewBookId]
  BY DEF CreateAddressbook
<1>2. row \in BookRow /\ row # NoRow
  BY NoRowAssumption DEF BookRow
<1>3. books' \in [BookIds -> BookRow \cup {NoRow}] /\ books'[NewBookId] = row
      /\ \A id \in BookIds : id # NewBookId => books'[id] = books[id]
  BY <1>1, <1>2
<1>4. seq' \in [users : 0 .. MaxUsers, books : 0 .. MaxBooks]
      /\ seq'.users = seq.users /\ seq'.books = seq.books + 1
  BY <1>1
<1>5. AccountsOK'
  BY <1>1, <1>3, <1>4
<1>6. KeepsIds
  BY <1>1, <1>4 DEF KeepsIds
<1>7. books[NewBookId] = NoRow
  BY <1>1
<1>8. ASSUME NEW m PROVE Keeps(m)
  BY <1>1, <1>3, <1>7 DEF Keeps
<1>9. QED
  BY <1>1, <1>2, <1>3, <1>4, <1>5, <1>6, <1>8

LEMMA DeleteBookKeeps ==
  ASSUME AccountsOK, NEW n, NEW slug, NEW fk, DeleteAddressbook(n, slug, fk)
  PROVE  AccountsOK' /\ KeepsIds /\ \A m : m # n => Keeps(m)
<1> USE DEF AccountsOK
<1>1. /\ seq' = seq /\ users' = users
      /\ books' = [id \in BookIds |-> IF id \in AddressbookOf(n, slug) THEN NoRow ELSE books[id]]
  BY DEF DeleteAddressbook, RemoveBooks
<1>2. books' \in [BookIds -> BookRow \cup {NoRow}]
  BY <1>1
<1>3. AccountsOK'
  BY <1>1, <1>2
<1>4. KeepsIds
  BY <1>1 DEF KeepsIds
<1>5. ASSUME NEW m, m # n PROVE Keeps(m)
  BY <1>1, <1>5 DEF Keeps, AddressbookOf
<1>6. QED
  BY <1>3, <1>4, <1>5

-----------------------------------------------------------------------------
(* The parts of the invariant, when boot moves on *)

\* A step that keeps every account that is not touched keeps what was placed.
LEMMA PlacedKept ==
  ASSUME SeedInv, \A n : n \notin touched' => Keeps(n)
  PROVE  \A n : n \notin touched' /\ Placed(n) => Placed(n)'
  BY PlacedStays DEF SeedInv

\* Contactctl's steps and the clients': they leave boot alone, touch whom they change,
\* and touch every seed when they add the first user.
LEMMA OthersKeepSeedInv ==
  ASSUME SeedInv, AccountsOK', AddingOK', KeepsIds, UNCHANGED boot,
         touched \subseteq touched', touched' \subseteq blamed', blamed \subseteq blamed',
         \A n : n \notin touched' => Keeps(n),
         \A u \in UserIds : users'[u] # NoRow /\ users[u] = NoRow => users'[u].name \in touched',
         (\A u \in UserIds : users[u] = NoRow) /\ (\E u \in UserIds : users'[u] # NoRow)
            => SeedNames \subseteq blamed'
  PROVE  SeedInv'
<1> USE DEF SeedInv
<1>1. \A n : n \notin touched' /\ Placed(n) => Placed(n)'
  BY PlacedKept
<1>a. \A u \in UserIds : users[u] # NoRow /\ users[u].name \notin touched' => users'[u] = users[u]
  BY DEF Keeps
<1>2. SeedInHand'
  <2>1. boot'.pc = boot.pc /\ boot'.i = boot.i /\ boot'.uid = boot.uid
    OBVIOUS
  <2>2. CASE boot.pc \notin {"rehash", "book", "insert"}
    BY <2>1, <2>2 DEF SeedInHand, Seeding
  <2>3. CASE boot.pc \in {"rehash", "book", "insert"}
    <3> DEFINE u == boot.uid
    <3>1. u \in 1 .. seq.users /\ u \in UserIds /\ boot.i \in DOMAIN Seeds
      BY <2>3, BoundsAssumption DEF SeedInHand, AccountsOK, UserIds, Seeding
    <3>2. u \in 1 .. seq'.users
      BY <3>1 DEF KeepsIds, AccountsOK
    <3>3. users'[u] # NoRow => users'[u].name = Seeds[boot.i].name
      BY <2>3, <3>1 DEF SeedInHand, KeepsIds
    <3>4. ASSUME boot.pc # "rehash", Seeds[boot.i].name \notin touched'
          PROVE  \E j \in DOMAIN Seeds : users'[u] = Seeds[j]
      <4>1. PICK j \in DOMAIN Seeds : users[u] = Seeds[j]
        BY <2>3, <3>4 DEF SeedInHand
      <4>2. users[u] # NoRow
        BY <4>1, SeedsAreUsers
      <4>3. users[u].name = Seeds[boot.i].name
        BY <2>3, <4>2 DEF SeedInHand
      <4>4. QED
        BY <1>a, <3>1, <3>4, <4>1, <4>2, <4>3
    <3>5. QED
      BY <2>1, <2>3, <3>1, <3>2, <3>3, <3>4 DEF SeedInHand, Seeding
  <2>4. QED
    BY <2>2, <2>3
<1>3. OnlySeeds'
  <2> SUFFICES ASSUME Seeding, ~boot.force, NEW u \in UserIds, users'[u] # NoRow,
                      users'[u].name \notin touched'
               PROVE  \E j \in DOMAIN Seeds : users'[u] = Seeds[j]
    BY DEF OnlySeeds, Seeding
  <2>1. users[u] # NoRow
    OBVIOUS
  <2>2. users[u].name = users'[u].name
    <3>1. u <= seq.users
      BY <2>1 DEF AccountsOK, UserIds
    <3>2. QED
      BY <3>1 DEF KeepsIds
  <2>3. QED
    BY <1>a, <2>1, <2>2 DEF OnlySeeds
<1>4. SeededSoFar'
  BY <1>1 DEF SeededSoFar, Seeding
<1>5. ASSUME ~Seeding, \E u \in UserIds : users'[u] # NoRow,
             NEW j \in DOMAIN Seeds, Seeds[j].name \notin blamed'
      PROVE  Placed(Seeds[j].name)'
  <2>1. Seeds[j].name \in SeedNames
    BY DEF SeedNames
  <2>2. \E u \in UserIds : users[u] # NoRow
    BY <1>5, <2>1
  <2>3. Placed(Seeds[j].name)
    BY <1>5, <2>2 DEF SeededBefore
  <2>4. QED
    BY <1>1, <1>5, <2>3
<1>6. SeededBefore'
  BY <1>5 DEF SeededBefore, Seeding
<1>b. BootOK'
  BY DEF BootOK
<1>7. SeedsInPlace'
  <2> SUFFICES ASSUME boot.pc = "done", NEW j \in DOMAIN Seeds, Seeds[j].name \notin blamed'
               PROVE  Placed(Seeds[j].name)'
    BY DEF SeedsInPlace, Placed
  <2>1. Placed(Seeds[j].name)
    BY DEF SeedsInPlace, Placed
  <2>2. QED
    BY <1>1, <2>1
<1>8. QED
  BY <1>2, <1>3, <1>4, <1>6, <1>7, <1>b

LEMMA UnchangedKeepsSeedInv ==
  ASSUME SeedInv, AddingOK', UNCHANGED <<storeVars, boot, touched, blamed>>
  PROVE  SeedInv'
  BY DEF SeedInv, storeVars, AccountsOK, BootOK, SeedInHand, OnlySeeds, SeededSoFar, SeededBefore, SeedsInPlace,
         Seeding, Placed, InPlace, Named, BookOf, Live

\* The world's steps, one by one.
LEMMA CtlStepKeepsSeedInv ==
  ASSUME SeedInv, CtlStep
  PROVE  SeedInv'
<1>0. AddingOK'
  <2>1. CASE \E n \in Usernames, p \in Hashes : AddUser(n, p)
    BY <2>1, BoundsAssumption DEF AddUser, AddingOK, CreateUser, SeedInv, AccountsOK, UserIds
  <2>2. CASE adding' = adding \/ adding' = NotAdding
    BY <2>2 DEF AddingOK, SeedInv
  <2>3. CASE adding.pc = "book" /\ adding' = [adding EXCEPT !.pc = "insert"]
    BY <2>3 DEF AddingOK, SeedInv, NotAdding
  <2>4. QED
    BY <2>1, <2>2, <2>3 DEF CtlStep, AddFindBook, AddInsertBook, AddCut, UserDelete, UserPasswd
<1>1. CASE \E n \in Usernames, p \in Hashes : AddUser(n, p)
  <2>1. PICK n \in Usernames, p \in Hashes : AddUser(n, p)
    BY <1>1
  <2>2. AccountsOK' /\ KeepsIds /\ (\A m : Keeps(m))
        /\ users' = [users EXCEPT ![seq.users + 1] = [name |-> n, hash |-> p]]
    BY <2>1, CreateUserKeeps DEF AddUser, SeedInv
  <2>3. UNCHANGED boot /\ touched \subseteq touched' /\ touched' \subseteq blamed' /\ blamed \subseteq blamed'
        /\ n \in touched'
    BY <2>1 DEF AddUser, Touch, SeedInv
  <2>4. (\A u \in UserIds : users[u] = NoRow) => SeedNames \subseteq blamed'
    BY <2>1 DEF AddUser, Touch
  <2>5. \A u \in UserIds : users'[u] # NoRow /\ users[u] = NoRow => users'[u].name \in touched'
    BY <2>2, <2>3 DEF SeedInv, AccountsOK
  <2>6. QED
    BY <2>2, <2>3, <2>4, <2>5, <1>0, OthersKeepSeedInv
<1>2. CASE \E u \in UserIds : UserDelete(u)
  <2>1. PICK u \in UserIds : UserDelete(u)
    BY <1>2
  <2>2. AccountsOK' /\ KeepsIds /\ (\A m : m # users[u].name => Keeps(m))
    BY <2>1, DeleteUserKeeps DEF UserDelete, SeedInv
  <2>3. UNCHANGED boot /\ touched \subseteq touched' /\ touched' \subseteq blamed' /\ blamed \subseteq blamed'
        /\ users[u].name \in touched'
    BY <2>1 DEF UserDelete, Touch, SeedInv
  <2>4. \A v \in UserIds : users'[v] # NoRow => users[v] # NoRow
    BY <2>1 DEF UserDelete, DeleteUser, SeedInv, AccountsOK
  <2>5. QED
    BY <2>2, <2>3, <2>4, <1>0, OthersKeepSeedInv
<1>3. CASE \E u \in UserIds, p \in Hashes : UserPasswd(u, p)
  <2>1. PICK u \in UserIds, p \in Hashes : UserPasswd(u, p)
    BY <1>3
  <2>2. AccountsOK' /\ KeepsIds /\ (\A m : m # users[u].name => Keeps(m)) /\ users[u] # NoRow
        /\ users' = [users EXCEPT ![u] = [name |-> users[u].name, hash |-> p]]
    BY <2>1, SetHashKeeps DEF UserPasswd, SeedInv
  <2>3. UNCHANGED boot /\ touched \subseteq touched' /\ touched' \subseteq blamed' /\ blamed \subseteq blamed'
        /\ users[u].name \in touched'
    BY <2>1 DEF UserPasswd, Touch, SeedInv
  <2>4. \A v \in UserIds : users'[v] # NoRow => users[v] # NoRow
    BY <2>2 DEF SeedInv, AccountsOK
  <2>5. QED
    BY <2>2, <2>3, <2>4, <1>0, OthersKeepSeedInv
<1>4. CASE AddInsertBook /\ CreateAddressbook(adding.uid, DefaultSlug, DefaultName, TRUE)
  <2>1. adding.uid \in UserIds
    BY <1>4 DEF AddInsertBook, AddingOK, NotAdding, SeedInv
  <2>2. AccountsOK' /\ KeepsIds /\ (\A m : Keeps(m)) /\ users' = users
    BY <1>4, <2>1, CreateBookKeeps, SeedAssumption DEF SeedInv
  <2>3. UNCHANGED <<boot, touched, blamed>> /\ touched \subseteq blamed
    BY <1>4 DEF AddInsertBook, SeedInv
  <2>4. QED
    BY <2>2, <2>3, <1>0, OthersKeepSeedInv
<1>5. CASE UNCHANGED <<storeVars, boot, touched, blamed>>
  BY <1>0, <1>5, UnchangedKeepsSeedInv
<1>6. QED
  BY <1>1, <1>2, <1>3, <1>4, <1>5 DEF CtlStep, AddFindBook, AddInsertBook, AddCut

LEMMA ClientStepKeepsSeedInv ==
  ASSUME SeedInv, ClientStep
  PROVE  SeedInv'
<1>1. PICK n \in Usernames :
        /\ Touch({n})
        /\ \/ \E fk \in ForeignKeys : DeleteAddressbook(n, DefaultSlug, fk)
           \/ \E u \in Named(n), fk \in ForeignKeys : CreateAddressbook(u, DefaultSlug, DefaultName, fk)
  BY DEF ClientStep
<1>2. UNCHANGED <<boot, adding>> /\ touched \subseteq touched' /\ touched' \subseteq blamed'
      /\ blamed \subseteq blamed' /\ n \in touched'
  BY <1>1 DEF ClientStep, Touch, SeedInv
<1>3. AddingOK'
  BY <1>2 DEF AddingOK, SeedInv
<1>4. CASE \E fk \in ForeignKeys : DeleteAddressbook(n, DefaultSlug, fk)
  <2>1. AccountsOK' /\ KeepsIds /\ (\A m : m # n => Keeps(m)) /\ users' = users
    BY <1>4, DeleteBookKeeps DEF SeedInv, DeleteAddressbook
  <2>2. QED
    BY <1>2, <1>3, <2>1, OthersKeepSeedInv
<1>5. CASE \E u \in Named(n), fk \in ForeignKeys : CreateAddressbook(u, DefaultSlug, DefaultName, fk)
  <2>1. AccountsOK' /\ KeepsIds /\ (\A m : Keeps(m)) /\ users' = users
    BY <1>5, CreateBookKeeps, SeedAssumption DEF SeedInv, Named
  <2>2. QED
    BY <1>2, <1>3, <2>1, OthersKeepSeedInv
<1>6. QED
  BY <1>1, <1>4, <1>5

-----------------------------------------------------------------------------
(* The steps of a start *)

\* A start that goes no further is to blame for the seeds it did not get to.
LEMMA NotBlamedIsPlaced ==
  ASSUME SeedInv, Seeding, NEW j \in DOMAIN Seeds, Seeds[j].name \notin BlamedFrom(boot.i)
  PROVE  Placed(Seeds[j].name)
<1>1. j \in 1 .. Len(Seeds) /\ boot.i \in 1 .. Len(Seeds) /\ Len(Seeds) \in Nat
  BY SeedAssumption DEF SeedInv, SeedInHand
<1>2. j \notin boot.i .. Len(Seeds)
  BY DEF BlamedFrom, NotSeededYet
<1>3. Seeds[j].name \notin touched
  BY DEF BlamedFrom, SeedInv
<1>4. QED
  BY <1>1, <1>2, <1>3 DEF SeedInv, SeededSoFar

\* The process dies, or the start fails.
LEMMA StopKeepsSeedInv ==
  ASSUME SeedInv, UNCHANGED <<storeVars, adding, touched>>, BootOK', boot'.pc \in {"off", "failed"},
         blamed' = IF Seeding THEN BlamedFrom(boot.i) ELSE blamed
  PROVE  SeedInv'
<1>1. AccountsOK' /\ AddingOK' /\ touched' \subseteq blamed'
  BY DEF SeedInv, AccountsOK, AddingOK, storeVars, BlamedFrom
<1>2. SeededBefore'
  <2> SUFFICES ASSUME \E u \in UserIds : users[u] # NoRow, NEW j \in DOMAIN Seeds, Seeds[j].name \notin blamed'
               PROVE  Placed(Seeds[j].name)
    BY DEF SeededBefore, Placed, InPlace, Named, BookOf, Live, storeVars
  <2>1. CASE Seeding
    BY <2>1, NotBlamedIsPlaced
  <2>2. CASE ~Seeding
    BY <2>2 DEF SeedInv, SeededBefore
  <2>3. QED
    BY <2>1, <2>2
<1>3. ~Seeding' /\ boot'.pc \notin {"count", "done"}
  BY DEF Seeding
<1>4. QED
  BY <1>1, <1>2, <1>3 DEF SeedInv, SeedInHand, OnlySeeds, SeededSoFar, SeedsInPlace, Seeding

\* The next process, and a start that is over: no seeding before or after.
LEMMA OffKeepsSeedInv ==
  ASSUME SeedInv, UNCHANGED <<storeVars, adding, blamed>>, touched' = {} \/ touched' = touched, ~Seeding,
         BootOK', boot'.pc \in {"off", "count"}, boot'.i = 1
  PROVE  SeedInv'
<1>1. AccountsOK' /\ AddingOK' /\ touched' \subseteq blamed'
  BY DEF SeedInv, AccountsOK, AddingOK, storeVars
<1>2. SeededBefore'
  BY DEF SeedInv, SeededBefore, Placed, InPlace, Named, BookOf, Live, storeVars
<1>3. ~Seeding' /\ boot'.pc # "done"
  BY DEF Seeding
<1>4. QED
  BY <1>1, <1>2, <1>3 DEF SeedInv, SeedInHand, OnlySeeds, SeededSoFar, SeedsInPlace, Seeding

\* Seeding goes on with what it has in hand, and nothing changes in the store.
LEMMA MoveKeepsSeedInv ==
  ASSUME SeedInv, Seeding, UNCHANGED <<storeVars, adding, touched, blamed>>,
         BootOK', Seeding', boot'.i = boot.i, boot'.force = boot.force, SeedInHand'
  PROVE  SeedInv'
<1>1. AccountsOK' /\ AddingOK' /\ touched' \subseteq blamed'
  BY DEF SeedInv, AccountsOK, AddingOK, storeVars
<1>2. OnlySeeds' /\ SeededSoFar'
  BY DEF SeedInv, OnlySeeds, SeededSoFar, Placed, InPlace, Named, BookOf, Live, storeVars
<1>3. SeededBefore' /\ SeedsInPlace'
  BY DEF SeededBefore, SeedsInPlace, Seeding
<1>4. QED
  BY <1>1, <1>2, <1>3 DEF SeedInv

\* The seed in hand has its book: on to the next one, or done.
LEMMA NextSeedKeepsSeedInv ==
  ASSUME NEW i, i = boot.i, NEW w, w = boot.uid,
         SeedInv, boot.pc \in {"book", "insert"}, NextSeed, UNCHANGED <<adding, touched>>,
         AccountsOK', users' = users, seq'.users = seq.users, \A m : Keeps(m), BookOf(w)' # {}
  PROVE  SeedInv'
<1> USE DEF SeedInv
<1>1. /\ i \in DOMAIN Seeds /\ DOMAIN Seeds = 1 .. Len(Seeds) /\ Len(Seeds) \in Nat
      /\ w \in UserIds /\ Seeding
  BY SeedAssumption, BoundsAssumption DEF SeedInHand, Seeding, AccountsOK, UserIds
<1>2. \A n : Placed(n) => Placed(n)'
  BY PlacedStays
<1>3. Seeds[i].name \notin touched => Placed(Seeds[i].name)'
  <2> SUFFICES ASSUME Seeds[i].name \notin touched PROVE Placed(Seeds[i].name)'
    OBVIOUS
  <2>1. PICK j \in DOMAIN Seeds : users[w] = Seeds[j]
    BY DEF SeedInHand
  <2>2. Seeds[j] # NoRow
    BY SeedsAreUsers
  <2>3. users[w].name = Seeds[i].name
    BY <2>1, <2>2 DEF SeedInHand
  <2>4. InPlace(Seeds[j])'
    BY <1>1, <2>1, <2>2, <2>3 DEF InPlace, Named
  <2>5. QED
    BY <2>1, <2>3, <2>4 DEF Placed
<1>4. \A j \in DOMAIN Seeds : j <= i /\ Seeds[j].name \notin touched => Placed(Seeds[j].name)'
  BY <1>1, <1>2, <1>3 DEF SeededSoFar
<1>5. CASE boot.i < Len(Seeds)
  <2>1. boot' = [boot EXCEPT !.pc = "lookup", !.i = @ + 1, !.uid = 0] /\ blamed' = blamed
    BY <1>5 DEF NextSeed
  <2>2. /\ BootOK' /\ boot'.pc = "lookup" /\ boot'.i = boot.i + 1 /\ boot'.force = boot.force
    <3>1. boot.i + 1 \in Nat /\ 0 \in 0 .. MaxUsers
      BY <1>1, BoundsAssumption
    <3>2. QED
      BY <2>1, <3>1 DEF BootOK
  <2>3. AddingOK' /\ touched' \subseteq blamed' /\ Seeding'
    BY <2>1, <2>2 DEF AddingOK, Seeding
  <2>4. SeedInHand'
    BY <1>1, <1>5, <2>2 DEF SeedInHand, Seeding
  <2>5. OnlySeeds'
    BY <1>1, <2>2 DEF OnlySeeds
  <2>6. SeededSoFar'
    BY <1>1, <1>4, <2>2 DEF SeededSoFar
  <2>7. QED
    BY <2>2, <2>3, <2>4, <2>5, <2>6 DEF SeededBefore, SeedsInPlace
<1>6. CASE ~(boot.i < Len(Seeds))
  <2>1. boot' = [boot EXCEPT !.pc = "done"] /\ blamed' = blamed \cap touched
    BY <1>6 DEF NextSeed, Done
  <2>2. BootOK' /\ boot'.pc = "done" /\ ~Seeding'
    BY <2>1 DEF BootOK, Seeding
  <2>3. AddingOK' /\ touched' \subseteq blamed' /\ blamed' = touched
    BY <2>1 DEF AddingOK
  <2>4. \A j \in DOMAIN Seeds : Seeds[j].name \notin blamed' => Placed(Seeds[j].name)'
    BY <1>1, <1>4, <1>6, <2>3
  <2>5. SeededBefore' /\ SeedsInPlace'
    BY <2>4 DEF SeededBefore, SeedsInPlace, Placed
  <2>6. QED
    BY <2>2, <2>3, <2>5 DEF SeedInHand, OnlySeeds, SeededSoFar
<1>7. QED
  BY <1>5, <1>6

\* A start that fails.
LEMMA FailKeepsSeedInv ==
  ASSUME SeedInv, boot.pc # "count", Seeding, Fail, UNCHANGED <<storeVars, adding, touched>>
  PROVE  SeedInv'
<1>1. BootOK' /\ boot'.pc = "failed"
  BY DEF Fail, BootOK, SeedInv
<1>2. blamed' = BlamedFrom(boot.i)
  BY DEF Fail
<1>3. QED
  BY <1>1, <1>2, StopKeepsSeedInv

\* The start's steps, one by one.
LEMMA CountKeepsSeedInv == ASSUME SeedInv, Count PROVE SeedInv'
<1> USE DEF SeedInv
<1>1. boot.pc = "count" /\ boot.i = 1 /\ ~Seeding /\ UNCHANGED <<storeVars, adding, touched, blamed>>
  BY DEF Count, SeedInHand, Seeding
<1>2. AccountsOK' /\ AddingOK' /\ touched' \subseteq blamed'
  BY <1>1 DEF AccountsOK, AddingOK, storeVars
<1>3. CASE Skips \/ Seeds = <<>>
  <2>1. BootOK' /\ boot'.pc = "done"
    BY <1>3 DEF Count, BootOK
  <2>2. SeededBefore' /\ SeedsInPlace'
    <3>1. CASE Seeds = <<>>
      BY <3>1 DEF SeededBefore, SeedsInPlace
    <3>2. CASE Skips
      BY <1>1, <3>2
      DEF Skips, SeededBefore, SeedsInPlace, Placed, InPlace, Named, BookOf, Live, storeVars
    <3>3. QED
      BY <1>3, <3>1, <3>2
  <2>3. QED
    BY <1>2, <2>1, <2>2 DEF SeedInHand, OnlySeeds, SeededSoFar, Seeding
<1>4. CASE ~Skips /\ Seeds # <<>>
  <2>1. BootOK' /\ boot'.pc = "lookup" /\ boot'.i = 1 /\ boot'.force = boot.force
    BY <1>1, <1>4 DEF Count, BootOK
  <2>2. 1 \in DOMAIN Seeds
    BY <1>4, SeedAssumption
  <2>3. SeedInHand'
    BY <2>1, <2>2 DEF SeedInHand
  <2>4. OnlySeeds'
    BY <1>1, <1>4, <2>1 DEF OnlySeeds, Skips, storeVars
  <2>5. SeededSoFar'
    BY <2>1, SeedAssumption DEF SeededSoFar
  <2>6. QED
    BY <1>2, <2>1, <2>3, <2>4, <2>5 DEF SeededBefore, SeedsInPlace, Seeding
<1>5. QED
  BY <1>3, <1>4

LEMMA LookupKeepsSeedInv == ASSUME SeedInv, Lookup PROVE SeedInv'
<1> USE DEF SeedInv
<1>1. boot.pc = "lookup" /\ Seeding /\ UNCHANGED <<storeVars, adding, touched, blamed>>
  BY DEF Lookup, Seeding
<1>2. CASE Named(Seeds[boot.i].name) = {}
  <2>1. boot' = [boot EXCEPT !.pc = "create"]
    BY <1>2 DEF Lookup
  <2>2. BootOK' /\ boot'.pc = "create" /\ boot'.i = boot.i /\ boot'.force = boot.force
    BY <2>1 DEF BootOK
  <2>3. SeedInHand' /\ Seeding'
    BY <1>1, <2>2 DEF SeedInHand, Seeding
  <2>4. QED
    BY <1>1, <2>2, <2>3, MoveKeepsSeedInv
<1>3. CASE Named(Seeds[boot.i].name) # {}
  <2>1. PICK u \in Named(Seeds[boot.i].name) :
           boot' = [boot EXCEPT !.pc = AfterFound(boot.force), !.uid = u]
    BY <1>3 DEF Lookup
  <2>2. /\ u \in UserIds /\ u \in 1 .. seq.users
        /\ users[u] # NoRow /\ users[u].name = Seeds[boot.i].name
    BY <2>1, BoundsAssumption DEF Named, AccountsOK, UserIds
  <2>3. /\ BootOK' /\ boot'.pc = (IF boot.force THEN "rehash" ELSE "book")
        /\ boot'.uid = u /\ boot'.i = boot.i /\ boot'.force = boot.force
    <3>1. u \in 0 .. MaxUsers
      BY <2>2, BoundsAssumption DEF UserIds
    <3>2. boot' = [boot EXCEPT !.pc = IF boot.force THEN "rehash" ELSE "book", !.uid = u]
      BY <2>1 DEF AfterFound
    <3>3. QED
      BY <3>1, <3>2 DEF BootOK
  <2>4. Seeding'
    BY <2>3 DEF Seeding
  <2>5. ~boot.force /\ Seeds[boot.i].name \notin touched => \E j \in DOMAIN Seeds : users[u] = Seeds[j]
    BY <1>1, <2>2 DEF OnlySeeds
  <2>6. SeedInHand'
    BY <1>1, <2>2, <2>3, <2>5 DEF SeedInHand, storeVars
  <2>7. QED
    BY <1>1, <2>3, <2>4, <2>6, MoveKeepsSeedInv
<1>4. QED
  BY <1>2, <1>3

LEMMA CreateKeepsSeedInv == ASSUME SeedInv, Create PROVE SeedInv'
<1> USE DEF SeedInv
<1> DEFINE seed == Seeds[boot.i]
<1>1. boot.pc = "create" /\ Seeding /\ UNCHANGED <<adding, touched>> /\ boot.i \in DOMAIN Seeds
  BY DEF Create, Seeding, SeedInHand
<1>2. seed \in UserRow /\ seed # NoRow /\ seed = [name |-> seed.name, hash |-> seed.hash]
      /\ seed.name \in Usernames /\ seed.hash \in Hashes
  BY <1>1, SeedsAreUsers DEF UserRow
<1>3. CASE CreateUser(seed.name, seed.hash) /\ UNCHANGED blamed
           /\ boot' = [boot EXCEPT !.pc = "book", !.uid = seq.users + 1]
  <2>1. /\ AccountsOK' /\ \A m : Keeps(m)
        /\ seq.users + 1 \in 1 .. seq'.users
        /\ users' = [users EXCEPT ![seq.users + 1] = seed]
    BY <1>2, <1>3, CreateUserKeeps
  <2>2. seq.users + 1 \in UserIds /\ seq.users + 1 \in 0 .. MaxUsers
    BY <2>1, BoundsAssumption DEF AccountsOK, UserIds
  <2>3. /\ BootOK' /\ boot'.pc = "book" /\ boot'.uid = seq.users + 1 /\ boot'.i = boot.i
        /\ boot'.force = boot.force
    BY <1>3, <2>2 DEF BootOK
  <2>4. AddingOK' /\ touched' \subseteq blamed' /\ Seeding'
    BY <1>1, <1>3, <2>3 DEF AddingOK, Seeding
  <2>5. users'[seq.users + 1] = seed /\ \A u \in UserIds : u # seq.users + 1 => users'[u] = users[u]
    BY <2>1, <2>2 DEF AccountsOK
  <2>6. SeedInHand'
    BY <1>1, <2>1, <2>3, <2>5 DEF SeedInHand
  <2>7. OnlySeeds'
    BY <1>1, <2>3, <2>5 DEF OnlySeeds
  <2>8. \A n : Placed(n) => Placed(n)'
    BY <2>1, PlacedStays
  <2>9. SeededSoFar'
    BY <1>1, <2>3, <2>8 DEF SeededSoFar
  <2>10. QED
    BY <2>1, <2>3, <2>4, <2>6, <2>7, <2>9 DEF SeededBefore, SeedsInPlace
<1>4. CASE Fail /\ UNCHANGED storeVars
  BY <1>1, <1>4, FailKeepsSeedInv
<1>5. QED
  BY <1>3, <1>4 DEF Create

LEMMA RehashKeepsSeedInv == ASSUME SeedInv, Rehash PROVE SeedInv'
<1> USE DEF SeedInv
<1> DEFINE seed == Seeds[boot.i]
           u == boot.uid
<1>1. /\ boot.pc = "rehash" /\ Seeding /\ UNCHANGED <<adding, touched>>
      /\ boot.i \in DOMAIN Seeds /\ DOMAIN Seeds = 1 .. Len(Seeds)
      /\ u \in UserIds /\ u \in 1 .. seq.users
  BY SeedAssumption, BoundsAssumption DEF Rehash, Seeding, SeedInHand, AccountsOK, UserIds
<1>2. seed \in UserRow /\ seed # NoRow /\ seed = [name |-> seed.name, hash |-> seed.hash]
      /\ seed.name \in Usernames /\ seed.hash \in Hashes
  BY <1>1, SeedsAreUsers DEF UserRow
<1>3. CASE users[u] = NoRow
  BY <1>1, <1>3, FailKeepsSeedInv DEF Rehash
<1>4. CASE users[u] # NoRow
  <2>1. SetUserPasswordHash(u, seed.hash) /\ boot' = [boot EXCEPT !.pc = "book"] /\ blamed' = blamed
    BY <1>1, <1>4 DEF Rehash
  <2>2. users[u].name = seed.name
    BY <1>1, <1>4 DEF SeedInHand
  <2>3. /\ AccountsOK' /\ KeepsIds /\ \A m : m # seed.name => Keeps(m)
        /\ seq' = seq /\ books' = books /\ users' = [users EXCEPT ![u] = seed]
    BY <1>1, <1>2, <2>1, <2>2, SetHashKeeps
  <2>4. BootOK' /\ boot'.pc = "book" /\ boot'.uid = u /\ boot'.i = boot.i /\ boot'.force = boot.force
    BY <2>1 DEF BootOK
  <2>5. AddingOK' /\ touched' \subseteq blamed' /\ Seeding'
    BY <1>1, <2>1, <2>4 DEF AddingOK, Seeding
  <2>6. users'[u] = seed /\ \A v \in UserIds : v # u => users'[v] = users[v]
    BY <1>1, <2>3 DEF AccountsOK
  <2>7. SeedInHand'
    BY <1>1, <2>3, <2>4, <2>6 DEF SeedInHand
  <2>8. OnlySeeds'
    BY <1>1, <2>4, <2>6 DEF OnlySeeds
  <2>9. ASSUME NEW n, Placed(n) PROVE Placed(n)'
    <3>1. CASE n # seed.name
      BY <2>3, <2>9, <3>1, PlacedStays
    <3>2. CASE n = seed.name
      <4>1. PICK j \in DOMAIN Seeds : Seeds[j].name = n /\ InPlace(Seeds[j])
        BY <2>9 DEF Placed
      <4>2. PICK v \in UserIds : users[v] # NoRow /\ users[v].name = n /\ BookOf(v) # {}
        BY <4>1 DEF InPlace, Named
      <4>3. v = u
        BY <1>1, <1>4, <2>2, <3>2, <4>2 DEF AccountsOK
      <4>4. BookOf(v)' # {} /\ v \in Named(n)' /\ users'[v].hash = seed.hash
        BY <1>2, <2>3, <2>6, <3>2, <4>2, <4>3 DEF BookOf, Live, Named
      <4>5. PICK k \in DOMAIN Seeds : Seeds[k] = seed
        BY <1>1
      <4>6. InPlace(Seeds[k])'
        BY <3>2, <4>4, <4>5 DEF InPlace
      <4>7. QED
        BY <3>2, <4>5, <4>6 DEF Placed
    <3>3. QED
      BY <3>1, <3>2
  <2>10. SeededSoFar'
    BY <1>1, <2>4, <2>9 DEF SeededSoFar
  <2>11. QED
    BY <2>3, <2>4, <2>5, <2>7, <2>8, <2>10 DEF SeededBefore, SeedsInPlace
<1>5. QED
  BY <1>3, <1>4

LEMMA FindBookKeepsSeedInv == ASSUME SeedInv, FindBook PROVE SeedInv'
<1>1. boot.pc = "book" /\ Seeding /\ UNCHANGED <<storeVars, adding, touched>>
  BY DEF FindBook, Seeding
<1>2. AccountsOK' /\ (\A m : Keeps(m)) /\ users' = users /\ seq' = seq /\ books' = books
  BY <1>1 DEF SeedInv, AccountsOK, Keeps, storeVars
<1>3. CASE BookOf(boot.uid) # {}
  <2>1. PICK w : w = boot.uid
    OBVIOUS
  <2>2. BookOf(w)' # {} /\ NextSeed
    BY <1>2, <1>3, <2>1 DEF FindBook, BookOf, Live
  <2>3. PICK i : i = boot.i
    OBVIOUS
  <2>4. QED
    BY <1>1, <1>2, <2>1, <2>2, <2>3, NextSeedKeepsSeedInv
<1>4. CASE BookOf(boot.uid) = {}
  <2>1. boot' = [boot EXCEPT !.pc = "insert"] /\ blamed' = blamed
    BY <1>4 DEF FindBook
  <2>2. /\ BootOK' /\ boot'.pc = "insert" /\ boot'.uid = boot.uid /\ boot'.i = boot.i
        /\ boot'.force = boot.force /\ Seeding'
    BY <2>1 DEF BootOK, SeedInv, Seeding
  <2>3. SeedInHand'
    BY <1>1, <2>2 DEF SeedInHand, SeedInv, storeVars
  <2>4. QED
    BY <1>1, <2>1, <2>2, <2>3, MoveKeepsSeedInv
<1>5. QED
  BY <1>3, <1>4

LEMMA InsertBookKeepsSeedInv == ASSUME SeedInv, InsertBook PROVE SeedInv'
<1>1. boot.pc = "insert" /\ Seeding /\ UNCHANGED <<adding, touched>>
  BY DEF InsertBook, Seeding
<1>2. CASE CreateAddressbook(boot.uid, DefaultSlug, DefaultName, TRUE) /\ NextSeed
  <2>1. PICK w \in UserIds : w = boot.uid
    BY <1>1, BoundsAssumption DEF SeedInv, SeedInHand, AccountsOK, UserIds
  <2>2. /\ AccountsOK' /\ (\A m : Keeps(m)) /\ users' = users /\ seq'.users = seq.users
        /\ NewBookId \in BookIds /\ books'[NewBookId] # NoRow
        /\ books'[NewBookId].owner = w /\ books'[NewBookId].slug = DefaultSlug
    BY <1>2, <2>1, CreateBookKeeps, SeedAssumption DEF SeedInv
  <2>3. BookOf(w)' # {}
    BY <2>2 DEF BookOf, Live
  <2>4. PICK i : i = boot.i
    OBVIOUS
  <2>5. QED
    BY <1>1, <1>2, <2>1, <2>2, <2>3, <2>4, NextSeedKeepsSeedInv
<1>3. CASE Fail /\ UNCHANGED storeVars
  BY <1>1, <1>3, FailKeepsSeedInv
<1>4. QED
  BY <1>2, <1>3 DEF InsertBook

-----------------------------------------------------------------------------
LEMMA DaemonStepKeepsSeedInv ==
  ASSUME SeedInv, [DaemonNext]_vars
  PROVE  SeedInv'
<1>1. CASE Start
  <2>1. PICK force \in BOOLEAN : StartDaemon(force)
    BY <1>1 DEF Start
  <2>2. boot' = [pc |-> "count", force |-> force, i |-> 1, uid |-> 0] /\ ~Seeding
    BY <2>1 DEF StartDaemon, Off, Seeding
  <2>3. BootOK'
    BY <2>2, BoundsAssumption DEF BootOK
  <2>4. UNCHANGED <<storeVars, adding, blamed>> /\ touched' = {}
    BY <2>1 DEF StartDaemon
  <2>5. boot'.pc = "count" /\ boot'.i = 1
    BY <2>2
  <2>6. QED
    BY <2>2, <2>3, <2>4, <2>5, OffKeepsSeedInv
<1>2. CASE Startup
  BY <1>2, CountKeepsSeedInv, LookupKeepsSeedInv, CreateKeepsSeedInv, RehashKeepsSeedInv,
     FindBookKeepsSeedInv, InsertBookKeepsSeedInv DEF Startup, SeedStep
<1>3. CASE StartupFailed \/ Serving
  <2>1. /\ boot' = [pc |-> "off", force |-> FALSE, i |-> 1, uid |-> 0] /\ ~Seeding
        /\ UNCHANGED <<storeVars, adding, touched, blamed>>
    BY <1>3 DEF StartupFailed, Serving, Off, Seeding
  <2>2. BootOK'
    BY <2>1, BoundsAssumption DEF BootOK
  <2>3. QED
    BY <2>1, <2>2, OffKeepsSeedInv
<1>4. CASE Killed
  <2>1. /\ boot' = [pc |-> "off", force |-> FALSE, i |-> 1, uid |-> 0]
        /\ blamed' = (IF Seeding THEN BlamedFrom(boot.i) ELSE blamed)
        /\ UNCHANGED <<storeVars, adding, touched>>
    BY <1>4 DEF Killed, Cut, Off
  <2>2. BootOK'
    BY <2>1, BoundsAssumption DEF BootOK
  <2>3. QED
    BY <2>1, <2>2, StopKeepsSeedInv
<1>5. CASE Accounts
  BY <1>5, CtlStepKeepsSeedInv, ClientStepKeepsSeedInv DEF Accounts
<1>6. CASE Serves \/ UNCHANGED vars
  <2>1. UNCHANGED <<storeVars, bootVars>>
    BY <1>6 DEF Serves, vars
  <2>2. AddingOK' /\ UNCHANGED <<storeVars, boot, touched, blamed>>
    BY <2>1 DEF bootVars, AddingOK, SeedInv
  <2>3. QED
    BY <2>2, UnchangedKeepsSeedInv
<1>7. QED
  BY <1>1, <1>2, <1>3, <1>4, <1>5, <1>6 DEF DaemonNext

LEMMA InitSeedInv == ASSUME DaemonInit PROVE SeedInv
<1>1. boot = [pc |-> "off", force |-> FALSE, i |-> 1, uid |-> 0] /\ adding = NotAdding
      /\ touched = {} /\ blamed = {}
  BY DEF DaemonInit, BootInit, Off
<1>2. AccountsOK
  BY BoundsAssumption DEF DaemonInit, BootInit, StoreInit, AccountsOK
<1>3. \A u \in UserIds : users[u] = NoRow
  BY DEF DaemonInit, BootInit, StoreInit
<1>4. BootOK /\ AddingOK
  BY <1>1, BoundsAssumption DEF BootOK, AddingOK
<1>5. QED
  BY <1>1, <1>2, <1>3, <1>4
  DEF SeedInv, SeedInHand, OnlySeeds, SeededSoFar, SeededBefore, SeedsInPlace, Seeding

\* Whatever crashes, restarts and failed starts came before, and whatever operators and
\* clients did: when startupStore returns, every seed is in place that nobody
\* else is to blame for.
THEOREM Seeded == DaemonSpec => []SeedsInPlace
<1>1. DaemonInit => SeedInv
  BY InitSeedInv
<1>2. SeedInv /\ [DaemonNext]_vars => SeedInv'
  BY DaemonStepKeepsSeedInv
<1>3. SeedInv => SeedsInPlace
  BY DEF SeedInv
<1>4. QED
  BY <1>1, <1>2, <1>3, PTL DEF DaemonSpec
-----------------------------------------------------------------------------
(* The store under the daemon *)

\* Every statement of the seeding, of contactctl and of a client is a transaction of the store.
LEMMA DaemonStores == ASSUME SeedInv, [DaemonNext]_vars PROVE [StoreNext]_storeVars
<1>1. /\ DefaultSlug \in Slugs /\ DefaultName \in Names
      /\ \A i \in DOMAIN Seeds : Seeds[i].name \in Usernames /\ Seeds[i].hash \in Hashes
      /\ \A u \in UserIds : users[u] # NoRow => u \in 1 .. seq.users
  <2>1. \A i \in DOMAIN Seeds : Seeds[i].name \in Usernames /\ Seeds[i].hash \in Hashes
    BY SeedsAreUsers DEF UserRow
  <2>2. \A u \in UserIds : users[u] # NoRow => u \in 1 .. seq.users
    BY BoundsAssumption DEF SeedInv, AccountsOK, UserIds
  <2>. QED  BY <2>1, <2>2, SeedAssumption
\* An INSERT that foreign keys allow is allowed without them.
<1>2. ASSUME NEW u, CreateAddressbook(u, DefaultSlug, DefaultName, TRUE), u \in UserIds
      PROVE  BookStep
  <2>1. u \in 1 .. seq.users
    BY <1>1, <1>2 DEF CreateAddressbook
  <2>2. \A fk : CreateAddressbook(u, DefaultSlug, DefaultName, fk)
    BY <1>2 DEF CreateAddressbook
  <2>. QED  BY <1>1, <2>1, <2>2, ForeignKeysAssumption DEF BookStep
<1>3. boot.pc \in {"rehash", "insert"} => boot.uid \in UserIds
  BY BoundsAssumption DEF SeedInv, SeedInHand, AccountsOK, UserIds
<1>4. Seeding => boot.i \in DOMAIN Seeds
  BY DEF SeedInv, SeedInHand
<1>5. ASSUME SeedStep PROVE [StoreNext]_storeVars
  <2>1. CASE Create
    BY <1>1, <1>4, <2>1 DEF Create, Seeding, StoreNext, UserStep
  <2>2. CASE Rehash
    BY <1>1, <1>3, <1>4, <2>2 DEF Rehash, Seeding, StoreNext, UserStep
  <2>3. CASE InsertBook
    BY <1>2, <1>3, <2>3 DEF InsertBook, StoreNext
  <2>4. CASE Count \/ Lookup \/ FindBook
    BY <2>4 DEF Count, Lookup, FindBook
  <2>. QED  BY <1>5, <2>1, <2>2, <2>3, <2>4 DEF SeedStep
<1>6. ASSUME CtlStep PROVE [StoreNext]_storeVars
  <2>1. CASE AddInsertBook
    <3>1. adding.uid \in UserIds
      BY <2>1 DEF AddInsertBook, SeedInv, AddingOK, NotAdding
    <3>. QED  BY <1>2, <2>1, <3>1 DEF AddInsertBook, StoreNext
  <2>2. CASE \E n \in Usernames, p \in Hashes : AddUser(n, p)
    BY <2>2 DEF AddUser, StoreNext, UserStep
  <2>3. CASE \E u \in UserIds : UserDelete(u)
    BY <2>3 DEF UserDelete, StoreNext, UserStep
  <2>4. CASE \E u \in UserIds, p \in Hashes : UserPasswd(u, p)
    BY <2>4 DEF UserPasswd, StoreNext, UserStep
  <2>5. CASE AddFindBook \/ AddCut
    BY <2>5 DEF AddFindBook, AddCut
  <2>. QED  BY <1>6, <2>1, <2>2, <2>3, <2>4, <2>5 DEF CtlStep
<1>7. ASSUME ClientStep PROVE [StoreNext]_storeVars
  <2>1. PICK n \in Usernames :
          \/ \E fk \in ForeignKeys : DeleteAddressbook(n, DefaultSlug, fk)
          \/ \E u \in Named(n), fk \in ForeignKeys : CreateAddressbook(u, DefaultSlug, DefaultName, fk)
    BY <1>7 DEF ClientStep
  <2>2. \A u \in Named(n) : u \in 1 .. seq.users
    BY <1>1 DEF Named
  <2>. QED  BY <1>1, <2>1, <2>2 DEF StoreNext, BookStep
<1>8. CASE Startup
  BY <1>5, <1>8 DEF Startup
<1>9. CASE Accounts
  BY <1>6, <1>7, <1>9 DEF Accounts
<1>10. CASE Start \/ StartupFailed \/ Serving \/ Killed \/ Serves \/ UNCHANGED vars
  BY <1>10 DEF Start, StartDaemon, StartupFailed, Serving, Killed, Cut, Serves, vars
<1>. QED  BY <1>8, <1>9, <1>10 DEF DaemonNext

\* The names that somebody is to blame for are names of users.
NamesOK == touched \subseteq Usernames /\ blamed \subseteq Usernames

LEMMA DaemonNames == ASSUME SeedInv, TypeOK, NamesOK, [DaemonNext]_vars PROVE NamesOK'
<1>1. \A i \in DOMAIN Seeds : Seeds[i].name \in Usernames
  BY SeedsAreUsers DEF UserRow
<1>2. DOMAIN Seeds = 1 .. Len(Seeds) /\ Len(Seeds) \in Nat
  BY SeedAssumption, LenProperties
<1>3. boot.i \in Nat
  BY DEF SeedInv, BootOK
<1>4. SeedNames \subseteq Usernames
  BY <1>1 DEF SeedNames
<1>5. ASSUME Seeding PROVE BlamedFrom(boot.i) \subseteq Usernames
  <2>1. boot.i > 0
    BY <1>2, <1>5 DEF SeedInv, SeedInHand
  <2>2. \A j \in boot.i .. Len(Seeds) : j \in DOMAIN Seeds
    BY <1>2, <1>3, <2>1
  <2>. QED  BY <1>1, <2>2 DEF BlamedFrom, NotSeededYet, NamesOK
<1>6. ASSUME NEW names, names \subseteq Usernames, Touch(names) PROVE NamesOK'
  BY <1>6 DEF Touch, NamesOK
<1>7. ASSUME SeedStep PROVE NamesOK'
  <2>1. ASSUME Done \/ Fail, Seeding, UNCHANGED touched PROVE NamesOK'
    BY <1>5, <2>1 DEF Done, Fail, NamesOK
  <2>2. ASSUME NextSeed, Seeding, UNCHANGED touched PROVE NamesOK'
    BY <2>1, <2>2 DEF NextSeed, NamesOK
  <2>3. CASE Count \/ Lookup
    BY <2>3 DEF Count, Lookup, NamesOK
  <2>4. CASE Create \/ Rehash
    BY <2>1, <2>4 DEF Create, Rehash, Seeding, NamesOK
  <2>5. CASE FindBook \/ InsertBook
    BY <2>1, <2>2, <2>5 DEF FindBook, InsertBook, Seeding, NamesOK
  <2>. QED  BY <1>7, <2>3, <2>4, <2>5 DEF SeedStep
<1>8. \A u \in UserIds : users[u] # NoRow => users[u].name \in Usernames
  BY DEF TypeOK, UserRow
<1>9. ASSUME CtlStep PROVE NamesOK'
  <2>1. CASE \E n \in Usernames, p \in Hashes : AddUser(n, p)
    <3>1. PICK n \in Usernames, p \in Hashes : AddUser(n, p)
      BY <2>1
    <3>2. PICK names : Touch({n} \cup names) /\ names \in {SeedNames, {}}
      BY <3>1 DEF AddUser
    <3>. QED  BY <1>4, <1>6, <3>2
  <2>2. CASE (\E u \in UserIds : UserDelete(u)) \/ (\E u \in UserIds, p \in Hashes : UserPasswd(u, p))
    <3>1. PICK u \in UserIds : users[u] # NoRow /\ Touch({users[u].name})
      BY <2>2 DEF UserDelete, UserPasswd
    <3>. QED  BY <1>6, <1>8, <3>1
  <2>3. CASE AddFindBook \/ AddInsertBook \/ AddCut
    BY <2>3 DEF AddFindBook, AddInsertBook, AddCut, NamesOK
  <2>. QED  BY <1>9, <2>1, <2>2, <2>3 DEF CtlStep
<1>10. ASSUME ClientStep PROVE NamesOK'
  BY <1>6, <1>10 DEF ClientStep
<1>11. CASE Startup \/ Accounts
  BY <1>7, <1>9, <1>10, <1>11 DEF Startup, Accounts
<1>12. CASE Start \/ StartupFailed \/ Serving \/ Serves \/ UNCHANGED vars
  BY <1>12 DEF Start, StartDaemon, StartupFailed, Serving, Serves, vars, bootVars, NamesOK
<1>13. CASE Killed
  BY <1>5, <1>13 DEF Killed, Cut, NamesOK
<1>. QED  BY <1>11, <1>12, <1>13 DEF DaemonNext

LEMMA DaemonInvariant == DaemonSpec => [](SeedInv /\ JournalInv /\ NamesOK)
<1>1. DaemonInit => SeedInv /\ JournalInv /\ NamesOK
  BY InitSeedInv, JournalInit DEF DaemonInit, BootInit, NamesOK
<1>2. SeedInv /\ JournalInv /\ NamesOK /\ [DaemonNext]_vars => (SeedInv /\ JournalInv /\ NamesOK)'
  <2>. SUFFICES ASSUME SeedInv, JournalInv, NamesOK, [DaemonNext]_vars
                PROVE  (SeedInv /\ JournalInv /\ NamesOK)'
    OBVIOUS
  <2>1. JournalInv'
    BY DaemonStores, JournalStep
  <2>. QED  BY <2>1, DaemonStepKeepsSeedInv, DaemonNames DEF JournalInv
<1>. QED  BY <1>1, <1>2, PTL DEF DaemonSpec

\* What startupStore, contactctl's user commands and clients do to the tables, cut by crashes
\* anywhere, is a behaviour of Store: everything proved of Store holds of them.
THEOREM DaemonRunsTheStore == DaemonSpec => StoreSpec
<1>1. DaemonInit => StoreInit
  BY DEF DaemonInit, BootInit
<1>2. SeedInv /\ [DaemonNext]_vars => [StoreNext]_storeVars
  BY DaemonStores
<1>. QED  BY <1>1, <1>2, DaemonInvariant, PTL DEF DaemonSpec, StoreSpec

\* Type correctness of a daemon's lives: tables, seeding, contactctl, goroutines and gate.
THEOREM DaemonTypeCorrect == DaemonSpec => []DaemonTypeOK
<1>1. SeedInv /\ JournalInv /\ NamesOK /\ ServeInv => DaemonTypeOK
  BY DEF SeedInv, JournalInv, NamesOK, ServeInv, DaemonTypeOK, BootTypeOK
<1>. QED  BY <1>1, DaemonInvariant, ServesInOrder, PTL
=============================================================================
