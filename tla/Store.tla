------------------------------- MODULE Store -------------------------------
(***************************************************************************)
(* The SQLite store of go-contactd (src/internal/db/store.go): users,      *)
(* address books, cards and the card_changes journal.  One action is one   *)
(* transaction: the write paths of cards run inside BEGIN IMMEDIATE, every *)
(* other operation is a single SQL statement, so SQLite serialises them.   *)
(* An operation that fails rolls back and is a step that changes nothing;  *)
(* it is modelled by the action not being enabled.                         *)
(*                                                                         *)
(* Row ids are AUTOINCREMENT integers and are never reused.  An ETag is    *)
(* the hash of the canonical card text, so it stands for the text too.     *)
(***************************************************************************)
EXTENDS Integers, Sequences, FiniteSets, FiniteSetsExt

CONSTANTS
    Usernames, Hashes, Slugs, Names, \* users.username/password_hash, addressbooks.slug/displayname
    Hrefs, Uids, ETags,              \* cards.href, cards.uid, cards.etag
    NoRow,                           \* "no row with this key"
    Unconditional,                   \* a write without a precondition
    ForeignKeys,                     \* the foreign_keys settings a pooled connection may have
    LockWait,                        \* how long, in ticks, BEGIN IMMEDIATE may wait for the write lock
    MaxUsers, MaxBooks,              \* bounds: row ids ever handed out
    MaxRev, MaxClock, MaxBatch       \* bounds: revision of a book, clock, length of a batch

UserIds == 1 .. MaxUsers
BookIds == 1 .. MaxBooks

UserRow == [name : Usernames, hash : Hashes]
BookRow == [owner : UserIds, slug : Slugs, name : Names, revision : 0 .. MaxRev]
Card    == [uid : Uids, etag : ETags]
Change  == [book : BookIds, href : Hrefs, etag : ETags, deleted : BOOLEAN,
            rev : 1 .. MaxRev, at : 0 .. MaxClock]
PutInput == [href : Hrefs, uid : Uids, etag : ETags]

ASSUME BoundsAssumption ==
    /\ MaxUsers \in Nat /\ MaxBooks \in Nat /\ MaxRev \in Nat
    /\ MaxClock \in Nat /\ MaxBatch \in Nat /\ LockWait \in Nat
ASSUME ForeignKeysAssumption == ForeignKeys \subseteq BOOLEAN /\ ForeignKeys # {}
ASSUME NoRowAssumption ==
    /\ NoRow \notin Card /\ NoRow \notin ETags
    /\ \A r \in {NoRow} : r \notin BookRow /\ r \notin UserRow
ASSUME AnyAssumption == Unconditional # NoRow /\ Unconditional \notin ETags

VARIABLES
    users,     \* [UserIds -> UserRow or NoRow]
    books,     \* [BookIds -> BookRow or NoRow]
    cards,     \* [BookIds -> [Hrefs -> Card or NoRow]]
    changes,   \* the rows of card_changes
    seq,       \* sqlite_sequence: the last id handed out in each table
    clock,     \* wall clock
    last       \* history variable: the revision of the last change ever made
               \* to each href (0: none); it survives every prune

storeVars == <<users, books, cards, changes, seq, clock, last>>

Live == {id \in BookIds : books[id] # NoRow}

\* What GetAddressbookByUsernameSlug's join finds: a set with at most one id.
AddressbookOf(username, slug) ==
    {id \in Live : /\ books[id].slug = slug
                   /\ users[books[id].owner] # NoRow
                   /\ users[books[id].owner].name = username}

-----------------------------------------------------------------------------
(* Mutations of the definitions below, each a plausible bug *)

NewBookIdReused == Max({0} \cup Live) + 1                \* no AUTOINCREMENT
BumpedNever(id, n) == books                              \* UPDATE addressbooks forgotten
RevisionBeforeBump(id, i) == books[id].revision + i - 1  \* revision read before the bump
RevisionPerBatch(id, i) == books[id].revision + 1        \* revision read once per batch
DeleteRowUntimed(id, h, now) ==                          \* no changed_at in the INSERT
    [book |-> id, href |-> h, etag |-> cards[id][h].etag, deleted |-> TRUE,
     rev |-> books[id].revision + 1, at |-> 0]
PrunedTombstones(c, keep) ==                             \* prune what was deleted only
    books[c.book] # NoRow /\ c.deleted /\ c.rev <= books[c.book].revision - keep

-----------------------------------------------------------------------------
(* Users *)

CreateUser(username, hash) ==
    /\ seq.users < MaxUsers                                         \* bound
    /\ \A u \in UserIds : users[u] # NoRow => users[u].name # username
    /\ users' = [users EXCEPT ![seq.users + 1] = [name |-> username, hash |-> hash]]
    /\ seq' = [seq EXCEPT !.users = @ + 1]
    /\ UNCHANGED <<books, cards, changes, clock, last>>

SetUserPasswordHash(u, hash) ==
    /\ users[u] # NoRow
    /\ users' = [users EXCEPT ![u].hash = hash]
    /\ UNCHANGED <<books, cards, changes, seq, clock, last>>

\* The books in ids go; ON DELETE CASCADE takes their cards and their journal with
\* them only where the connection has foreign keys on.
RemoveBooks(ids, fk) ==
    /\ books' = [id \in BookIds |-> IF id \in ids THEN NoRow ELSE books[id]]
    /\ cards' = [id \in BookIds |-> IF fk /\ id \in ids THEN [h \in Hrefs |-> NoRow]
                                                        ELSE cards[id]]
    /\ changes' = {c \in changes : ~(fk /\ c.book \in ids)}

\* contactctl alone deletes users; it is sequential and keeps the connection that
\* Open set foreign_keys on, so the cascade reaches the user's books.
DeleteUser(u) ==
    /\ users[u] # NoRow
    /\ users' = [users EXCEPT ![u] = NoRow]
    /\ RemoveBooks({id \in Live : books[id].owner = u}, TRUE)
    /\ UNCHANGED <<seq, clock, last>>

-----------------------------------------------------------------------------
(* Address books *)

\* AUTOINCREMENT: one more than the largest id ever handed out.
NewBookId == seq.books + 1

CreateAddressbook(u, slug, name, fk) ==
    /\ NewBookId \in BookIds                                        \* bound
    /\ fk => users[u] # NoRow
    /\ \A id \in Live : ~(books[id].owner = u /\ books[id].slug = slug)
    /\ books' = [books EXCEPT ![NewBookId] =
                    [owner |-> u, slug |-> slug, name |-> name, revision |-> 0]]
    /\ seq' = [seq EXCEPT !.books = NewBookId]
    /\ UNCHANGED <<users, cards, changes, clock, last>>

UpdateAddressbookMetadata(username, slug, name) ==
    \E id \in AddressbookOf(username, slug) :
        /\ books' = [books EXCEPT ![id].name = name]
        /\ UNCHANGED <<users, cards, changes, seq, clock, last>>

DeleteAddressbook(username, slug, fk) ==
    /\ AddressbookOf(username, slug) # {}
    /\ RemoveBooks(AddressbookOf(username, slug), fk)
    /\ UNCHANGED <<users, seq, clock, last>>

-----------------------------------------------------------------------------
(* Cards *)

\* The elements among the first n of batch b that write href h.
Writes(b, n, h) == {i \in 1 .. n : b[i].href = h}

\* The cards of a book after the first n elements of b.
CardsAfter(id, b, n) ==
    [h \in Hrefs |-> IF Writes(b, n, h) = {} THEN cards[id][h]
                     ELSE LET i == Max(Writes(b, n, h))
                          IN  [uid |-> b[i].uid, etag |-> b[i].etag]]

\* Mutation: a card may not keep its own uid.
UidFreeOfAll(cs, in) == \A h \in Hrefs : cs[h] # NoRow => cs[h].uid # in.uid

\* UNIQUE (addressbook_id, uid): no other card of the book may have this uid.
UidFree(cs, in) == \A h \in Hrefs \ {in.href} : cs[h] # NoRow => cs[h].uid # in.uid

\* The precondition of PutCardConditional: Unconditional, NoRow (RequireAbsent) or an
\* ETag (ExpectedCurrentETagHex).
Holds(cond, card) ==
    \/ cond = Unconditional
    \/ cond = NoRow /\ card = NoRow
    \/ card # NoRow /\ cond = card.etag

\* Every card written or deleted bumps the revision once; the i-th of a batch
\* gets the revision that its own bump made.
Bumped(id, n) == [books EXCEPT ![id].revision = @ + n]
RevisionOf(id, i) == books[id].revision + i

\* The journal rows of a put and of a delete.
PutRow(id, b, i) ==
    [book |-> id, href |-> b[i].href, etag |-> b[i].etag, deleted |-> FALSE,
     rev |-> RevisionOf(id, i), at |-> clock]
DeleteRow(id, h, now) ==
    [book |-> id, href |-> h, etag |-> cards[id][h].etag, deleted |-> TRUE,
     rev |-> RevisionOf(id, 1), at |-> now]

\* putCardConn for each element of b inside one transaction.  PutCard and
\* PutCardConditional are a batch of one, PutCardsAtomic has no precondition.
\* `now' is read inside the transaction, under the write lock.
PutCards(id, b, cond) ==
    /\ books[id] # NoRow
    /\ books[id].revision + Len(b) <= MaxRev                        \* bound
    /\ cond # Unconditional => Len(b) = 1 /\ Holds(cond, cards[id][b[1].href])
    /\ \A n \in 1 .. Len(b) : UidFree(CardsAfter(id, b, n - 1), b[n])
    /\ cards' = [cards EXCEPT ![id] = CardsAfter(id, b, Len(b))]
    /\ books' = Bumped(id, Len(b))
    /\ changes' = changes \cup {PutRow(id, b, i) : i \in 1 .. Len(b)}
    /\ last' = [last EXCEPT ![id] =
                  [h \in Hrefs |-> IF Writes(b, Len(b), h) = {} THEN last[id][h]
                                   ELSE books[id].revision + Max(Writes(b, Len(b), h))]]
    /\ UNCHANGED <<users, seq, clock>>

\* deleteCard reads `now' before it waits for the write lock, so its journal row
\* may carry an earlier time than rows committed before it.
DeleteCard(id, h, cond) ==
    /\ books[id] # NoRow
    /\ books[id].revision < MaxRev                                  \* bound
    /\ cards[id][h] # NoRow /\ Holds(cond, cards[id][h])
    /\ cards' = [cards EXCEPT ![id][h] = NoRow]
    /\ books' = Bumped(id, 1)
    /\ \E now \in {t \in 0 .. clock : clock - t <= LockWait} :
         changes' = changes \cup {DeleteRow(id, h, now)}
    /\ last' = [last EXCEPT ![id][h] = books[id].revision + 1]
    /\ UNCHANGED <<users, seq, clock>>

-----------------------------------------------------------------------------
(* Pruning the journal *)

PruneCardChangesByAge(cutoff) ==
    /\ changes' = {c \in changes : ~(c.at < cutoff)}
    /\ UNCHANGED <<users, books, cards, seq, clock, last>>

\* The join drops rows of live books only.
PrunedByRevision(c, keep) ==
    books[c.book] # NoRow /\ c.rev <= books[c.book].revision - keep

PruneCardChangesByMaxRevisions(keep) ==
    /\ keep > 0
    /\ changes' = {c \in changes : ~PrunedByRevision(c, keep)}
    /\ UNCHANGED <<users, books, cards, seq, clock, last>>

\* Time passes.
Tick ==
    /\ clock < MaxClock                                             \* bound
    /\ clock' = clock + 1
    /\ UNCHANGED <<users, books, cards, changes, seq, last>>

-----------------------------------------------------------------------------
StoreInit ==
    /\ users = [u \in UserIds |-> NoRow]
    /\ books = [id \in BookIds |-> NoRow]
    /\ cards = [id \in BookIds |-> [h \in Hrefs |-> NoRow]]
    /\ changes = {}
    /\ seq = [users |-> 0, books |-> 0]
    /\ clock = 0
    /\ last = [id \in BookIds |-> [h \in Hrefs |-> 0]]

UserStep ==
    \/ \E n \in Usernames, p \in Hashes : CreateUser(n, p)
    \/ \E u \in UserIds, p \in Hashes : SetUserPasswordHash(u, p)
    \/ \E u \in UserIds : DeleteUser(u)

BookStep ==
    \/ \E u \in 1 .. seq.users, s \in Slugs, n \in Names, fk \in ForeignKeys :
          CreateAddressbook(u, s, n, fk)
    \/ \E n \in Usernames, s \in Slugs, name \in Names : UpdateAddressbookMetadata(n, s, name)
    \/ \E n \in Usernames, s \in Slugs, fk \in ForeignKeys : DeleteAddressbook(n, s, fk)

CardStep ==
    \E id \in BookIds :
        \/ \E in \in PutInput, cond \in {Unconditional, NoRow} \cup ETags : PutCards(id, <<in>>, cond)
        \/ \E n \in 2 .. MaxBatch : \E b \in [1 .. n -> PutInput] : PutCards(id, b, Unconditional)
        \/ \E h \in Hrefs, cond \in {Unconditional} \cup ETags : DeleteCard(id, h, cond)

PruneStep ==
    \/ \E cutoff \in 1 .. clock : PruneCardChangesByAge(cutoff)
    \/ \E keep \in 1 .. MaxRev : PruneCardChangesByMaxRevisions(keep)

StoreNext == UserStep \/ BookStep \/ CardStep \/ PruneStep \/ Tick

StoreSpec == StoreInit /\ [][StoreNext]_storeVars
-----------------------------------------------------------------------------
(* Properties *)

TypeOK ==
    /\ users \in [UserIds -> UserRow \cup {NoRow}]
    /\ books \in [BookIds -> BookRow \cup {NoRow}]
    /\ cards \in [BookIds -> [Hrefs -> Card \cup {NoRow}]]
    /\ changes \subseteq Change
    /\ seq \in [users : 0 .. MaxUsers, books : 0 .. MaxBooks]
    /\ clock \in 0 .. MaxClock
    /\ last \in [BookIds -> [Hrefs -> 0 .. MaxRev]]

LiveChanges == {c \in changes : books[c.book] # NoRow}

\* The journal tells the truth about the cards: a row never runs ahead of its
\* book's revision, no two rows of a book share a revision (the page cut and
\* the continuation token rely on it), and the row of the last change to a card
\* says what the card is now (putCardConn and deleteCard write both in one
\* transaction, a batch one row per element).
JournalAgrees ==
    \A c \in LiveChanges :
        /\ c.rev <= last[c.book][c.href]
        /\ last[c.book][c.href] <= books[c.book].revision
        /\ \A d \in LiveChanges : c.book = d.book /\ c.rev = d.rev => c = d
        /\ c.rev = last[c.book][c.href] =>
              IF c.deleted THEN cards[c.book][c.href] = NoRow
              ELSE /\ cards[c.book][c.href] # NoRow
                   /\ cards[c.book][c.href].etag = c.etag

\* The two facts JournalAgrees needs to be inductive: an id not handed out yet is
\* blank in every table, and no card changed after its book's revision.
UnusedIdsAreBlank ==
    \A id \in BookIds : id > seq.books =>
        /\ books[id] = NoRow
        /\ \A h \in Hrefs : cards[id][h] = NoRow /\ last[id][h] = 0
        /\ \A c \in changes : c.book # id
LastWithinRevision ==
    \A id \in Live : \A h \in Hrefs : last[id][h] <= books[id].revision

JournalInv == TypeOK /\ UnusedIdsAreBlank /\ LastWithinRevision /\ JournalAgrees

\* The journal of c's book has a row for every revision from c's to the head.
WholeFrom(c) ==
    \A r \in c.rev .. books[c.book].revision :
        \E d \in LiveChanges : d.book = c.book /\ d.rev = r

\* Rows carry times in revision order but for the wait that a delete's clock does not
\* see (store.go:794), so an age prune cuts a prefix but for the rows of that long.
TimesInOrder ==
    \A c \in LiveChanges :
        /\ c.at <= clock
        /\ \A d \in LiveChanges : c.book = d.book /\ c.rev < d.rev => c.at <= d.at + LockWait

OrderInv == JournalInv /\ TimesInOrder

\* From a row on the journal has no gap, and gets none while the row is kept: not by
\* writes, batches, deletes or revision prunes, and by an age prune only where the row
\* is no younger than the cutoff by the longest wait for the lock.  The stale-token test
\* of SyncCollection looks at the first row only (sync.go:188) and needs this; where
\* no delete waits (LockWait = 0) it says that the journal never has a gap.
TailsKept ==
    \A c \in LiveChanges' : (c \in LiveChanges => WholeFrom(c)) =>
        \/ WholeFrom(c)'
        \/ \E cutoff \in 1 .. clock : PruneCardChangesByAge(cutoff) /\ c.at < cutoff + LockWait
TailsStayWhole == [][TailsKept]_storeVars

\* The ctag and the sync-token are the revision (CollectionState): no step
\* changes the cards of a book, or their ETags, and leaves its revision alone.
SameRevisionSameCards ==
    \A id \in BookIds :
        /\ books[id] # NoRow /\ books'[id] # NoRow
        /\ books'[id].revision = books[id].revision
        => cards'[id] = cards[id]
CTagTracksCards == [][SameRevisionSameCards]_storeVars

\* A book created in place of a deleted one is empty and has no journal, and no
\* token handed out for the deleted book names it, whatever foreign_keys left
\* behind when the old one went (AUTOINCREMENT, store.go:911).
NewBookIsBlank ==
    \A id \in BookIds : books[id] = NoRow /\ books'[id] # NoRow =>
        /\ \A h \in Hrefs : last[id][h] = 0 /\ cards'[id][h] = NoRow
        /\ \A c \in changes' : c.book # id
FreshBookIsEmpty == [][NewBookIsBlank]_storeVars

\* Deleting a book takes its cards and its journal with it (ON DELETE CASCADE,
\* store.go:931 and 941).
NoOrphans ==
    /\ \A id \in BookIds \ Live : \A h \in Hrefs : cards[id][h] = NoRow
    /\ \A c \in changes : c.book \in Live
=============================================================================
