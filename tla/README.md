# Formal specification of go-contactd

go-contactd is a CardDAV server in one process over one SQLite file, with a
second program, `contactctl`, that administers the same file. This directory
holds TLA+ models of its core, TLC configurations that check them on small
instances, and TLAPS proofs of what holds for instances of every size.

Paths below are relative to `src/`.

## The system

| Component | State | Operations | Talks to |
|---|---|---|---|
| **Store** `internal/db/store.go` | tables `users`, `addressbooks` (with a `revision` per book), `cards`, `card_changes` (the journal), AUTOINCREMENT counters; a pool of SQLite connections with per-connection pragmas | create/delete user, set password hash, authenticate; create/update/delete address book; put (conditional, batch), delete (conditional) card; list cards and changes; prune by age and by revision | SQLite |
| **Sync service** `internal/carddavx/sync.go` | `page`: continuation token -> cursor (the rest of a listing), under a mutex, with an expiry and two caps | `SyncCollection`, `CollectionState`, token formatting and parsing | Store |
| **Back end** `internal/carddav/backend.go` | none | the go-webdav interface: get, query, put, delete of cards and books, preconditions, mapping of errors | Store |
| **HTTP handler** `internal/server/handler.go` | none | dispatch by method and path; PROPFIND, REPORT (multiget, query, sync), MKCOL, PROPPATCH, GET, PUT, DELETE; XML and vCard parsing limits | Back end, Sync service |
| **DAV types** `internal/davxml/types.go` | none | marshalling of answers | - |
| **Daemon** `internal/daemon/daemon.go`, `cmd/contactd` | HTTP server, prune ticker, authentication limiter | start-up (open, check seeds, prune, seed), serve, prune loop, basic authentication, graceful shutdown | all of the above |
| **contactctl** `internal/ctl/ctl.go`, `cmd/contactctl` | files of an import or export | user add/list/delete/passwd, export, import (directory or one file, dry run) | Store |
| **Configuration** `internal/config/config.go` | - | flags, environment, defaults, validation | Daemon |

Every HTTP request runs in its own goroutine, the prune loop in another, and
`contactctl` in another process. They meet in the database (SQLite serialises
transactions; the write paths of cards use BEGIN IMMEDIATE) and in the cursor
cache. A handler usually makes several calls of the store, and nothing holds
the database still between them.

What is hard, and what each part must get right:

* **Store.** A change of a card, its journal row and the book's revision move
  together, one revision per card even inside a batch, because ctag, sync-token
  and journal are all read through the revision. Pruning must cut a prefix.
  Identifiers must never come back, because sync-tokens name them. Cascades
  depend on a pragma that each connection has or has not.
* **Sync service.** A token says "you have everything up to this revision", and
  whatever it wrongly covers is lost for good: the next delta starts after it.
  It is built from two reads that other writers and prunes may separate, in
  pages whose rest waits in a shared cache that expires, evicts and is consumed
  before its answer is known to have arrived.
* **Back end and handler.** If-Match and If-None-Match are tested before the
  transaction and again inside; ETags of answers are read after it; reports list
  first and read bodies later.
* **Daemon.** Seeding and serving survive crashes between any two steps;
  shutdown waits for handlers, but not for ever; the limiter counts what runs.
* **contactctl.** A dry run promises what the import will do; an export replaces
  files atomically one by one.

## Modules

| Module | What it models |
|---|---|
| `Store` | the tables and every transaction on them; one action is one transaction |
| `SyncService` | EXTENDS Store: the cursor cache, each client's request as four steps, what clients keep, the writers and prunes around them |
| `CardHandlers` | EXTENDS Store: GET, PUT and DELETE of a card for several clients, one step per call of the store, while the collection is deleted and made again |
| `Collection` | EXTENDS Store: one collection and what others do to it between two steps of a request |
| `Reports` | EXTENDS Collection: PROPFIND, PROPPATCH, MKCOL, addressbook-query and -multiget, one step per call of the store |
| `StoreTx` | EXTENDS Collection: the card transactions statement by statement, with failing statements, rollback and crashes |
| `Transfer` | EXTENDS StoreTx: `contactctl import`, real and dry, of files that change, beside the daemon |
| `AuthGate` | a request on its way through Basic authentication: the cap on concurrent hashing and the delay after a refusal |
| `Serve` | EXTENDS AuthGate: main, the signal watcher, the prune loop and the requests, from listening to exit |
| `Bootstrap` | EXTENDS Store: seeding at start-up and `contactctl user`, cut by crashes anywhere |
| `Daemon` | EXTENDS Bootstrap and Serve: life after life of the process over one database |
| `MCStore`, `MCSync`, `MCHandlers`, `MCReports`, `MCTransfer`, `MCDaemon` | symmetry sets, views and structured values for TLC; the other values are in the `.cfg` files |
| `StoreProofs` | type correctness, the journal invariant and two action properties of `Store`, proved |
| `JournalGapProofs` | from a kept row on, the journal of a live book gets no gap but from an age prune that reaches rows a waiting delete dated too early, proved |
| `CardHandlerProofs` | the handlers' invariant, that they implement the store, that conditional writes keep their condition, and that every answer is true, proved |
| `ReportsProofs` | types of `Reports`; the token covers the listing and is never behind the ctag; answers are true, MKCOL's included; proved |
| `DaemonProofs` | the semaphore is exact and the store is closed last, proved |
| `SeedProofs` | start-up leaves the seeds in place, all that start-up, `contactctl` and clients do is a transaction of `Store`, and the types of the daemon's lives, proved |
| `TransferProofs` | the statements of `StoreTx`, as `Transfer` runs them, implement `Store`, an imported directory is a snapshot, and dry run and import report the truth, proved |
| `SyncProofs` | types, cache caps and tokens of `SyncService`; no upsert is lost while nothing is pruned; one client's copy is what its token says; proved |

### Store and the code

`users`, `books`, `cards` and `changes` are the tables, keyed by row id (a card
by book and href, which is UNIQUE). `seq` is SQLite's AUTOINCREMENT memory.
`last` is a history variable that no table has: the revision of the last change
ever made to each href. It only serves to state properties, and no guard reads
it. An ETag is the SHA-256 of the canonical card text, so one value stands for
both; times are ticks of `clock`.

* `PutCards` is `putCardConn` run for each element of a batch in one
  transaction: `PutCard` and `PutCardConditional` are batches of one,
  `PutCardsAtomic` is any batch without precondition. It is written in closed
  form: the i-th element gets revision `revision + i`, the last element that
  writes a card decides it, and each element must find its uid free in the
  cards the earlier ones left. A batch that fails anywhere rolls back and is no
  step at all.
* `DeleteCard` may stamp its row with a time up to `LockWait` ticks old: the
  code reads the clock before BEGIN IMMEDIATE waits for the lock, while
  `putCard` reads it under the lock.
* `DeleteAddressbook` and `CreateAddressbook` take the `foreign_keys` setting
  of the connection the pool happens to give them. Open sets the pragma on one
  connection and `withImmediateTx` on those that wrote a card; others have
  SQLite's default, off. `DeleteUser` always cascades because only `contactctl`
  deletes users and it is sequential: its one idle connection is reused.
* The prunes are single DELETE statements. The revision prune joins on
  `addressbooks` and so touches live books only.

### SyncService and the code

`page` is the map from continuation token to cursor, kept as a sequence from
the oldest `ExpiresAt` to the newest (every cursor gets the same two minutes, so
that is the order of insertion). `req[c]` is the request client `c` has in
flight. `SyncCollection` becomes:

1. `ReadBook`: `GetAddressbookByUsernameSlug`; a token of another book is answered
   with `valid-sync-token` and makes the client start over. A collection that is not
   there is a bare `ErrNotFound`, hence a 500: the client keeps token and copy and
   asks again;
2. `CursorHit` / `CursorMiss`: `takeCursorPage` under the mutex;
3. `ListAll` / `ListChanges`: the second read of the database, the staleness
   test and its outcome;
4. `Build`: `buildPagedSyncResult`, which cuts the page, makes the token and
   caches the rest.

`Ordered` is the ORDER BY of both listings: the one sequence of a set of rows that
is sorted by revision and href.

Any other action may run between two of these. An answer that does not arrive
(`arrives = FALSE`) has the same effect on the server, and the client asks again
with the token it had; so it does after a 500. The client is modelled from what the protocol tells it to
do: it applies the page, stores the token, and starts over from an empty copy on
the `valid-sync-token` error. Hrefs are numbers, ordered as SQL orders
the text; a card keeps its uid, which no property here depends on.

### CardHandlers and the code

`call[c]` is the request client `c` has in flight: the step it waits for, the id
of the book that `GetAddressbookByUsernameSlug` returned, the card that `GetCard`
returned (`seen`), and afterwards the answer. A header is an ETag, `*`, or
absent; text and ETag are one value, as in `Store`.

* GET is `Find`, `ReadCard`.
* PUT is `Find`, `ReadCard` with `checkConditional` (`Refused`), `WriteCard`,
  which is the transaction with what `putCardConditionsFromRequest` passes on
  (`Condition`), and `Reread`, whose ETag is answered. If-Match, even with `*`,
  becomes the ETag that was read; an ETag in If-None-Match is not passed on.
* DELETE with If-Match is `Find`, `ReadCard`, `FindAgain`, `EraseCard`: the
  handler's GET, then `deleteAddressObject`, which looks the book up again.
  Without If-Match it is `Find`, `EraseCard`.

A transaction that fails changes nothing and is a step all the same, with the
answer it gives: 412, 409 for a uid that another card has, 404, or 500 when the
book is gone but an orphan of it is still there. `window[c]` is a history
variable that no guard reads: what a GET of the request's card would have found
since the request began. Answers are judged by it, and it is empty between
requests.

### Reports and the code

`ask[c]` is the request client `c` has in flight, and later its answer. `todo`
is what is left of it: properties that need `CollectionState`, the listing of
cards, and hrefs of cards to read, in the order in which the code takes them.

* PROPFIND looks the collection up (`Begin`), reads the state once per
  `sync-token` and for a `getctag` that has none yet (`ReadState`, `Reuses`),
  and with Depth 1 looks the collection up again and lists it (`FindAnew`,
  `ListRows`). The same for the collections of a principal (`home`), without
  cards.
* A query lists and then reads every card again; a multiget reads each href
  once. A card that is gone is a 404 of its own in a multiget and the end of
  a query.
* MKCOL is `EnsureAddressbook` (a SELECT and an INSERT) and then a second call
  that describes the collection, whatever has the path by then. PROPPATCH is one
  UPDATE of the last value named for each property.
* Any of these calls may fail for a reason of its own (`Fail`): an SQL error, the
  lock not free in time, a cancelled context. What an earlier call of the request
  committed stays, so an MKCOL whose second call fails answers an error and leaves
  the collection without the description that was asked for.

`been` is a history variable: what each card has been since the request began.

### StoreTx, Transfer and the code

`tx` is the transaction that has the write lock. The rows change in place, and
everybody else reads `tx.old`, as SQLite's other connections read the last
commit (`Seen`). `tx.i` is the element of the batch whose three statements are
next. `Rollback` is the deferred ROLLBACK, a failing statement and a
crash with recovery: each of them ends the transaction and brings `tx.old` back.
A connection of the transaction has `foreign_keys` on (`applyConnPragmas`).

`Implements == Committed!StoreSpec` is the refinement: with the tables as others
see them, every behaviour of `Transfer`, whose transactions take three statements
for each card, is a behaviour of `Store`, where a batch is one step written in
closed form.

`Transfer` runs `contactctl import`. A file is the card in it and a stamp
(identity, size, modification time); somebody may write, replace, touch or remove
a file at any moment, with or without a change of its stamp. A directory is
listed, each file looked at (`Stat`), read if its stamp is the one seen
(`ReadFile`), and after the last all are read again (`VerifyFile`). The one-file
form is a batch whose cards take their hrefs from their uids. A dry run looks up
each card by itself (`Classify`, and `ClassifyUid` when its uid is new to it);
the import is one transaction of `StoreTx`. The daemon's own writes go on
meanwhile, under the same lock.

### AuthGate, Serve, Bootstrap, Daemon and the code

`stage[c]` is where the request on connection `c` is, and `slots` is `len(sem)`.
The cap is the inner wrapper and the delay the outer one, so a refused request
waits without a slot. A client may hang up at any moment (`gone`); a request
that waits for a slot may then give up, one that is being hashed goes on.

`Serve` has three goroutines. *main* is `ListenAndServe`, the join with the
watcher, and the deferred calls in their order: stop the prune loop and wait for
it, then close the store. The *watcher* has the two nested selects, in which a
signal and the end of serving race; `http.Server.Shutdown` closes the listener
at once and returns when no connection is active or its five seconds are over
(`Overdue`). The *prune loop* takes a tick or ends when both are ready.

`Bootstrap` is `startupStore` and `seedUser`, one step per statement of the
store, next to `contactctl user add` (two steps), `user delete`, `user passwd`
and a client that deletes or makes its default collection. `Cut` ends the
process between any two of them. `touched` and `blamed` are history variables:
the users whom others changed during this start, and those whom anyone, or an
interrupted start, ever kept from being as seeded.

`Daemon` is both, start after start. A failing start exits with 2.

## Runs

| Run | Expect | Question |
|---|---|---|
| `store_tables` | pass | does the journal tell the truth, does it stay whole from every kept row on, also when deletes wait for the lock, does the ctag move with every change, and is a book created where one was deleted really new, with or without foreign keys? |
| `store_orphans` | violation | does deleting a book take its cards and journal with it? |
| `sync_prunes` | pass | one client, both prunes, lost answers, expiry: is what the token covers in the copy, and do tokens ever go back? |
| `sync_two_upserts` | pass | two clients and full caches, no prune: is a create or update ever lost? do the caps hold? |
| `sync_live` | pass | does a client that keeps polling catch up, also when the collection is deleted and made again, and do tokens of the old one stay out of the new one? |
| `sync_two_stale_cursor` | violation | two clients: is a deletion ever lost? |
| `sync_late_clock` | violation | the age prune with a delete that waited for the lock: is a deletion ever lost? |
| `handlers_conditions` | pass | does a conditional write replace only what it names, is 409 answered only for a uid that is taken, and is every answer true? |
| `handlers_put_etag` | violation | is the ETag of an update's answer that of the text it stored? |
| `reports` | pass | is a listing, query or multiget made of what was there, does its token cover its listing, is the ctag never ahead of the token, and is the answer to an MKCOL true, whichever of its calls fails or meets others? |
| `daemon` | pass | are seeds in place after any history of crashes and commands, is every slot given back and every waiting request served, is the store closed last, and does the process stop when it is told? |
| `transfer` | pass | do transactions made of statements implement the store, is an imported directory a snapshot, and do dry run and import report the truth? |

### Bounds, and why they are enough

* `store_tables`: two hrefs, uids and ETags, batches of up to two, two book ids,
  both `foreign_keys` values, three revisions, two ticks and a `LockWait` of one. Two of each let a batch
  write one card twice, swap uids, or fail on its second element; three
  revisions are a put, a delete and a put around a prune; two ids are enough to
  delete a book, leave orphans and make it again under the same name; the second
  book gains one revision less (`ShortLives`). Two ticks and a wait of one let a
  delete be dated before its predecessors, and an age prune cut there or elsewhere. One
  account: accounts meet the other tables through the books they own. The
  properties of this run are also proved, for all bounds.
* The sync runs have one collection at a time, two or three hrefs and two to four
  revisions: `sync_prunes` has two pages and a write or delete after the cursor
  was made, `sync_live` two collections of two revisions each, of which a prune
  keeps one. `Burst` bounds the revisions the book gains between the two reads of
  one request and `Span` the ticks; `sync_prunes` keeps `Burst <= Keep`, because
  a burst beyond what the prune keeps is not noticed (see below).
  `CHANGE_RETENTION_MAX_REVISIONS` is normally far larger than a burst, which is
  why the passing run is worth having.
* `sync_two_upserts` has caps of two cursors and one item, so that eviction by
  item count and the refusal of an oversize cursor both happen.
* The handler runs have two clients and two cards that want one uid. Two ids let
  the collection be another one half way through a request, and three revisions
  are two finished writes and one in flight, which is what it takes to restore
  a replaced text. A request carries at most one of the two headers, whose values
  are `Headers`, and `Room` lets a write begin only while the revisions allow
  all those in flight. `View` leaves out the answer to a finished request and the
  journal, which no step of a request for a card reads; that the journal is true is
  checked by `store_tables` and proved of the handlers too (`HandlersRunTheStore`).
* `reports` has one reader: readers do not meet except through MKCOL and
  PROPPATCH, whose writes are those of `Others` too. Three ids and three revisions
  per collection let it change before, between and after the two reads of a
  request, and be deleted and made again twice. Queries, multigets and PROPPATCHes
  have up to two elements, so repetition and order count. `View` leaves out the
  journal, finished answers, and the remains of collections no request is in.
* `transfer` has two files, hrefs and uids, every card of them for the daemon to
  write, batches of two and three revisions: one write of the daemon and an
  import of two, which is what it takes to disturb a batch between its statements,
  to swap uids, and to write one card twice. Each file changes at most once while
  a command runs. Books come and go, so the import may find its book gone.
* `daemon` has three seeds for two names (a repeated name is accepted by the
  configuration, and the later password wins only under `--force-seed`), two
  connections for one slot, and as many lives as there are. Two bounds separate
  what shares no state: accounts change only while the server is calm (`Calm`),
  and a life in which somebody is to blame for something serves no requests
  (`Undisturbed`). Limit 1 and larger limits, and all numbers of connections,
  are proved.
* A page size of 0 (no paging) is what the service's own tests use; the handler
  asks for 1 to 500.

### Fairness

`sync_live` uses `FairSpec`: weak fairness of a client's poll and of the steps
of the goroutine that serves it (Go schedules every runnable goroutine, and a
client polls on a timer), strong fairness of an answer's arrival (a network that
loses some answers delivers one in the end) and of asking for a continuation
before its cursor's two minutes are over. Resets by the user are left out of
that run. Nothing is assumed of writers, prunes or expiry; the revision bound
makes the world come to rest, and the property says the client then has all of
it. Symmetry is not used in that run.

`daemon` uses `FairSpec` with `ServeFairness`: the goroutines go on (weak
fairness of main's join and close, of the watcher, of a prune statement, and of
the return of `ListenAndServe` once Shutdown has begun), hashing a password ends,
a free slot goes in the end to a sender that keeps waiting (Go's channels queue
senders, so strong fairness of `Enter` is what they give), and the prune loop's
`select` does not choose the tick for ever (strong fairness of `LoopEnds`).
Handlers are not assumed to finish: `Stops` holds because Shutdown gives up. A
delay, a signal, a failing listener and every step of clients, `contactctl` and
start-up are without fairness.

## What the checks found

* **A shared cursor (`sync_two_stale_cursor`).** A cursor is keyed by collection
  and revision, not by client. Client A begins an initial sync and leaves a
  cursor at revision r; a card is deleted at a later revision; client B, whose
  token is r, asks for a delta with a page limit and is given the rest of A's
  listing and its head. If the head A read covers the deletion that B has not
  seen, B keeps the card for ever.
* **An early clock (`sync_late_clock`).** A delete that waited for the write lock
  has a journal row older than its predecessors'; the age prune removes it from
  the end, where the staleness test cannot see it. `putCard` reads the clock
  under the lock. How far the damage goes is `TailsStayWhole`: a gap opens only by
  an age prune, and only behind rows whose time is less than `LockWait` past its
  cutoff; no write, batch, delete or revision prune opens one.
* **Another writer's ETag (`handlers_put_etag`).** `putAddressObject` reads the
  card again after its transaction instead of using the ETag in `PutCardResult`.
  A PUT that commits in between makes the answer carry an ETag of a text the
  client has never seen, and its next If-Match overwrites it. The preconditions
  themselves hold: `WritesHonourConditions` is checked and proved.
* **Cascades that depend on the connection (`store_orphans`).** The cards and the
  journal of a deleted book may stay in the file. `FreshBookIsEmpty` is proved
  even so: AUTOINCREMENT keeps the rows from ever coming back.

Four more limits of the sync-token were seen, two while modelling and two while
looking for the hypotheses of `OneClientInSync`. They have no run of their own, and
the passing runs stay clear of them by their bounds:

* Once the journal was pruned, an initial sync lists cards at revision 0, so its
  continuation token equals the token of the empty collection. A client that
  synced while it was empty is given another client's second page only
  (`sync_two_upserts` has no prune).
* For the same reason the continuation token of such a page does not advance:
  after the first page and after the second it is revision 0, and
  `takeCursorPage` puts the rest of the rest under the token it has just been asked
  with. If the answer with the second page is lost, the client asks again with that
  token and gets the third page. It takes one client, three cards, pages of one
  and a prune; `sync_prunes` has two cards. `NoCursorAtZero` says that no cursor is
  at revision 0.
* A cursor with more items than the whole cache may hold is refused
  (`putCursorLocked` returns early), which leaves an older cursor under the same
  token if there is one. A client that asks with that token gets the rest of the
  older listing, and keeps a card deleted since. It takes one client, four cards
  and a cap of one item; the code's cap is 200000. `ListingsFit` says that no
  listing is longer than the cap.
* The staleness test compares the token with a head read before the journal. With
  more writes between the two reads than the revision prune keeps, a token equal
  to that head is accepted although its changes are gone (`Burst <= Keep`).

What the checks of this part confirmed rather than refuted: between any two calls
a PROPFIND's token stays behind its listing, because the state is read first, and
would not if the order were the other one (a mutant of `TokenCoversListing`);
EnsureAddressbook's lost race is answered like a collection that was there. An MKCOL
whose second call fails leaves a collection without the properties asked for, and the
same MKCOL sent again is answered 405 because the collection is there; one whose
collection was deleted and made again in between describes the other's. A dry
run promises what the import will do only for cards that have nothing to do with
one another (`Separate`): two cards of one batch with the same uid, or one that
takes over the uid another gives up, are classified without each other.
An operator who adds a user to an empty database makes every later start skip
the seeds, as does a crash after the first of them; `--force-seed` repairs both,
and the `SeedsInPlace` theorem says it repairs everything but what others change
at the same time.

## Proofs

| Theorem | States | For |
|---|---|---|
| `TypeCorrect` | `[]TypeOK` | all constants |
| `JournalCorrect` | `[]JournalAgrees` | all constants |
| `CTagCorrect` | `CTagTracksCards` | all constants |
| `FreshBooks` | `FreshBookIsEmpty` | all constants |
| `Tails` | `TailsStayWhole` | all constants, `LockWait` included |
| `HandlerTypeCorrect` | `[]HandlerTypeOK` | all constants |
| `HandlersRunTheStore` | `[][StoreNext]_storeVars` and `[]JournalAgrees` of `HandlerSpec` | all constants |
| `ConditionsHonoured` | `WritesHonourConditions` | all constants |
| `AnswersTrue` | `AnswersAreTrue` of `HandlerSpec` | all constants |
| `ReportsTypeCorrect` | `[]ReportsTypeOK` of `ReportsSpec` | all constants |
| `CTagBehindToken` | `CTagNotAheadOfToken` of `ReportsSpec` | all constants |
| `TokenCovers` | `TokenCoversListing` of `ReportsSpec` | all constants |
| `ReportsTrue` | `ReportsAreTrue` of `ReportsSpec` | all constants |
| `MkcolAnswers` | `MkcolAnswerIsTrue` of `ReportsSpec` | all constants |
| `GateIsSound` | `[]SlotsAreHeld` of `DaemonSpec` | all constants |
| `StoreClosesLast` | `[]ClosesLast` of `DaemonSpec` | all constants |
| `Seeded` | `[]SeedsInPlace` of `DaemonSpec` | all constants |
| `DaemonRunsTheStore` | `StoreSpec` of `DaemonSpec` | all constants |
| `DaemonTypeCorrect` | `[]DaemonTypeOK` of `DaemonSpec` | all constants |
| `TransactionsImplementStore` | `Implements` of `TransferSpec` | all constants |
| `TransferTypeCorrect` | `[]TransferTypeOK` of `TransferSpec` | all constants |
| `SnapshotOfFiles` | `[]BatchIsASnapshot` of `TransferSpec` | all constants |
| `ResultsTrue` | `ResultsAreTrue` of `TransferSpec` | all constants |
| `SyncTypeCorrect` | `[]SyncTypeOK` of `SyncSpec` | all constants |
| `CacheBounded` | `[]CacheWithinCaps` of `SyncSpec` | all constants |
| `TokensMoveForward` | `TokenMovesForward` of `SyncSpec` | all constants |
| `UpsertsKept` | `[]NoLostUpsert` of `SyncSpec` | any number of clients, both prunes off |
| `OneClientInSync` | `[](NoCursorAtZero /\ ListingsFit) => []SyncSound` | one client; no clock ahead of the lock and a request shorter than the age kept, or no age prune; a burst within what the revision prune keeps, or no such prune |
| `OneClientUnpruned` | `[]ListingsFit => []SyncSound` | one client, both prunes off |

They assume only the named assumptions of the modules: the bounds are naturals,
`ForeignKeys` is a non-empty set of Booleans, `NoRow`, `Unconditional` and `Wildcard`
are not values of the data, hrefs are not the names of properties, the handlers start with one user and one book, the
connections are a finite set, the seeds are a sequence of names and hashes, there
are at most `MaxBatch` hrefs where directories are imported, and the constants of the
sync service let it begin with a user and a book, over a connection that has
`foreign_keys` on. What a theorem needs beyond that is in the column "For" and in its
`ASSUME`.

The five theorems of the daemon are about `DaemonSpec`, which has no fairness, and
those of the sync service about `SyncSpec`, likewise. `TransferSpec`, `ReportsSpec`
and `HandlerSpec` have none to begin with.

`JournalAgrees` is not inductive. A delete of a book without cascade leaves rows
of a dead id behind, so one has to know that an id not handed out yet has no
rows at all (`UnusedIdsAreBlank`), and that no card changed after its book's
revision (`LastWithinRevision`), or the next revision might be taken already.
Their conjunction with `TypeOK` is `JournalInv`; `JournalStep` proves that every
step keeps it, one step per action. A batch is the hard case: `LastWrite` gives
the element that decides a card and `PutCardsJournal` shows that its row is the
one `last` names. `CTagCorrect` and `FreshBooks` are step lemmas under that
invariant.

`Tails` needs more: an age prune cuts a prefix only as far as times are in revision
order, and the early clock of `deleteCard` puts a row up to `LockWait` before its
predecessors. `TimesInOrder` says that it is never more; with `JournalInv` it is
inductive (`OrderInv`), and `PruneTails` concludes that a row kept by a prune keeps
every later row, unless the cutoff is less than `LockWait` before its own time. Where
no delete waits or no prune goes by age, no gap is ever opened (`NoNewGap`), which is
what the proof about one client below uses; `sync_late_clock` shows what a client
makes of a gap.

The handlers' steps are steps of the store (`HandlerStores`), which carries
`JournalInv` over to them. `WritesHonourConditions` relates a transaction to a
header tested steps earlier, so the invariant has to remember what passed the
test: `KeepsWhatMatched` says that a request with If-Match keeps a card the
header matches until it writes. The transaction compares with that card's ETag,
hence with the header.

`AnswersAreTrue` judges an answer by `window`, what a GET would have found at each
moment since the request began, but a request reads by the id it was given, and the
collection may be deleted and made again under it, with its old rows left behind.
`TruthInv` closes the gap. There is one collection at a time (`OneCollection`), and
what a request could read under its id, and what it has read, is in the window
(`Informed`): a step that changes a card under a live id shows it in the resource, a
deletion shows that nothing is there, and rows of a dead id change no more. A PUT
with If-Match `*` that is refused needs two different cards in its window, which
`TwoCards` counts. TLC found `TruthInv` true before it was proved.

`ReportsInv` says of every request what is left of it (`Shaped`: the properties and
hrefs still to be read give the answer all it needs) and how what it has read lies to
the tables (`Known`). A token or ctag is never ahead of its collection, ids only rise
and the live one is the newest, so a state of a later read is of a later collection or
of a later revision of the same. From this `CTagBehindToken` and `TokenCovers` follow,
the latter with `JournalAgrees`: a card listed after the state was read is as its last
change left it, and changes it has not seen lie beyond the token. `MkcolAnswers` is a
step of the same invariant, which remembers the book that an MKCOL made: it answers
201 only when the collection has what was asked for, 404 only when there is none, and
a call that fails leaves the books as they are. For `ReportsTrue` the history `been` takes the place of
`window`: what a request has `Gathered` so far, and what it would read next (`Looked`),
are among what each card has been. An href that is asked for twice is read once, and
`DistinctHrefs` proves that the list of those to be read is without repetition.

`SlotsAreHeld` and `ClosesLast` need what each goroutine knows of the others
(`ServeInv`): nobody watches before there is a listener (`Begun`), Shutdown has an
outcome when the watcher is done unless the listener failed first (`Watched`), a
clean shutdown has left no request and none comes after it (`Drained`), and main
has joined the watcher and the prune loop before it closes the store (`Joined`).
That `slots` equals the number of passwords being hashed is carried through
every move of a request by two lemmas on cardinality.

`SeedsInPlace` is about the end of a start and says nothing of its middle or of
earlier lives. `SeedInv` adds the user in hand (`SeedInHand`: it has the seed's
name, and its password unless somebody touched it), what an unforced start may
find (`OnlySeeds`: it began on an empty table, so every user is a seed or somebody
else's doing), the seeds it got to (`SeededSoFar`), and, between starts, those that
an earlier one left in place (`SeededBefore`), without which an unforced start
that skips the seeds would prove nothing. A name that is repeated makes `Placed`
say "one of the seeds of this name", since the code lets the first win or the
last according to `--force-seed`. TLC found every conjunct of both true on the bounded
instance.

`DaemonRunsTheStore` carries everything proved of `Store` over to start-up, `contactctl`
and clients: each of their steps is a transaction of `Store` or touches no table. `Store`
gives an INSERT the setting its connection happens to have, and start-up always has
`foreign_keys` on; an INSERT that is allowed with it is allowed without, so the step is
one of `Store`'s for any non-empty set of settings. `DaemonTypeCorrect` adds that the
names in the two history variables are names of users (`NamesOK`).

`Implements` is a refinement: `Store` writes a batch in one step and in closed form
(`CardsAfter`, `Writes`), the code in a loop of three statements per element. `TxInv`
says where the loop is: the cards are those of the closed form after `CardsDone`
elements, the revision has gone up by `BumpsDone`, the journal has the rows of the
first `RowsDone`, and each element so far had a uid that was free when its turn
came. `AfterNext` and `LastAfterNext` prove that one more element of the closed
form overwrites one card; with them `PutCardRow`, `DeleteCardRow`, `Bump` and
`Journal` each keep `TxInv` and change nothing that others see, `Commit` is
`PutCards` or `DeleteCard`, and `Rollback` gives back what was. `CmdOK` adds that an
import's batch is no longer than its directory. So everything proved of `Store`
holds of what is committed here. `SnapshotOfFiles` says that when a directory is
imported the files were as they were read at the moment the first pass ended. If one
was not, then `SnapshotInv` knows of such a file that the second pass has still to look
at, and that it stays unlike what was read. This rests on the
bound that a file changes once at most while the command runs. (Twice, with the stamp
put back, and no program could tell.)

`ResultsTrue` relates what the command reports to what the closed form says of the whole
batch. Of an import `ImportTold` says that its transaction is that of the command's
batch and has counted the elements that made a card when their turn came; at `Commit`
`TxInv` adds that every uid was free. Of a dry run `DryAt` says that, as long as nobody
has committed since it began to look, the elements before the next would each be free of
conflicts with the cards as they are, and that those that would make a card are counted.
`Classify` does not look for the uid of a card that keeps its own, which is right because
uids differ inside a book (`UniqueUids`, which every statement keeps, for those outside
the transaction too). `ApartFinds` is why the property speaks of `Separate` batches: only
then does an element find the cards as they were before the batch.

`SyncInv` is what holds of the sync service whatever is pruned and however many
clients there are: the cache is a map within its caps, the items of a cursor or of an
answer rise from the token they continue, and a request is about the book of its
client's token. Types, caps and the monotony of tokens follow. That `evictCursorsToCap`
leaves a cache that fits is a lemma about the least suffix that does (`EvictedFits`),
and that counting items is monotone under taking cursors away one about an injection
of places (`PartFits`).

`UpsertsKept` needs to know of every listing in flight or in the cache what it is
about to tell. `Covers` says it: of each card whose last change lies between the token
and the head, or the revision of one of the items, there is an item, and it is the
card's present state. So it does not matter which client's listing a client is given
the rest of, only that a listing is never older than the tokens it is found under.
`Recorded` is where the absence of prunes comes in: the journal has the last change of
every card. Deletions are another matter, because an initial sync's listing has none,
which is how `sync_two_stale_cursor` loses one.

For one client nothing is lost, deletions included, and prunes may run. `Serves` is
`Covers` with deletions, relative to the copy the listing will be applied to: for every
card it reaches, the last item about it is true, or there is none and the copy is
right already. Three things have to be carried along for it. The journal that is left
has no gaps (`NoHoles`), so that the staleness test, which only looks at the first row,
sees what a prune took. What was changed since the request read the book is still in
the journal (`Window`); the test cannot see it for a token equal to the head, and it
holds because a request outlasts neither the age nor the number of revisions the prunes
keep. And the cursor under the client's token, if there is one, serves this client
(`Meets`): a cursor left by an earlier listing that the client abandoned must not be
found under a token the client comes by in another way. That is true because
cursors of one book lie before every head read after them, so each page ends either at
a cursor's own key, which replaces it, or beyond all of them; and it fails exactly
where `NoCursorAtZero` or `ListingsFit` does. With a second client there is a second
sequence of heads, and it fails. Without prunes no card is listed at revision 0, so
`OneClientUnpruned` proves `NoCursorAtZero` instead of assuming it. TLC found the whole
of `SoundInv` true on three instances, with and without prunes and with a full
cache, before it was proved.

Only model-checked is liveness (`EventuallyInSync`, `Stops`, `GateOpens`), which is out
of the proof system's reach, as ENABLED and induction over data are. `SyncSound` for
several clients is false; for one it is proved under the hypotheses in the table, and
what the hypotheses leave out is described above.

## Not modelled, and the plan

Abstracted from the modules that exist: `created_at`, `updated_at` and
`mod_time`, colour (it behaves as the description does), SQL errors and busy
time-outs outside `StoreTx` and `Reports` (an operation that fails changes nothing),
the text of tokens. The start-up prune runs before anybody reads and is one more prune of
`Store`. `ROLLBACK` is taken to happen: the code issues it with the request's
context and drops its error, and what a cancelled context does to it is the
driver's business, outside `src/`.

Not modelled: the parsers of XML, vCards, paths, headers and flags, which keep no
state and are enumerated by the tests; configuration, a pure function; the
export, which writes files that nothing here reads back; `user list`, PROPFIND of
the root and of a card, OPTIONS, health and redirects, which read one
thing and change nothing; logging, markup, layout and packaging.

Next, in this order:

1. An abstract statement of what a sync-token promises, implemented by
   `SyncService` for one client.
2. Pure parts: token parsing and the precedence of the configuration, against
   reference definitions.
