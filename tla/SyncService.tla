---------------------------- MODULE SyncService ----------------------------
(***************************************************************************)
(* REPORT sync-collection (src/internal/carddavx/sync.go) over the store,  *)
(* and the clients that keep a copy of one collection with it.             *)
(*                                                                         *)
(* SyncCollection makes two separate reads of the database (the book, then *)
(* the cards or the journal) and uses the cursor cache `page' under its    *)
(* mutex in between and after, so a request is four steps:                 *)
(*     ReadBook -> TakeCursor -> List -> Build                             *)
(* (an initial sync skips TakeCursor).  Writers, pruning and other clients *)
(* run between any two of them.                                            *)
(***************************************************************************)
EXTENDS Store, SequencesExt

CONSTANTS
    Clients,
    Username, Slug,       \* the collection they sync
    Limits,               \* page sizes asked for (0: none); the handler asks for 1 .. 500
    MaxEntries, MaxItems, \* syncCursorCacheMaxEntries, syncCursorCacheMaxTotalItems
    Keep,                 \* CHANGE_RETENTION_MAX_REVISIONS (0: no such prune)
    Retention,            \* CHANGE_RETENTION_DAYS, in ticks (0: no such prune)
    Burst,                \* bound: revisions a book may gain during one request
    Span                  \* bound: ticks one request may take

ASSUME HrefsAssumption == Hrefs \subseteq Nat /\ Hrefs \subseteq Uids \* ordered as text is
ASSUME SyncAssumption ==
    /\ Username \in Usernames /\ Slug \in Slugs /\ Limits \subseteq Nat
    /\ {MaxEntries, MaxItems, Keep, Retention, Burst, Span} \subseteq Nat
    /\ Hashes # {} /\ Names # {} /\ MaxUsers >= 1 /\ MaxBooks >= 1 \* SyncInit's user and book
    /\ TRUE \in ForeignKeys

VARIABLES
    page,   \* the cursor cache, oldest ExpiresAt first
    token,  \* [Clients -> sync-token the client holds, or NoRow]
    copy,   \* [Clients -> [Hrefs -> ETag the client has, or NoRow]]
    req     \* [Clients -> the request in flight]

syncVars == <<page, token, copy, req>>
vars == <<storeVars, syncVars>>

Token   == [id : BookIds, rev : 0 .. MaxRev]
Item    == [rev : 0 .. MaxRev, href : Hrefs, etag : ETags, deleted : BOOLEAN]
Idle    == [pc |-> "idle", id |-> 0, head |-> 0, limit |-> 0, started |-> 0, items |-> <<>>]
Nothing == [h \in Hrefs |-> NoRow]

ASSUME TokenAssumption == NoRow \notin Token

-----------------------------------------------------------------------------
(* The two listings *)

ByRevision(x, y) == x.rev < y.rev \/ (x.rev = y.rev /\ x.href < y.href)

\* COALESCE(MAX(cc.revision), 0): a card whose journal rows were pruned has 0.
RetainedRev(id, h) == Max({0} \cup {c.rev : c \in {d \in changes : d.book = id /\ d.href = h}})

\* ORDER BY revision, href.
Ordered(rows) ==
    CHOOSE list \in SetToSeqs(rows) : \A i, j \in DOMAIN list : i < j => ByRevision(list[i], list[j])

StateRow(id, h) == [rev |-> RetainedRev(id, h), href |-> h, etag |-> cards[id][h].etag, deleted |-> FALSE]
ListCurrentCardSyncStates(id) ==
    Ordered({StateRow(id, h) : h \in {g \in Hrefs : cards[id][g] # NoRow}})

ChangeRow(c) == [rev |-> c.rev, href |-> c.href, etag |-> c.etag, deleted |-> c.deleted]
ListCardChangesSince(id, after) ==
    Ordered({ChangeRow(c) : c \in {d \in changes : d.book = id /\ d.rev > after}})

\* Mutations, each a plausible bug.
StaleTokenFirstRowUnchecked(t, head, list) == t.rev < head /\ list = <<>>
StaleTokenEmptyAccepted(t, head, list) ==
    t.rev < head /\ list # <<>> /\ Head(list).rev > t.rev + 1
StaleTokenAtHead(t, head, list) ==
    t.rev <= head /\ (list = <<>> \/ Head(list).rev > t.rev + 1)

\* sync.go:184: the token is behind the head and the journal no longer joins on.
StaleToken(t, head, list) ==
    t.rev < head /\ (list = <<>> \/ Head(list).rev > t.rev + 1)

-----------------------------------------------------------------------------
(* Pages and cursors *)

Truncated(items, limit) == limit > 0 /\ Len(items) > limit
Shown(items, limit) == IF Truncated(items, limit) THEN SubSeq(items, 1, limit) ELSE items
Remaining(items, limit) == SubSeq(items, limit + 1, Len(items))

\* Mutations: the head even for a page that stops short of it, or that is past
\* it, and the revision after the one reached.
PageTokenHead(head, items, limit) == head
PageTokenNeverPastHead(head, items, limit) ==
    IF Truncated(items, limit) THEN items[limit].rev ELSE head
PageTokenNext(head, items, limit) == head + 1

\* syncPageTokenRevision
PageTokenRevision(head, items, limit) ==
    LET shown == Shown(items, limit)
    IN  IF shown = <<>> THEN head
        ELSE IF Truncated(items, limit) THEN Last(shown).rev
        ELSE Max({head, Last(shown).rev})

\* collapseSyncPageItems: of the items of a page the last one per href is sent.
Collapsed(items) ==
    {items[i] : i \in {j \in DOMAIN items :
        \A k \in DOMAIN items : k > j => items[k].href # items[j].href}}

Key(cursor) == [id |-> cursor.id, rev |-> cursor.rev]
CursorsAt(pg, t) == {i \in DOMAIN pg : Key(pg[i]) = t}
\* The cache is a map: there is one cursor at most under a token.
Without(pg, t) ==
    IF CursorsAt(pg, t) = {} THEN pg ELSE RemoveAt(pg, CHOOSE i \in CursorsAt(pg, t) : TRUE)

ItemCount(pg) == Cardinality(UNION {{i} \X DOMAIN pg[i].items : i \in DOMAIN pg})
OverCap(pg) ==
    \/ MaxEntries > 0 /\ Len(pg) > MaxEntries
    \/ MaxItems > 0 /\ ItemCount(pg) > MaxItems

\* evictCursorsToCapLocked: drop the oldest until the cache fits.
Evicted(pg) ==
    SubSeq(pg, Min({i \in 1 .. Len(pg) + 1 : ~OverCap(SubSeq(pg, i, Len(pg)))}), Len(pg))

\* Mutation: room is made before the cursor goes in.
PutCursorAfterEviction(pg, cursor) ==
    IF MaxItems > 0 /\ Len(cursor.items) > MaxItems THEN pg
    ELSE Append(Evicted(Without(pg, Key(cursor))), cursor)

\* putCursorLocked: one cursor larger than the whole cache is refused, and then
\* whatever the cache held under that token stays.
PutCursor(pg, cursor) ==
    IF MaxItems > 0 /\ Len(cursor.items) > MaxItems THEN pg
    ELSE Evicted(Append(Without(pg, Key(cursor)), cursor))

\* The page cut from items, and the cache with the rest of them in it.
CacheAfter(pg, id, head, items, limit) ==
    IF Truncated(items, limit)
    THEN PutCursor(pg, [id |-> id, rev |-> PageTokenRevision(head, items, limit),
                        head |-> head, items |-> Remaining(items, limit)])
    ELSE pg

-----------------------------------------------------------------------------
(* What the client does with an answer *)

Apply(old, items) ==
    [h \in Hrefs |->
        IF \E it \in items : it.href = h
        THEN LET it == CHOOSE i \in items : i.href = h
             IN  IF it.deleted THEN NoRow ELSE it.etag
        ELSE old[h]]

\* The answer arrives, or the connection breaks and the client asks again with
\* the token it had.
Respond(c, id, head, items, limit, arrives) ==
    /\ req' = [req EXCEPT ![c] = Idle]
    /\ IF arrives
       THEN /\ token' = [token EXCEPT ![c] =
                    [id |-> id, rev |-> PageTokenRevision(head, items, limit)]]
            /\ copy' = [copy EXCEPT ![c] = Apply(@, Collapsed(Shown(items, limit)))]
       ELSE UNCHANGED <<token, copy>>

\* The valid-sync-token error (a token of another book, ahead of the head, or
\* stale), or a reset: the client starts again from nothing.
StartOver(c) ==
    /\ req' = [req EXCEPT ![c] = Idle]
    /\ token' = [token EXCEPT ![c] = NoRow]
    /\ copy' = [copy EXCEPT ![c] = Nothing]

\* A client that is reset (a new device, an account added again).
Restart(c) ==
    /\ req[c].pc = "idle" /\ token[c] # NoRow
    /\ StartOver(c)
    /\ UNCHANGED <<storeVars, page>>

-----------------------------------------------------------------------------
(* One request *)

WrongBookAccepted(c, id) == FALSE \* mutation
WrongBook(c, id) == token[c] # NoRow /\ token[c].id # id

\* No such collection is the store's bare ErrNotFound, answered with a 500: the
\* client keeps what it has and asks again.
ReadBook(c, limit) ==
    /\ req[c].pc = "idle"
    /\ IF AddressbookOf(Username, Slug) = {} THEN UNCHANGED <<req, token, copy>>
       ELSE \E id \in AddressbookOf(Username, Slug) :
              IF WrongBook(c, id) THEN StartOver(c)
              ELSE /\ req' = [req EXCEPT ![c] =
                         [pc |-> IF token[c] = NoRow \/ limit = 0 THEN "list" ELSE "cursor",
                          id |-> id, head |-> books[id].revision, limit |-> limit,
                          started |-> clock, items |-> <<>>]]
                   /\ UNCHANGED <<token, copy>>
    /\ UNCHANGED <<storeVars, page>>

\* takeCursorPage: the cursor is consumed; what is left of it goes back under
\* the continuation token.
CursorHit(c, arrives) ==
    /\ req[c].pc = "cursor"
    /\ \E i \in CursorsAt(page, token[c]) :
         LET cur == page[i] IN
         /\ page' = CacheAfter(Without(page, token[c]), cur.id, cur.head, cur.items, req[c].limit)
         /\ Respond(c, cur.id, cur.head, cur.items, req[c].limit, arrives)
    /\ UNCHANGED storeVars

CursorMiss(c) ==
    /\ req[c].pc = "cursor"
    /\ CursorsAt(page, token[c]) = {}
    /\ req' = [req EXCEPT ![c].pc = "list"]
    /\ UNCHANGED <<storeVars, page, token, copy>>

ListAll(c) ==
    /\ req[c].pc = "list" /\ token[c] = NoRow
    /\ req' = [req EXCEPT ![c].pc = "build", ![c].items = ListCurrentCardSyncStates(req[c].id)]
    /\ UNCHANGED <<storeVars, page, token, copy>>

ListChanges(c) ==
    /\ req[c].pc = "list" /\ token[c] # NoRow
    /\ LET list == ListCardChangesSince(req[c].id, token[c].rev) IN
         IF token[c].rev > req[c].head \/ StaleToken(token[c], req[c].head, list)
         THEN StartOver(c)
         ELSE /\ req' = [req EXCEPT ![c].pc = "build", ![c].items = list]
              /\ UNCHANGED <<token, copy>>
    /\ UNCHANGED <<storeVars, page>>

\* buildPagedSyncResult
Build(c, arrives) ==
    /\ req[c].pc = "build"
    /\ page' = CacheAfter(page, req[c].id, req[c].head, req[c].items, req[c].limit)
    /\ Respond(c, req[c].id, req[c].head, req[c].items, req[c].limit, arrives)
    /\ UNCHANGED storeVars

\* syncCursorTTL: cursors expire oldest first.
ExpireCursor ==
    /\ page # <<>>
    /\ page' = Tail(page)
    /\ UNCHANGED <<storeVars, token, copy, req>>

-----------------------------------------------------------------------------
(* The world around the service *)

\* Bound: while a request is between its two reads, its book gains at most
\* Burst revisions and at most Span ticks go by.
Paced ==
    \A c \in Clients : req[c].pc \in {"cursor", "list"} =>
        /\ clock - req[c].started <= Span
        /\ req[c].id \in Live => books[req[c].id].revision - req[c].head <= Burst

\* Other writers of the collection.  A card keeps its uid; only its text varies.
WriteCard ==
    /\ \E id \in Live, h \in Hrefs :
        \/ \E e \in ETags : PutCards(id, <<[href |-> h, uid |-> h, etag |-> e]>>, Unconditional)
        \/ DeleteCard(id, h, Unconditional)
    /\ UNCHANGED syncVars
    /\ Paced'

RemoveCollection == DeleteAddressbook(Username, Slug, TRUE) /\ UNCHANGED syncVars
MakeCollection ==
    /\ \E u \in UserIds, n \in Names :
        users[u] # NoRow /\ users[u].name = Username /\ CreateAddressbook(u, Slug, n, TRUE)
    /\ UNCHANGED syncVars

\* pruneOnce (daemon.go:624), one DELETE each.
PruneByAge ==
    Retention > 0 /\ PruneCardChangesByAge(clock - Retention) /\ UNCHANGED syncVars
PruneByRevisions == PruneCardChangesByMaxRevisions(Keep) /\ UNCHANGED syncVars

TimePasses == Tick /\ UNCHANGED syncVars /\ Paced'

WorldStep ==
    WriteCard \/ RemoveCollection \/ MakeCollection \/ PruneByAge \/ PruneByRevisions \/ TimePasses

RequestStep(c) ==
    \/ \E limit \in Limits : ReadBook(c, limit)
    \/ \E arrives \in BOOLEAN : CursorHit(c, arrives)
    \/ CursorMiss(c)
    \/ ListAll(c)
    \/ ListChanges(c)
    \/ \E arrives \in BOOLEAN : Build(c, arrives)

\* The user exists and has the collection, with nothing in it yet.
SyncInit ==
    /\ users = [u \in UserIds |-> IF u = 1 THEN [name |-> Username, hash |-> CHOOSE p \in Hashes : TRUE]
                                  ELSE NoRow]
    /\ books = [id \in BookIds |-> IF id = 1 THEN [owner |-> 1, slug |-> Slug, revision |-> 0,
                                                   name |-> CHOOSE n \in Names : TRUE]
                                   ELSE NoRow]
    /\ cards = [id \in BookIds |-> Nothing]
    /\ changes = {}
    /\ seq = [users |-> 1, books |-> 1]
    /\ clock = 0
    /\ last = [id \in BookIds |-> [h \in Hrefs |-> 0]]
    /\ page = <<>>
    /\ token = [c \in Clients |-> NoRow]
    /\ copy = [c \in Clients |-> Nothing]
    /\ req = [c \in Clients |-> Idle]

SteadyNext == WorldStep \/ ExpireCursor \/ \E c \in Clients : RequestStep(c)

SyncNext == SteadyNext \/ \E c \in Clients : Restart(c)

SyncSpec == SyncInit /\ [][SyncNext]_vars

\* A client polls, and the server's goroutine serving it goes on.  An answer
\* that is sent often enough arrives in the end, and a continuation asked for
\* often enough is asked for within its cursor's two minutes.
Waiting(c) == token[c] # NoRow /\ CursorsAt(page, token[c]) # {}
Fairness ==
    \A c \in Clients :
        /\ WF_vars(\E limit \in Limits : ReadBook(c, limit))
        /\ WF_vars(CursorMiss(c) \/ ListAll(c) \/ ListChanges(c))
        /\ WF_vars(CursorHit(c, FALSE) \/ Build(c, FALSE))
        /\ SF_vars(\E limit \in Limits : Waiting(c) /\ ReadBook(c, limit))
        /\ SF_vars(CursorHit(c, TRUE))
        /\ SF_vars(Build(c, TRUE))

FairSpec == SyncInit /\ [][SteadyNext]_vars /\ Fairness

-----------------------------------------------------------------------------
(* Properties *)

SyncTypeOK ==
    /\ TypeOK
    /\ page \in Seq([id : BookIds, rev : 0 .. MaxRev, head : 0 .. MaxRev, items : Seq(Item)])
    /\ \A i, j \in DOMAIN page : Key(page[i]) = Key(page[j]) => i = j
    /\ token \in [Clients -> Token \cup {NoRow}]
    /\ copy \in [Clients -> [Hrefs -> ETags \cup {NoRow}]]
    /\ req \in [Clients -> [pc : {"idle", "cursor", "list", "build"}, id : 0 .. MaxBooks,
                            head : 0 .. MaxRev, limit : Limits \cup {0}, started : 0 .. MaxClock,
                            items : Seq(Item)]]

InSync(c, h) ==
    copy[c][h] = IF cards[token[c].id][h] = NoRow THEN NoRow ELSE cards[token[c].id][h].etag

\* What a sync-token means: every card whose last change the token covers is in
\* the client's copy as it is in the collection, and every card deleted by then
\* is gone from the copy.  The next delta starts after the token, so whatever
\* this misses is missed until the client starts over.
SyncSound ==
    \A c \in Clients : (token[c] # NoRow /\ token[c].id \in Live) =>
        \A h \in Hrefs : last[token[c].id][h] <= token[c].rev => InSync(c, h)

\* The half of SyncSound that concerns cards that exist: no create or update
\* that the token covers is missing from the copy.
NoLostUpsert ==
    \A c \in Clients : (token[c] # NoRow /\ token[c].id \in Live) =>
        \A h \in Hrefs :
            /\ cards[token[c].id][h] # NoRow
            /\ last[token[c].id][h] <= token[c].rev
            => InSync(c, h)

\* The caps bound the cache, whatever is put, taken and put back.
CacheWithinCaps == ~OverCap(page)

\* A client's token for a book only moves forward, until it starts over.
TokenMovesForward ==
    [][\A c \in Clients :
          token[c] # NoRow /\ token'[c] # NoRow =>
             /\ token'[c].id = token[c].id
             /\ token'[c].rev >= token[c].rev]_vars

\* A client that goes on polling holds the whole collection in the end.
Current(c) ==
    \E id \in AddressbookOf(Username, Slug) :
        /\ token[c] = [id |-> id, rev |-> books[id].revision]
        /\ \A h \in Hrefs : InSync(c, h)
EventuallyInSync ==
    \A c \in Clients : <>[](AddressbookOf(Username, Slug) # {} => Current(c))
=============================================================================
