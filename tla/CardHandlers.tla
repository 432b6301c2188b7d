---------------------------- MODULE CardHandlers ---------------------------
(***************************************************************************)
(* GET, PUT and DELETE of one card as the HTTP handler and the back end    *)
(* run them (src/internal/server/handler.go, src/internal/carddav/         *)
(* backend.go) over the store.  Every call of the store is a step of its   *)
(* own, so the preconditions of one request are tested against a state     *)
(* that another request may change before the write, and the ETag of an    *)
(* answer is read after it:                                                *)
(*     GET     Find -> ReadCard                                            *)
(*     PUT     Find -> ReadCard -> WriteCard -> Reread                     *)
(*     DELETE  [Find -> ReadCard ->] Find -> EraseCard                     *)
(*                                                                         *)
(* `window' is a history variable for the properties: what the card a      *)
(* request is about has been since the request began.                      *)
(***************************************************************************)
EXTENDS Store

CONSTANTS
    Clients,
    Username, Slug, \* the collection they work on
    Wildcard,       \* the header value *
    Headers         \* bound: the values that If-Match and If-None-Match take

ASSUME HandlerAssumption ==
    /\ Username \in Usernames /\ Slug \in Slugs /\ Hashes # {} /\ Names # {}
    /\ MaxUsers >= 1 /\ MaxBooks >= 1
    /\ Wildcard \notin ETags /\ Wildcard # NoRow /\ Wildcard # Unconditional
    /\ Headers \subseteq ETags \cup {Wildcard, Unconditional}

VARIABLES call, window
handlerVars == <<call, window>>
vars == <<storeVars, handlerVars>>

\* If-Match and If-None-Match; Unconditional stands for a header that is not there.
Header == Headers \cup {Unconditional}

\* Bound: of the two headers a request carries at most one.
Requests ==
    {r \in [op : {"put"}, href : Hrefs, text : ETags, uid : Uids, match : Header, noneMatch : Header] :
        Unconditional \in {r.match, r.noneMatch}}
    \cup [op : {"get"}, href : Hrefs, text : {NoRow}, uid : {NoRow},
          match : {Unconditional}, noneMatch : {Unconditional}]
    \cup [op : {"delete"}, href : Hrefs, text : {NoRow}, uid : {NoRow},
          match : Header, noneMatch : {Unconditional}]

Idle == [pc |-> "idle", status |-> "none", etag |-> NoRow, r |-> NoRow, id |-> 0, seen |-> NoRow]

-----------------------------------------------------------------------------
(* Preconditions *)

\* webdav.ConditionalMatch.MatchETag, for a header that is there.
Matches(header, card) == header = Wildcard \/ header = card.etag

\* Mutation: an ETag in If-None-Match taken for the wildcard.
RefusedIfAny(r, card) ==
    \/ r.noneMatch # Unconditional /\ card # NoRow
    \/ r.match # Unconditional /\ (card = NoRow \/ ~Matches(r.match, card))

\* checkConditional
Refused(r, card) ==
    \/ r.noneMatch # Unconditional /\ card # NoRow /\ Matches(r.noneMatch, card)
    \/ r.match # Unconditional /\ (card = NoRow \/ ~Matches(r.match, card))

\* Mutation: the test before the transaction is the only one.
ConditionDropped(r, seen) == Unconditional

\* putCardConditionsFromRequest: what the transaction tests again.  An ETag in
\* If-None-Match is not passed on.
Condition(r, seen) ==
    IF r.noneMatch = Wildcard THEN NoRow
    ELSE IF r.match # Unconditional THEN seen.etag
    ELSE Unconditional

-----------------------------------------------------------------------------
(* Steps of a request *)

Answer(c, status, etag) ==
    call' = [call EXCEPT ![c] = [Idle EXCEPT !.status = status, !.etag = etag]]

\* Writes in flight; their number bounds what may begin.
Writers == {c \in Clients : call[c].pc # "idle" /\ call[c].r.op # "get"}
Room == \A id \in Live : books[id].revision + Cardinality(Writers) < MaxRev \* bound

\* GetAddressbookByUsernameSlug
FindBook(c, r, pc) ==
    IF AddressbookOf(Username, Slug) = {} THEN Answer(c, "missing", NoRow)
    ELSE \E id \in AddressbookOf(Username, Slug) :
           call' = [call EXCEPT ![c] = [Idle EXCEPT !.pc = pc, !.r = r, !.id = id]]

Find(c, r) ==
    /\ call[c].pc = "idle"
    /\ r.op # "get" => Room
    /\ FindBook(c, r, IF r.op = "delete" /\ r.match = Unconditional THEN "write" ELSE "read")
    /\ UNCHANGED storeVars

\* GetCard, and what each method makes of it.
ReadCard(c) ==
    /\ call[c].pc = "read"
    /\ LET r    == call[c].r
           card == cards[call[c].id][r.href]
       IN \/ /\ r.op = "get"
             /\ IF card = NoRow THEN Answer(c, "missing", NoRow) ELSE Answer(c, "ok", card.etag)
          \/ /\ r.op = "put"
             /\ IF Refused(r, card) THEN Answer(c, "refused", NoRow)
                ELSE call' = [call EXCEPT ![c].pc = "write", ![c].seen = card]
          \/ /\ r.op = "delete"
             /\ IF card = NoRow THEN Answer(c, "missing", NoRow)
                ELSE IF ~Matches(r.match, card) THEN Answer(c, "refused", NoRow)
                ELSE call' = [call EXCEPT ![c].pc = "find", ![c].seen = card]
    /\ UNCHANGED storeVars

\* deleteAddressObject looks the book up again.
FindAgain(c) ==
    /\ call[c].pc = "find"
    /\ IF AddressbookOf(Username, Slug) = {} THEN Answer(c, "missing", NoRow)
       ELSE \E id \in AddressbookOf(Username, Slug) :
              call' = [call EXCEPT ![c].pc = "write", ![c].id = id]
    /\ UNCHANGED storeVars

\* The transaction of PUT: committed, or rolled back because the precondition
\* no longer holds, another card has the uid, or the book is gone.
WriteCard(c) ==
    /\ call[c].pc = "write" /\ call[c].r.op = "put"
    /\ LET r    == call[c].r
           id   == call[c].id
           in   == [href |-> r.href, uid |-> r.uid, etag |-> r.text]
           cond == Condition(r, call[c].seen)
       IN IF ~Holds(cond, cards[id][r.href])
          THEN Answer(c, "refused", NoRow) /\ UNCHANGED storeVars
          ELSE IF ~UidFree(cards[id], in)
          THEN Answer(c, "conflict", NoRow) /\ UNCHANGED storeVars
          ELSE IF id \notin Live
          THEN Answer(c, "error", NoRow) /\ UNCHANGED storeVars
          ELSE /\ PutCards(id, <<in>>, cond)
               /\ call' = [call EXCEPT ![c].seen = NoRow,
                              ![c].pc = IF cards[id][r.href] = NoRow THEN "created" ELSE "updated"]

\* The second GetCard of PUT, whose ETag goes into the answer.
Reread(c) ==
    /\ call[c].pc \in {"created", "updated"}
    /\ LET card == cards[call[c].id][call[c].r.href] IN
         IF card = NoRow THEN Answer(c, "missing", NoRow)
         ELSE Answer(c, call[c].pc, card.etag)
    /\ UNCHANGED storeVars

\* The transaction of DELETE.
EraseCard(c) ==
    /\ call[c].pc = "write" /\ call[c].r.op = "delete"
    /\ LET id   == call[c].id
           card == cards[id][call[c].r.href]
           cond == IF call[c].r.match = Unconditional THEN Unconditional ELSE call[c].seen.etag
       IN IF card = NoRow
          THEN Answer(c, "missing", NoRow) /\ UNCHANGED storeVars
          ELSE IF ~Holds(cond, card)
          THEN Answer(c, "refused", NoRow) /\ UNCHANGED storeVars
          ELSE IF id \notin Live
          THEN Answer(c, "error", NoRow) /\ UNCHANGED storeVars
          ELSE DeleteCard(id, call[c].r.href, cond) /\ Answer(c, "deleted", NoRow)

RequestStep(c) ==
    \/ \E r \in Requests : Find(c, r)
    \/ ReadCard(c)
    \/ FindAgain(c)
    \/ WriteCard(c)
    \/ Reread(c)
    \/ EraseCard(c)

\* The collection goes and comes back meanwhile.
RemoveCollection ==
    /\ \E fk \in ForeignKeys : DeleteAddressbook(Username, Slug, fk)
    /\ UNCHANGED call
MakeCollection ==
    /\ \E u \in UserIds, n \in Names, fk \in ForeignKeys :
        users[u] # NoRow /\ users[u].name = Username /\ CreateAddressbook(u, Slug, n, fk)
    /\ UNCHANGED call

-----------------------------------------------------------------------------
\* What a GET of /Username/Slug/h would find now.
Resource(h) ==
    IF \E id \in AddressbookOf(Username, Slug) : cards[id][h] # NoRow
    THEN cards[CHOOSE id \in AddressbookOf(Username, Slug) : TRUE][h]
    ELSE NoRow

\* What the card of c's request has been until now, this step included.
WindowNow(c) == window[c] \cup {Resource(h)' : h \in {g \in Hrefs : call[c].r.href = g}}

Watch ==
    window' = [c \in Clients |->
        IF call'[c].pc = "idle" THEN {}
        ELSE IF call[c].pc = "idle" THEN {Resource(h) : h \in {g \in Hrefs : call'[c].r.href = g}}
        ELSE WindowNow(c)]

HandlerInit ==
    /\ users = [u \in UserIds |-> IF u = 1 THEN [name |-> Username, hash |-> CHOOSE p \in Hashes : TRUE]
                                  ELSE NoRow]
    /\ books = [id \in BookIds |-> IF id = 1 THEN [owner |-> 1, slug |-> Slug, revision |-> 0,
                                                   name |-> CHOOSE n \in Names : TRUE]
                                   ELSE NoRow]
    /\ cards = [id \in BookIds |-> [h \in Hrefs |-> NoRow]]
    /\ changes = {}
    /\ seq = [users |-> 1, books |-> 1]
    /\ clock = 0
    /\ last = [id \in BookIds |-> [h \in Hrefs |-> 0]]
    /\ call = [c \in Clients |-> Idle]
    /\ window = [c \in Clients |-> {}]

HandlerNext ==
    \/ \E c \in Clients : RequestStep(c) /\ Watch
    \/ RemoveCollection /\ Watch
    \/ MakeCollection /\ Watch

HandlerSpec == HandlerInit /\ [][HandlerNext]_vars

-----------------------------------------------------------------------------
(* Properties *)

\* What a request in flight may hold.
Call == [pc : {"idle", "read", "find", "write", "created", "updated"},
         status : {"none", "ok", "missing", "created", "updated", "deleted", "refused",
                   "conflict", "error"},
         etag : ETags \cup {NoRow}, r : Requests \cup {NoRow}, id : 0 .. MaxBooks,
         seen : Card \cup {NoRow}]

\* The type invariant.
HandlerTypeOK ==
    /\ TypeOK
    /\ call \in [Clients -> Call]
    /\ window \in [Clients -> SUBSET (Card \cup {NoRow})]

\* What WritesHonourConditions rests on: between the test and the write a request
\* with If-Match keeps the card that passed the test, which is what the
\* transaction compares with.
Kept(q) ==
    q.pc # "idle" =>
        /\ q.r \in Requests /\ q.id \in BookIds
        /\ q.pc \in {"find", "write"} /\ q.r.match # Unconditional =>
              q.seen # NoRow /\ Matches(q.r.match, q.seen)
KeepsWhatMatched == \A c \in Clients : Kept(call[c])

UsersHaveIds == \A u \in UserIds : users[u] # NoRow => u <= seq.users

HandlerInv == JournalInv /\ HandlerTypeOK /\ KeepsWhatMatched /\ UsersHaveIds

\* A write that carries If-Match, or If-None-Match: *, replaces exactly what it
\* names, whatever others wrote since the handler tested the header: of two
\* writes conditional on one version the second is refused
\* (TestHandler_CardPut_IfMatchRace_One204One412).
HonoursCondition(r, old) ==
    /\ r.match # Unconditional => old # NoRow
    /\ r.match \in ETags => old.etag = r.match
    /\ r.noneMatch = Wildcard => old = NoRow
WritesHonourConditions ==
    [][\A c \in Clients :
          call[c].pc = "write" /\ call'[c] # call[c] /\ cards' # cards =>
             HonoursCondition(call[c].r, cards[call[c].id][call[c].r.href])]_vars

\* Every answer is true of the card at some moment between the request and the
\* answer, although no two steps of a handler read the same state: 404 says that
\* there was no card, 412 that the header did not hold (for If-Match: *, which
\* the code turns into the ETag it read, that the card changed), 409 that another
\* card has the uid, 500 that the collection was gone, and an ETag is one that
\* the card had.
TrueAnswer(r, status, etag, been) ==
    LET there == {v \in been : v # NoRow} IN
    CASE status \in {"ok", "updated"}   -> \E v \in there : v.etag = etag
      [] status = "created"             -> NoRow \in been /\ \E v \in there : v.etag = etag
      [] status = "deleted"             -> NoRow \in been /\ there # {}
      [] status \in {"missing", "error"} -> NoRow \in been
      [] status = "conflict"            ->
            \E id \in BookIds, h \in Hrefs \ {r.href} : cards[id][h] # NoRow /\ cards[id][h].uid = r.uid
      [] status = "refused" ->
            \/ r.match # Unconditional /\ NoRow \in been
            \/ r.match \in ETags /\ \E v \in there : v.etag # r.match
            \/ r.match = Wildcard /\ Cardinality(been) > 1
            \/ r.noneMatch # Unconditional /\ \E v \in there : Matches(r.noneMatch, v)
AnswersAreTrue ==
    [][\A c \in Clients :
          call[c].pc # "idle" /\ call'[c].pc = "idle" =>
             TrueAnswer(call[c].r, call'[c].status, call'[c].etag, WindowNow(c))]_vars

\* An update conditional on an ETag that changes the text is answered with
\* another ETag than the one it replaced (TestBackend_PutAddressObject_
\* ConditionalMatches, backend_test.go:118).
UpdateChangesETag ==
    [][\A c \in Clients :
          /\ call[c].pc = "updated" /\ call'[c].status = "updated"
          /\ call[c].r.match \in ETags /\ call[c].r.text # call[c].r.match
          => call'[c].etag # call[c].r.match]_vars
=============================================================================
