------------------------- MODULE CardHandlerProofs -------------------------
(***************************************************************************)
(* Proofs about CardHandlers.tla, for every value of its constants: types, *)
(* that the handlers do to the tables what Store allows, that conditional  *)
(* writes keep their condition, and that every answer was true.            *)
(***************************************************************************)
EXTENDS CardHandlers, StoreProofs, FiniteSetTheorems

-----------------------------------------------------------------------------
(* Facts about requests *)

LEMMA RequestFields ==
    ASSUME NEW r \in Requests
    PROVE  /\ r.href \in Hrefs /\ r.match \in Header /\ r.noneMatch \in Header
           /\ r.op \in {"get", "put", "delete"}
           /\ r.op = "put" => r.uid \in Uids /\ r.text \in ETags
  BY DEF Requests, Header

\* A header that matches a card names its ETag or is the wildcard.
LEMMA MatchNamesETag ==
    ASSUME NEW header \in Header, NEW card \in Card, header # Unconditional, Matches(header, card)
    PROVE  header \in ETags => card.etag = header
  BY HandlerAssumption DEF Header, Matches

LEMMA IdleIsKept == Idle \in Call /\ Kept(Idle)
  BY BoundsAssumption DEF Idle, Call, Kept

LEMMA AnswerKept ==
    ASSUME HandlerTypeOK, NEW c \in Clients,
           NEW status \in {"ok", "missing", "created", "updated", "deleted", "refused",
                           "conflict", "error"},
           NEW etag \in ETags \cup {NoRow}, Answer(c, status, etag)
    PROVE  \E q \in Call : Kept(q) /\ call' = [call EXCEPT ![c] = q]
<1>1. [Idle EXCEPT !.status = status, !.etag = etag] \in Call
  <2>1. Idle \in Call
    BY IdleIsKept
  <2>2. status \in {"none", "ok", "missing", "created", "updated", "deleted", "refused",
                    "conflict", "error"}
    OBVIOUS
  <2>. QED  BY <2>1, <2>2 DEF Call
<1>2. Kept([Idle EXCEPT !.status = status, !.etag = etag])
  BY DEF Idle, Kept
<1>. QED  BY <1>1, <1>2 DEF Answer

-----------------------------------------------------------------------------
(* What a step does to the request it belongs to *)

LEMMA FindKept ==
    ASSUME HandlerTypeOK, NEW c \in Clients, NEW r \in Requests, Find(c, r)
    PROVE  \E q \in Call : Kept(q) /\ call' = [call EXCEPT ![c] = q]
<1> DEFINE pc == IF r.op = "delete" /\ r.match = Unconditional THEN "write" ELSE "read"
<1>1. CASE AddressbookOf(Username, Slug) = {}
  BY <1>1, AnswerKept DEF Find, FindBook
<1>2. CASE AddressbookOf(Username, Slug) # {}
  <2>1. PICK id \in AddressbookOf(Username, Slug) :
          call' = [call EXCEPT ![c] = [Idle EXCEPT !.pc = pc, !.r = r, !.id = id]]
    BY <1>2 DEF Find, FindBook
  <2>2. id \in BookIds /\ id \in 0 .. MaxBooks
    BY BoundsAssumption DEF AddressbookOf, Live, BookIds
  <2>3. [Idle EXCEPT !.pc = pc, !.r = r, !.id = id] \in Call
    BY <2>2 DEF Idle, Call
  <2>4. Kept([Idle EXCEPT !.pc = pc, !.r = r, !.id = id])
    BY <2>2 DEF Idle, Kept
  <2>. QED  BY <2>1, <2>3, <2>4
<1>. QED  BY <1>1, <1>2

LEMMA ReadCardKept ==
    ASSUME HandlerTypeOK, KeepsWhatMatched, NEW c \in Clients, ReadCard(c)
    PROVE  \E q \in Call : Kept(q) /\ call' = [call EXCEPT ![c] = q]
<1> DEFINE r == call[c].r  card == cards[call[c].id][r.href]
<1>1. call[c] \in Call /\ r \in Requests /\ call[c].id \in BookIds
  BY DEF HandlerTypeOK, KeepsWhatMatched, Kept, ReadCard
<1>2. card \in Card \cup {NoRow} /\ (card # NoRow => card.etag \in ETags)
  BY <1>1, RequestFields DEF HandlerTypeOK, TypeOK, Card
<1>3. CASE \E s \in {"ok", "missing", "refused"}, e \in ETags \cup {NoRow} : Answer(c, s, e)
  BY <1>3, AnswerKept
<1>4. CASE /\ r.op = "put" /\ ~Refused(r, card)
           /\ call' = [call EXCEPT ![c].pc = "write", ![c].seen = card]
  <2> DEFINE q == [call[c] EXCEPT !.pc = "write", !.seen = card]
  <2>1. q \in Call
    BY <1>1, <1>2 DEF Call
  <2>2. Kept(q)
    BY <1>1, <1>2, <1>4 DEF Kept, Refused, Call
  <2>3. call' = [call EXCEPT ![c] = q]
    BY <1>4 DEF HandlerTypeOK
  <2>. QED  BY <2>1, <2>2, <2>3
<1>5. CASE /\ r.op = "delete" /\ card # NoRow /\ Matches(r.match, card)
           /\ call' = [call EXCEPT ![c].pc = "find", ![c].seen = card]
  <2> DEFINE q == [call[c] EXCEPT !.pc = "find", !.seen = card]
  <2>1. q \in Call
    BY <1>1, <1>2 DEF Call
  <2>2. Kept(q)
    BY <1>1, <1>2, <1>5 DEF Kept, Call
  <2>3. call' = [call EXCEPT ![c] = q]
    BY <1>5 DEF HandlerTypeOK
  <2>. QED  BY <2>1, <2>2, <2>3
<1>. QED  BY <1>2, <1>3, <1>4, <1>5 DEF ReadCard

LEMMA FindAgainKept ==
    ASSUME HandlerTypeOK, KeepsWhatMatched, NEW c \in Clients, FindAgain(c)
    PROVE  \E q \in Call : Kept(q) /\ call' = [call EXCEPT ![c] = q]
<1>1. CASE AddressbookOf(Username, Slug) = {}
  BY <1>1, AnswerKept DEF FindAgain
<1>2. CASE AddressbookOf(Username, Slug) # {}
  <2>1. PICK id \in AddressbookOf(Username, Slug) :
          call' = [call EXCEPT ![c].pc = "write", ![c].id = id]
    BY <1>2 DEF FindAgain
  <2>2. id \in BookIds /\ id \in 0 .. MaxBooks
    BY BoundsAssumption DEF AddressbookOf, Live, BookIds
  <2> DEFINE q == [call[c] EXCEPT !.pc = "write", !.id = id]
  <2>3. call[c] \in Call /\ Kept(call[c]) /\ call[c].pc = "find"
    BY DEF HandlerTypeOK, KeepsWhatMatched, FindAgain
  <2>4. q \in Call
    BY <2>2, <2>3 DEF Call
  <2>5. Kept(q)
    BY <2>2, <2>3 DEF Kept, Call
  <2>6. call' = [call EXCEPT ![c] = q]
    BY <2>1 DEF HandlerTypeOK
  <2>. QED  BY <2>4, <2>5, <2>6
<1>. QED  BY <1>1, <1>2

LEMMA WriteCardKept ==
    ASSUME HandlerTypeOK, KeepsWhatMatched, NEW c \in Clients, WriteCard(c)
    PROVE  \E q \in Call : Kept(q) /\ call' = [call EXCEPT ![c] = q]
<1>1. CASE \E s \in {"refused", "conflict", "error"} : Answer(c, s, NoRow)
  BY <1>1, AnswerKept
<1>2. CASE \E pc \in {"created", "updated"} : call' = [call EXCEPT ![c].seen = NoRow, ![c].pc = pc]
  <2>1. PICK pc \in {"created", "updated"} : call' = [call EXCEPT ![c].seen = NoRow, ![c].pc = pc]
    BY <1>2
  <2> DEFINE q == [call[c] EXCEPT !.seen = NoRow, !.pc = pc]
  <2>2. call[c] \in Call /\ Kept(call[c]) /\ call[c].pc = "write"
    BY DEF HandlerTypeOK, KeepsWhatMatched, WriteCard
  <2>3. q \in Call
    BY <2>2 DEF Call
  <2>4. Kept(q)
    BY <2>2 DEF Kept, Call
  <2>5. call' = [call EXCEPT ![c] = q]
    BY <2>1 DEF HandlerTypeOK
  <2>. QED  BY <2>3, <2>4, <2>5
<1>. QED  BY <1>1, <1>2 DEF WriteCard

LEMMA RereadKept ==
    ASSUME HandlerTypeOK, KeepsWhatMatched, NEW c \in Clients, Reread(c)
    PROVE  \E q \in Call : Kept(q) /\ call' = [call EXCEPT ![c] = q]
<1> DEFINE card == cards[call[c].id][call[c].r.href]
<1>1. call[c].r \in Requests /\ call[c].id \in BookIds /\ call[c].pc \in {"created", "updated"}
  BY DEF KeepsWhatMatched, Kept, Reread
<1>2. card \in Card \cup {NoRow} /\ (card # NoRow => card.etag \in ETags)
  BY <1>1, RequestFields DEF HandlerTypeOK, TypeOK, Card
<1>3. \E s \in {"missing", "created", "updated"}, e \in ETags \cup {NoRow} : Answer(c, s, e)
  BY <1>1, <1>2 DEF Reread
<1>. QED  BY <1>3, AnswerKept

LEMMA EraseCardKept ==
    ASSUME HandlerTypeOK, NEW c \in Clients, EraseCard(c)
    PROVE  \E q \in Call : Kept(q) /\ call' = [call EXCEPT ![c] = q]
<1>1. \E s \in {"missing", "refused", "error", "deleted"} : Answer(c, s, NoRow)
  BY DEF EraseCard
<1>. QED  BY <1>1, AnswerKept

\* A step of one request leaves the others' alone and keeps what it has to.
LEMMA RequestStepKept ==
    ASSUME HandlerTypeOK, KeepsWhatMatched, NEW c \in Clients, RequestStep(c)
    PROVE  /\ call' \in [Clients -> Call] /\ KeepsWhatMatched'
           /\ \A d \in Clients \ {c} : call'[d] = call[d]
<1>1. PICK q \in Call : Kept(q) /\ call' = [call EXCEPT ![c] = q]
  BY FindKept, ReadCardKept, FindAgainKept, WriteCardKept, RereadKept, EraseCardKept
     DEF RequestStep
<1>2. KeepsWhatMatched'
  <2>. SUFFICES ASSUME NEW d \in Clients PROVE Kept(call[d])'
    BY DEF KeepsWhatMatched
  <2>1. call'[d] = call[d] \/ call'[d] = q
    BY <1>1 DEF HandlerTypeOK
  <2>. QED  BY <1>1, <2>1 DEF KeepsWhatMatched, Kept
<1>. QED  BY <1>1, <1>2 DEF HandlerTypeOK

-----------------------------------------------------------------------------
(* A request is a sequence of steps of the store *)

LEMMA WriteCardStores ==
    ASSUME HandlerTypeOK, KeepsWhatMatched, NEW c \in Clients, WriteCard(c)
    PROVE  CardStep \/ UNCHANGED storeVars
<1> DEFINE r == call[c].r  cond == Condition(r, call[c].seen)
           in == [href |-> r.href, uid |-> r.uid, etag |-> r.text]
<1>1. call[c] \in Call /\ r \in Requests /\ call[c].id \in BookIds /\ r.op = "put"
  BY DEF HandlerTypeOK, KeepsWhatMatched, Kept, WriteCard
<1>2. in \in PutInput
  BY <1>1, RequestFields DEF PutInput
<1>3. cond \in {Unconditional, NoRow} \cup ETags
  BY <1>1, RequestFields DEF Condition, KeepsWhatMatched, Kept, WriteCard, Call, Card
<1>. QED  BY <1>1, <1>2, <1>3 DEF WriteCard, CardStep

LEMMA EraseCardStores ==
    ASSUME HandlerTypeOK, KeepsWhatMatched, NEW c \in Clients, EraseCard(c)
    PROVE  CardStep \/ UNCHANGED storeVars
<1> DEFINE r == call[c].r
           cond == IF r.match = Unconditional THEN Unconditional ELSE call[c].seen.etag
<1>1. call[c] \in Call /\ r \in Requests /\ call[c].id \in BookIds
  BY DEF HandlerTypeOK, KeepsWhatMatched, Kept, EraseCard
<1>2. r.href \in Hrefs
  BY <1>1, RequestFields
<1>3. cond \in {Unconditional} \cup ETags
  BY <1>1 DEF KeepsWhatMatched, Kept, EraseCard, Call, Card
<1>. QED  BY <1>1, <1>2, <1>3 DEF EraseCard, CardStep

\* Every step of the handlers is a step of the store or leaves it alone.
LEMMA HandlerStores ==
    HandlerInv /\ [HandlerNext]_vars => [StoreNext]_storeVars
<1>. SUFFICES ASSUME HandlerInv, [HandlerNext]_vars PROVE [StoreNext]_storeVars
  OBVIOUS
<1>1. ASSUME NEW c \in Clients, RequestStep(c) PROVE [StoreNext]_storeVars
  <2>1. CASE WriteCard(c) \/ EraseCard(c)
    BY <2>1, WriteCardStores, EraseCardStores DEF HandlerInv, StoreNext
  <2>2. CASE ~(WriteCard(c) \/ EraseCard(c))
    BY <1>1, <2>2 DEF RequestStep, Find, ReadCard, FindAgain, Reread
  <2>. QED  BY <2>1, <2>2
<1>2. CASE RemoveCollection
  BY <1>2, HandlerAssumption DEF RemoveCollection, StoreNext, BookStep
<1>3. CASE MakeCollection
  <2>1. PICK u \in UserIds, n \in Names, fk \in ForeignKeys :
          users[u] # NoRow /\ CreateAddressbook(u, Slug, n, fk)
    BY <1>3 DEF MakeCollection
  <2>2. u \in 1 .. seq.users
    BY <2>1 DEF HandlerInv, UsersHaveIds, UserIds, JournalInv, TypeOK
  <2>. QED  BY <2>1, <2>2, HandlerAssumption DEF StoreNext, BookStep
<1>4. CASE UNCHANGED vars
  BY <1>4 DEF vars
<1>. QED  BY <1>1, <1>2, <1>3, <1>4 DEF HandlerNext

-----------------------------------------------------------------------------
(* The inductive invariant *)

LEMMA ResourceType ==
    ASSUME TypeOK, NEW h \in Hrefs
    PROVE  Resource(h) \in Card \cup {NoRow}
  BY DEF TypeOK, Resource, AddressbookOf, Live

LEMMA WatchType ==
    ASSUME HandlerTypeOK, TypeOK', Watch
    PROVE  window' \in [Clients -> SUBSET (Card \cup {NoRow})]
<1>1. \A h \in Hrefs : Resource(h) \in Card \cup {NoRow}
  BY ResourceType DEF HandlerTypeOK
<1>2. \A h \in Hrefs : Resource(h)' \in Card \cup {NoRow}
  <2>. SUFFICES ASSUME NEW h \in Hrefs PROVE Resource(h)' \in Card \cup {NoRow}
    OBVIOUS
  <2>. QED  BY DEF TypeOK, Resource, AddressbookOf, Live
<1>. QED  BY <1>1, <1>2 DEF Watch, WindowNow, HandlerTypeOK

\* No step gives an account an id above the last one handed out.
LEMMA UsersKeepIds ==
    ASSUME HandlerInv, HandlerNext
    PROVE  UsersHaveIds'
<1>1. UNCHANGED users /\ seq'.users = seq.users
  <2>1. ASSUME NEW c \in Clients, RequestStep(c) PROVE UNCHANGED <<users, seq>>
    BY <2>1 DEF RequestStep, Find, ReadCard, FindAgain, WriteCard, Reread, EraseCard,
                PutCards, DeleteCard, storeVars
  <2>2. CASE RemoveCollection
    BY <2>2 DEF RemoveCollection, DeleteAddressbook
  <2>3. CASE MakeCollection
    BY <2>3 DEF MakeCollection, CreateAddressbook, HandlerInv, JournalInv, TypeOK
  <2>. QED  BY <2>1, <2>2, <2>3 DEF HandlerNext
<1>. QED  BY <1>1 DEF HandlerInv, UsersHaveIds

LEMMA HandlerStep == HandlerInv /\ [HandlerNext]_vars => HandlerInv'
<1>. SUFFICES ASSUME HandlerInv, [HandlerNext]_vars PROVE HandlerInv'
  OBVIOUS
<1>1. JournalInv'
  BY HandlerStores, JournalStep DEF HandlerInv
<1>2. CASE HandlerNext
  <2>1. call' \in [Clients -> Call] /\ KeepsWhatMatched'
    BY <1>2, RequestStepKept
       DEF HandlerNext, HandlerInv, HandlerTypeOK, RemoveCollection, MakeCollection, KeepsWhatMatched
  <2>2. window' \in [Clients -> SUBSET (Card \cup {NoRow})]
    BY <1>1, <1>2, WatchType DEF HandlerNext, HandlerInv, JournalInv
  <2>. QED  BY <1>1, <1>2, <2>1, <2>2, UsersKeepIds DEF HandlerInv, HandlerTypeOK, JournalInv
<1>3. CASE UNCHANGED vars
  BY <1>1, <1>3 DEF vars, storeVars, handlerVars, HandlerInv, HandlerTypeOK, JournalInv,
                    KeepsWhatMatched, UsersHaveIds
<1>. QED  BY <1>2, <1>3

LEMMA HandlerStart == HandlerInit => HandlerInv
<1>. SUFFICES ASSUME HandlerInit PROVE HandlerInv
  OBVIOUS
<1>1. (CHOOSE p \in Hashes : TRUE) \in Hashes /\ (CHOOSE n \in Names : TRUE) \in Names
  BY HandlerAssumption
<1>2. /\ \A id \in BookIds : id # 1 => books[id] = NoRow
      /\ 1 \in BookIds /\ 1 \in UserIds /\ seq.books = 1 /\ seq.users = 1
  BY HandlerAssumption, BoundsAssumption DEF HandlerInit, BookIds, UserIds
<1>3. TypeOK
  <2>1. users \in [UserIds -> UserRow \cup {NoRow}]
    BY <1>1, HandlerAssumption DEF HandlerInit, UserRow
  <2>2. books \in [BookIds -> BookRow \cup {NoRow}]
    BY <1>1, <1>2, HandlerAssumption, BoundsAssumption DEF HandlerInit, BookRow
  <2>3. seq \in [users : 0 .. MaxUsers, books : 0 .. MaxBooks]
    BY HandlerAssumption, BoundsAssumption DEF HandlerInit
  <2>. QED  BY <2>1, <2>2, <2>3, BoundsAssumption DEF HandlerInit, TypeOK
<1>4. UnusedIdsAreBlank
  BY <1>2 DEF HandlerInit, UnusedIdsAreBlank, BookIds
<1>5. LastWithinRevision
  BY <1>3, BoundsAssumption DEF HandlerInit, LastWithinRevision, TypeOK, BookRow, Live
<1>6. JournalAgrees
  BY DEF HandlerInit, JournalAgrees, LiveChanges
<1>7. HandlerTypeOK /\ KeepsWhatMatched
  BY <1>3, IdleIsKept DEF HandlerInit, HandlerTypeOK, KeepsWhatMatched
<1>8. UsersHaveIds
  BY <1>2 DEF HandlerInit, UsersHaveIds, UserIds
<1>. QED  BY <1>3, <1>4, <1>5, <1>6, <1>7, <1>8 DEF HandlerInv, JournalInv

THEOREM HandlerInvariant == HandlerSpec => []HandlerInv
  BY HandlerStart, HandlerStep, PTL DEF HandlerSpec

\* Requests in flight are well typed whatever the two clients and the collection
\* do between their steps.
THEOREM HandlerTypeCorrect == HandlerSpec => []HandlerTypeOK
<1>1. HandlerInv => HandlerTypeOK
  BY DEF HandlerInv
<1>. QED  BY <1>1, HandlerInvariant, PTL

\* The handlers implement the store's specification step by step, so what is
\* proved of every step of the store holds of GET, PUT and DELETE, above all that
\* the journal agrees with the cards (putCardConn, deleteCard).
THEOREM HandlersRunTheStore == HandlerSpec => [][StoreNext]_storeVars /\ []JournalAgrees
<1>1. HandlerInv => JournalAgrees
  BY DEF HandlerInv, JournalInv
<1>. QED  BY <1>1, HandlerInvariant, HandlerStores, PTL DEF HandlerSpec

-----------------------------------------------------------------------------
(* Conditional writes *)

LEMMA WriteCardHonours ==
    ASSUME HandlerInv, NEW c \in Clients, WriteCard(c), cards' # cards
    PROVE  HonoursCondition(call[c].r, cards[call[c].id][call[c].r.href])
<1> DEFINE r == call[c].r  seen == call[c].seen  old == cards[call[c].id][r.href]
<1>1. call[c] \in Call /\ r \in Requests /\ call[c].id \in BookIds /\ r.op = "put"
  BY DEF HandlerInv, HandlerTypeOK, KeepsWhatMatched, Kept, WriteCard
<1>2. Holds(Condition(r, seen), old)
  BY DEF WriteCard, storeVars
<1>3. r.match \in Header /\ r.noneMatch \in Header /\ (r.match = Unconditional \/ r.noneMatch = Unconditional)
  BY <1>1 DEF Requests
<1>4. CASE r.match # Unconditional
  <2>1. seen \in Card /\ Matches(r.match, seen)
    BY <1>1, <1>4 DEF HandlerInv, KeepsWhatMatched, Kept, WriteCard, Call
  <2>2. Condition(r, seen) = seen.etag /\ seen.etag \in ETags
    BY <1>3, <1>4, <2>1, HandlerAssumption DEF Condition, Card
  <2>3. old # NoRow /\ old.etag = seen.etag
    BY <1>2, <2>2, NoRowAssumption, AnyAssumption DEF Holds
  <2>4. r.match \in ETags => seen.etag = r.match
    BY <1>3, <1>4, <2>1, MatchNamesETag
  <2>5. r.noneMatch # Wildcard
    BY <1>3, <1>4, HandlerAssumption
  <2>. QED  BY <2>3, <2>4, <2>5 DEF HonoursCondition
<1>5. CASE r.match = Unconditional
  <2>1. r.match \notin ETags
    BY <1>5, AnyAssumption
  <2>2. r.noneMatch = Wildcard => old = NoRow
    <3>1. old \in Card \cup {NoRow} /\ (old # NoRow => old.etag \in ETags)
      BY <1>1, RequestFields DEF HandlerInv, HandlerTypeOK, TypeOK, Card
    <3>. QED  BY <1>2, <1>5, <3>1, NoRowAssumption, AnyAssumption DEF Condition, Holds
  <2>. QED  BY <1>5, <2>1, <2>2 DEF HonoursCondition
<1>. QED  BY <1>4, <1>5

LEMMA EraseCardHonours ==
    ASSUME HandlerInv, NEW c \in Clients, EraseCard(c), cards' # cards
    PROVE  HonoursCondition(call[c].r, cards[call[c].id][call[c].r.href])
<1> DEFINE r == call[c].r  seen == call[c].seen  old == cards[call[c].id][r.href]
<1>1. call[c] \in Call /\ r \in Requests /\ r.op = "delete"
  BY DEF HandlerInv, HandlerTypeOK, KeepsWhatMatched, Kept, EraseCard
<1>2. old # NoRow
  BY DEF EraseCard, storeVars
<1>3. Holds(IF r.match = Unconditional THEN Unconditional ELSE seen.etag, old)
  BY <1>2 DEF EraseCard, storeVars
<1>4. r.match \in Header /\ r.noneMatch = Unconditional
  BY <1>1 DEF Requests
<1>5. ASSUME r.match \in ETags PROVE old.etag = r.match
  <2>1. r.match # Unconditional
    BY <1>5, AnyAssumption
  <2>2. seen \in Card /\ Matches(r.match, seen)
    BY <1>1, <2>1 DEF HandlerInv, KeepsWhatMatched, Kept, EraseCard, Call
  <2>3. seen.etag = r.match /\ seen.etag \in ETags
    BY <1>4, <1>5, <2>1, <2>2, MatchNamesETag
  <2>. QED  BY <1>2, <1>3, <2>1, <2>3, NoRowAssumption, AnyAssumption DEF Holds
<1>. QED  BY <1>2, <1>4, <1>5, HandlerAssumption DEF HonoursCondition

\* Whatever was written between the handler's test of If-Match or
\* If-None-Match: * and the transaction, the write replaces only what the header
\* names (putCardConditionsFromRequest, PutCardConditional, DeleteCardConditional).
THEOREM ConditionsHonoured == HandlerSpec => WritesHonourConditions
<1> DEFINE Honest(c) == call[c].pc = "write" /\ call'[c] # call[c] /\ cards' # cards =>
                          HonoursCondition(call[c].r, cards[call[c].id][call[c].r.href])
<1>1. HandlerInv /\ [HandlerNext]_vars => [\A c \in Clients : Honest(c)]_vars
  <2>. SUFFICES ASSUME HandlerInv, HandlerNext, NEW c \in Clients,
                       call[c].pc = "write", call'[c] # call[c], cards' # cards
                PROVE  HonoursCondition(call[c].r, cards[call[c].id][call[c].r.href])
    OBVIOUS
  <2>1. ~RemoveCollection /\ ~MakeCollection
    BY DEF RemoveCollection, MakeCollection
  <2>2. PICK d \in Clients : RequestStep(d)
    BY <2>1 DEF HandlerNext
  <2>3. d = c
    BY <2>2, RequestStepKept DEF HandlerInv
  <2>4. WriteCard(c) \/ EraseCard(c)
    BY <2>2, <2>3 DEF RequestStep, Find, ReadCard, FindAgain, Reread
  <2>. QED  BY <2>4, WriteCardHonours, EraseCardHonours
<1>. QED  BY <1>1, HandlerInvariant, PTL DEF HandlerSpec, WritesHonourConditions

-----------------------------------------------------------------------------
(* The truth of the answers *)

\* There is one user, and every book there is, one at most, is the collection.
OneCollection ==
    /\ \A u \in UserIds : users[u] # NoRow => u = 1
    /\ users[1] # NoRow /\ users[1].name = Username
    /\ \A id \in Live : books[id].owner = 1 /\ books[id].slug = Slug
    /\ \A i, j \in Live : i = j

\* What a request in flight can know: what it read, and what it would read again
\* under the id it found, is among what the resource has been (w), even when the id
\* is of a collection that is gone and left its cards behind; and that the
\* collection is gone, or was without the card, is among it too.
Knows(q, w) ==
    /\ IsFiniteSet(w)
    /\ q.pc # "idle" =>
          /\ cards[q.id][q.r.href] \in w
          /\ q.seen \in w \cup {NoRow}
          /\ q.id \notin Live => NoRow \in w
          /\ q.pc = "created" => NoRow \in w
          /\ q.pc = "read" /\ q.r.op = "delete" => q.r.match # Unconditional
Informed == \A c \in Clients : Knows(call[c], window[c])

TruthInv == HandlerInv /\ OneCollection /\ Informed

LEMMA BookIsLive == ASSUME TypeOK, OneCollection PROVE AddressbookOf(Username, Slug) = Live
<1>1. 1 \in UserIds
  BY BoundsAssumption, HandlerAssumption DEF UserIds
<1>. QED  BY <1>1 DEF AddressbookOf, OneCollection

\* The resource is what the one live book has.
ResourceShows ==
    \A h \in Hrefs : /\ \A id \in Live : Resource(h) = cards[id][h]
                     /\ Live = {} => Resource(h) = NoRow
LEMMA ResourceShown == TypeOK /\ OneCollection => ResourceShows
<1>. SUFFICES ASSUME TypeOK, OneCollection PROVE ResourceShows
  OBVIOUS
<1>1. AddressbookOf(Username, Slug) = Live
  BY BookIsLive
<1>2. ASSUME NEW h \in Hrefs, NEW id \in Live PROVE Resource(h) = cards[id][h]
  <2>1. \A j \in Live : j = id
    BY DEF OneCollection
  <2>2. (CHOOSE j \in Live : TRUE) = id
    BY <2>1
  <2>. QED  BY <1>1, <2>1, <2>2 DEF Resource
<1>3. ASSUME NEW h \in Hrefs, Live = {} PROVE Resource(h) = NoRow
  BY <1>1, <1>3 DEF Resource
<1>. QED  BY <1>2, <1>3 DEF ResourceShows

\* A transaction on a live book keeps the books and writes its cards only.
LEMMA WriteKeeps ==
    ASSUME TypeOK, NEW id \in BookIds,
           \/ \E in, cond : PutCards(id, <<in>>, cond)
           \/ \E h, cond : DeleteCard(id, h, cond)
    PROVE  /\ id \in Live /\ Live' = Live /\ users' = users
           /\ \A j \in Live : books'[j].owner = books[j].owner /\ books'[j].slug = books[j].slug
           /\ \A j \in BookIds : j # id => cards'[j] = cards[j]
<1>1. /\ books[id] # NoRow /\ books' = Bumped(id, 1) /\ books[id].revision + 1 <= MaxRev
      /\ users' = users /\ \A j \in BookIds : j # id => cards'[j] = cards[j]
  <2>1. CASE \E in, cond : PutCards(id, <<in>>, cond)
    <3>1. PICK in, cond : PutCards(id, <<in>>, cond)
      BY <2>1
    <3>2. Len(<<in>>) = 1
      OBVIOUS
    <3>. QED  BY <3>1, <3>2 DEF PutCards, TypeOK
  <2>2. CASE \E h, cond : DeleteCard(id, h, cond)
    <3>1. PICK h, cond : DeleteCard(id, h, cond)
      BY <2>2
    <3>2. books[id] \in BookRow
      BY <3>1 DEF DeleteCard, TypeOK
    <3>. QED  BY <3>1, <3>2, BoundsAssumption DEF DeleteCard, TypeOK, BookRow
  <2>. QED  BY <2>1, <2>2
<1>2. books[id] \in BookRow
  BY <1>1 DEF TypeOK
<1>3. [books[id] EXCEPT !.revision = @ + 1] \in BookRow
  BY <1>1, <1>2, BoundsAssumption DEF BookRow
<1>4. [books[id] EXCEPT !.revision = @ + 1] # NoRow
  BY <1>3, NoRowAssumption
<1>5. books'[id] = [books[id] EXCEPT !.revision = @ + 1] /\ \A j \in BookIds : j # id => books'[j] = books[j]
  BY <1>1 DEF TypeOK, Bumped
<1>. QED  BY <1>1, <1>2, <1>4, <1>5 DEF Live, BookRow

\* Whatever changes a card shows in the resource, and a collection that goes leaves
\* none behind: what the card of an id is after a step, it was before it or is
\* what the resource is now.
Shows(id, h) ==
    /\ cards'[id][h] = cards[id][h] \/ cards'[id][h] = Resource(h)'
    /\ id \notin Live' => id \notin Live \/ Resource(h)' = NoRow

\* The three kinds of steps: a transaction on one card, the end of the collection
\* and its beginning.
Move ==
    \/ \E id \in BookIds : \/ \E in, cond : PutCards(id, <<in>>, cond)
                           \/ \E h, cond : DeleteCard(id, h, cond)
    \/ \E fk \in ForeignKeys : DeleteAddressbook(Username, Slug, fk)
    \/ \E u \in UserIds, n \in Names, fk \in ForeignKeys :
          users[u] # NoRow /\ CreateAddressbook(u, Slug, n, fk)
    \/ UNCHANGED storeVars

LEMMA HandlerMoves == ASSUME HandlerInv, [HandlerNext]_vars PROVE Move
<1>1. \A c \in Clients : call[c].pc # "idle" => call[c].id \in BookIds
  BY DEF HandlerInv, KeepsWhatMatched, Kept
<1>2. ASSUME NEW c \in Clients, RequestStep(c) PROVE Move
  <2>1. CASE WriteCard(c)
    BY <1>1, <2>1 DEF WriteCard, Move
  <2>2. CASE EraseCard(c)
    BY <1>1, <2>2 DEF EraseCard, Move
  <2>. QED  BY <1>2, <2>1, <2>2 DEF RequestStep, Find, ReadCard, FindAgain, Reread, Move
<1>3. CASE RemoveCollection \/ MakeCollection
  BY <1>3 DEF RemoveCollection, MakeCollection, Move
<1>4. CASE UNCHANGED vars
  BY <1>4 DEF vars, Move
<1>. QED  BY <1>2, <1>3, <1>4 DEF HandlerNext

LEMMA MoveShows ==
    ASSUME TypeOK, TypeOK', OneCollection, Move
    PROVE  OneCollection' /\ \A id \in BookIds, h \in Hrefs : Shows(id, h)
<1>1. (TypeOK /\ OneCollection => ResourceShows)'
  BY ResourceShown, PTL
<1>2. ASSUME OneCollection', Live' = Live,
             \A id \in BookIds \ Live : cards'[id] = cards[id]
      PROVE  \A id \in BookIds, h \in Hrefs : Shows(id, h)
  BY <1>1, <1>2 DEF ResourceShows, Shows
<1>3. ASSUME NEW id \in BookIds,
             (\E in, cond : PutCards(id, <<in>>, cond)) \/ (\E h, cond : DeleteCard(id, h, cond))
      PROVE  OneCollection' /\ \A j \in BookIds, h \in Hrefs : Shows(j, h)
  <2>1. /\ id \in Live /\ Live' = Live /\ users' = users
        /\ \A j \in Live : books'[j].owner = books[j].owner /\ books'[j].slug = books[j].slug
        /\ \A j \in BookIds : j # id => cards'[j] = cards[j]
    BY <1>3, WriteKeeps
  <2>2. OneCollection'
    BY <2>1 DEF OneCollection
  <2>. QED  BY <1>2, <2>1, <2>2
<1>4. ASSUME NEW fk \in ForeignKeys, DeleteAddressbook(Username, Slug, fk)
      PROVE  OneCollection' /\ \A id \in BookIds, h \in Hrefs : Shows(id, h)
  <2>1. RemoveBooks(Live, fk) /\ users' = users
    BY <1>4, BookIsLive DEF DeleteAddressbook
  <2>2. Live' = {}
    BY <2>1 DEF RemoveBooks, Live
  <2>3. OneCollection'
    BY <2>1, <2>2 DEF OneCollection
  <2>4. \A h \in Hrefs : Resource(h)' = NoRow
    BY <1>1, <2>2, <2>3 DEF ResourceShows
  <2>5. \A id \in BookIds : cards'[id] = cards[id] \/ cards'[id] = [h \in Hrefs |-> NoRow]
    BY <2>1 DEF RemoveBooks
  <2>. QED  BY <2>3, <2>4, <2>5 DEF Shows
<1>5. ASSUME NEW u \in UserIds, NEW n \in Names, NEW fk \in ForeignKeys,
             users[u] # NoRow, CreateAddressbook(u, Slug, n, fk)
      PROVE  OneCollection' /\ \A id \in BookIds, h \in Hrefs : Shows(id, h)
  <2> DEFINE new == seq.books + 1  book == [owner |-> u, slug |-> Slug, name |-> n, revision |-> 0]
  <2>1. u = 1
    BY <1>5 DEF OneCollection
  <2>2. /\ new \in BookIds /\ book.owner = 1 /\ book.slug = Slug
        /\ books' = [books EXCEPT ![new] = book]
        /\ users' = users /\ cards' = cards
        /\ \A id \in Live : ~(books[id].owner = 1 /\ books[id].slug = Slug)
    BY <1>5, <2>1 DEF CreateAddressbook, NewBookId
  <2>3. Live = {}
    BY <2>2 DEF OneCollection
  <2>. HIDE DEF new, book
  <2>4. Live' \subseteq {new} /\ \A id \in Live' : books'[id] = book
    BY <2>2, <2>3 DEF Live, TypeOK
  <2>5. OneCollection'
    BY <2>2, <2>4 DEF OneCollection
  <2>. QED  BY <2>2, <2>3, <2>5 DEF Shows
<1>6. ASSUME UNCHANGED storeVars PROVE OneCollection' /\ \A id \in BookIds, h \in Hrefs : Shows(id, h)
  BY <1>6 DEF storeVars, OneCollection, Live, Shows
<1>. QED  BY <1>3, <1>4, <1>5, <1>6 DEF Move

LEMMA Answered ==
    ASSUME HandlerTypeOK, NEW c \in Clients, NEW status, NEW etag, Answer(c, status, etag)
    PROVE  call'[c].pc = "idle" /\ call'[c].status = status /\ call'[c].etag = etag
  BY DEF HandlerTypeOK, Answer, Idle

\* What c has to go by when it takes a step: its window with this step included.
Seen(c) ==
    LET q == call[c]  w == WindowNow(c) IN
    /\ IsFiniteSet(w)
    /\ \A h \in Hrefs : h = q.r.href => Resource(h)' \in w
    /\ cards[q.id][q.r.href] \in w /\ cards'[q.id][q.r.href] \in w
    /\ q.seen \in w \cup {NoRow}
    /\ q.id \notin Live \/ q.id \notin Live' => NoRow \in w
    /\ q.pc = "created" => NoRow \in w
    /\ q.pc = "read" /\ q.r.op = "delete" => q.r.match # Unconditional

LEMMA KnowsSeen ==
    ASSUME HandlerInv, NEW c \in Clients, call[c].pc # "idle", Knows(call[c], window[c]),
           \A id \in BookIds, h \in Hrefs : Shows(id, h)
    PROVE  Seen(c)
<1> DEFINE q == call[c]  w == WindowNow(c)
<1>1. PICK id \in BookIds, h \in Hrefs : id = q.id /\ h = q.r.href
  <2>1. q.r \in Requests /\ q.id \in BookIds
    BY DEF HandlerInv, KeepsWhatMatched, Kept
  <2>. QED  BY <2>1, RequestFields
<1>2. w = window[c] \cup {Resource(h)'}
  <2>1. {g \in Hrefs : call[c].r.href = g} = {h}
    BY <1>1
  <2>2. w = window[c] \cup {Resource(g)' : g \in {h}}
    BY <2>1 DEF WindowNow
  <2>3. {Resource(g)' : g \in {h}} = {Resource(h)'}
    OBVIOUS
  <2>. QED  BY <2>2, <2>3
<1>3. IsFiniteSet(window[c]) /\ IsFiniteSet(w)
  BY <1>2, FS_AddElement DEF Knows
<1>4. Shows(id, h)
  OBVIOUS
<1>5. \A g \in Hrefs : g = q.r.href => Resource(g)' \in w
  BY <1>1, <1>2
<1>. QED  BY <1>1, <1>2, <1>3, <1>4, <1>5 DEF Seen, Knows, Shows

\* A request that goes on goes on knowing; one that ends answers truly.
Goes(c) ==
    /\ call'[c].pc # "idle" => Knows(call[c], window[c])'
    /\ call'[c].pc = "idle" =>
          TrueAnswer(call[c].r, call'[c].status, call'[c].etag, WindowNow(c))

LEMMA TwoCards == ASSUME NEW S, IsFiniteSet(S), NEW x \in S, NEW y \in S, x # y PROVE Cardinality(S) > 1
<1>1. IsFiniteSet({x}) /\ Cardinality({x}) = 1
  BY FS_Singleton
<1>2. IsFiniteSet({x} \cup {y}) /\ Cardinality({x} \cup {y}) = 2
  BY <1>1, FS_AddElement
<1>3. ({x} \cup {y}) \in SUBSET S
  OBVIOUS
<1>4. Cardinality({x} \cup {y}) <= Cardinality(S)
  BY <1>3, FS_Subset
<1>5. Cardinality(S) \in Nat
  BY FS_CardinalityType
<1>. QED  BY <1>2, <1>4, <1>5

LEMMA FindKnows ==
    ASSUME HandlerInv, OneCollection, NEW c \in Clients, NEW r \in Requests, Find(c, r), Watch
    PROVE  Knows(call[c], window[c])'
<1> DEFINE pc == IF r.op = "delete" /\ r.match = Unconditional THEN "write" ELSE "read"
<1>1. TypeOK /\ HandlerTypeOK /\ ResourceShows /\ AddressbookOf(Username, Slug) = Live
  BY ResourceShown, BookIsLive DEF HandlerInv, HandlerTypeOK
<1>2. CASE Live = {}
  <2>1. call'[c].pc = "idle"
    BY <1>1, <1>2, Answered DEF Find, FindBook
  <2>2. window'[c] = {}
    BY <2>1 DEF Watch
  <2>. QED  BY <2>1, <2>2, FS_EmptySet DEF Knows
<1>3. CASE Live # {}
  <2>1. PICK id \in Live : call' = [call EXCEPT ![c] = [Idle EXCEPT !.pc = pc, !.r = r, !.id = id]]
    BY <1>1, <1>3 DEF Find, FindBook
  <2>2. /\ call[c].pc = "idle" /\ call'[c].pc = pc /\ call'[c].pc \in {"read", "write"}
        /\ call'[c].r = r /\ call'[c].id = id /\ call'[c].seen = NoRow
    BY <1>1, <2>1 DEF Find, HandlerTypeOK, Idle
  <2>3. window'[c] = {Resource(r.href)}
    <3>1. {g \in Hrefs : call'[c].r.href = g} = {r.href}
      BY <2>2, RequestFields
    <3>2. window'[c] = {Resource(h) : h \in {r.href}}
      BY <2>2, <3>1 DEF Watch
    <3>. QED  BY <3>2
  <2>4. Resource(r.href) = cards[id][r.href]
    BY <1>1, RequestFields DEF ResourceShows
  <2>5. cards' = cards /\ Live' = Live
    BY DEF Find, storeVars, Live
  <2>6. IsFiniteSet(window'[c])
    BY <2>3, FS_Singleton
  <2>7. pc = "read" /\ r.op = "delete" => r.match # Unconditional
    OBVIOUS
  <2>. HIDE DEF pc
  <2>. QED  BY <2>2, <2>3, <2>4, <2>5, <2>6, <2>7 DEF Knows
<1>. QED  BY <1>2, <1>3

LEMMA ReadCardGoes ==
    ASSUME HandlerInv, NEW c \in Clients, ReadCard(c), Watch, Seen(c)
    PROVE  Goes(c)
<1> DEFINE q == call[c]  r == q.r  card == cards[q.id][r.href]  w == WindowNow(c)
           Truth == TrueAnswer(r, call'[c].status, call'[c].etag, w)
<1>1. /\ HandlerTypeOK /\ r \in Requests /\ r.op \in {"get", "put", "delete"} /\ q.pc = "read"
      /\ r.match \in Header /\ r.noneMatch \in Header
  BY RequestFields DEF HandlerInv, KeepsWhatMatched, Kept, ReadCard
<1>2. card \in w /\ cards' = cards /\ Live' = Live
  BY DEF ReadCard, Seen, storeVars, Live
<1>3. ASSUME card = NoRow, Answer(c, "missing", NoRow) PROVE Truth /\ call'[c].pc = "idle"
  <2>1. call'[c].pc = "idle" /\ call'[c].status = "missing"
    BY <1>1, <1>3, Answered
  <2>. QED  BY <1>2, <1>3, <2>1 DEF TrueAnswer
<1>4. ASSUME card # NoRow, Answer(c, "ok", card.etag) PROVE Truth /\ call'[c].pc = "idle"
  <2>1. call'[c].pc = "idle" /\ call'[c].status = "ok" /\ call'[c].etag = card.etag
    BY <1>1, <1>4, Answered
  <2>. QED  BY <1>2, <1>4, <2>1 DEF TrueAnswer
<1>5. ASSUME Refused(r, card), Answer(c, "refused", NoRow) PROVE Truth /\ call'[c].pc = "idle"
  <2>1. call'[c].pc = "idle" /\ call'[c].status = "refused"
    BY <1>1, <1>5, Answered
  <2>2. r.match # Unconditional /\ card # NoRow /\ ~Matches(r.match, card)
        => r.match \in ETags /\ card.etag # r.match
    BY <1>1, HandlerAssumption DEF Header, Matches
  <2>. QED  BY <1>2, <1>5, <2>1, <2>2 DEF TrueAnswer, Refused
<1>6. ASSUME NEW pc \in {"write", "find"}, call' = [call EXCEPT ![c].pc = pc, ![c].seen = card]
      PROVE  Goes(c)
  <2>1. call'[c].pc = pc /\ call'[c].r = r /\ call'[c].id = q.id /\ call'[c].seen = card
    BY <1>1, <1>6 DEF HandlerTypeOK, Call
  <2>2. window'[c] = w
    BY <1>1, <2>1 DEF Watch
  <2>. QED  BY <1>2, <2>1, <2>2 DEF Goes, Knows, Seen
<1>7. CASE r.op = "get"
  BY <1>3, <1>4, <1>7 DEF ReadCard, Goes
<1>8. CASE r.op = "put"
  BY <1>5, <1>6, <1>8 DEF ReadCard, Goes
<1>9. CASE r.op = "delete"
  <2>1. card # NoRow /\ ~Matches(r.match, card) => Refused(r, card)
    BY <1>1, <1>9 DEF Seen, Refused
  <2>. QED  BY <1>3, <1>5, <1>6, <1>9, <2>1 DEF ReadCard, Goes
<1>. QED  BY <1>1, <1>7, <1>8, <1>9

LEMMA FindAgainGoes ==
    ASSUME HandlerInv, OneCollection, OneCollection', TypeOK', NEW c \in Clients,
           FindAgain(c), Watch, Seen(c)
    PROVE  Goes(c)
<1> DEFINE q == call[c]  w == WindowNow(c)
<1>1. PICK h \in Hrefs : h = q.r.href
  BY RequestFields DEF HandlerInv, KeepsWhatMatched, Kept, FindAgain
<1>2. TypeOK /\ HandlerTypeOK /\ AddressbookOf(Username, Slug) = Live
  BY BookIsLive DEF HandlerInv, HandlerTypeOK
<1>3. (TypeOK /\ OneCollection => ResourceShows)'
  BY ResourceShown, PTL
<1>4. Resource(h)' \in w /\ cards' = cards /\ Live' = Live
  BY <1>1 DEF Seen, FindAgain, storeVars, Live
<1>5. CASE Live = {}
  <2>1. call'[c].pc = "idle" /\ call'[c].status = "missing"
    BY <1>2, <1>5, Answered DEF FindAgain
  <2>2. NoRow \in w
    BY <1>3, <1>4, <1>5 DEF ResourceShows
  <2>. QED  BY <2>1, <2>2 DEF Goes, TrueAnswer
<1>6. CASE Live # {}
  <2>1. PICK id \in Live : call' = [call EXCEPT ![c].pc = "write", ![c].id = id]
    BY <1>2, <1>6 DEF FindAgain
  <2>2. /\ q.pc = "find" /\ call'[c].pc = "write"
        /\ call'[c].r = q.r /\ call'[c].id = id /\ call'[c].seen = q.seen
    BY <1>2, <2>1 DEF FindAgain, HandlerTypeOK, Call
  <2>3. window'[c] = w
    BY <2>2 DEF Watch
  <2>4. cards'[id][h] \in w
    BY <1>3, <1>4 DEF ResourceShows
  <2>. QED  BY <1>1, <1>4, <2>2, <2>3, <2>4 DEF Goes, Knows, Seen
<1>. QED  BY <1>5, <1>6

LEMMA RereadGoes ==
    ASSUME HandlerInv, NEW c \in Clients, Reread(c), Seen(c)
    PROVE  Goes(c)
<1> DEFINE q == call[c]  card == cards[q.id][q.r.href]  w == WindowNow(c)
<1>1. card \in w /\ (q.pc = "created" => NoRow \in w)
  BY DEF Seen
<1>2. HandlerTypeOK /\ q.pc \in {"created", "updated"}
  BY DEF HandlerInv, Reread
<1>3. CASE card = NoRow
  <2>1. call'[c].pc = "idle" /\ call'[c].status = "missing"
    BY <1>2, <1>3, Answered DEF Reread
  <2>. QED  BY <1>1, <1>3, <2>1 DEF Goes, TrueAnswer
<1>4. CASE card # NoRow
  <2>1. call'[c].pc = "idle" /\ call'[c].status = q.pc /\ call'[c].etag = card.etag
    BY <1>2, <1>4, Answered DEF Reread
  <2>. QED  BY <1>1, <1>2, <1>4, <2>1 DEF Goes, TrueAnswer
<1>. QED  BY <1>3, <1>4

\* A card that a condition excludes is another one than the card that passed the
\* test, and if the header is an ETag, it has another ETag.
LEMMA ConditionGone ==
    ASSUME NEW r \in Requests, r.match # Unconditional, NEW seen \in Card, Matches(r.match, seen),
           NEW card \in Card \cup {NoRow}, ~Holds(seen.etag, card),
           NEW w, IsFiniteSet(w), card \in w, seen \in w, NEW etag
    PROVE  TrueAnswer(r, "refused", etag, w)
<1>1. card = NoRow \/ card.etag # seen.etag
  BY DEF Holds
<1>2. r.match \in ETags => seen.etag = r.match
  BY RequestFields, MatchNamesETag
<1>3. r.match \in ETags \/ r.match = Wildcard
  BY RequestFields, HandlerAssumption DEF Header
<1>4. CASE card = NoRow
  BY <1>4 DEF TrueAnswer
<1>5. CASE card # NoRow /\ r.match \in ETags
  BY <1>1, <1>2, <1>5 DEF TrueAnswer
<1>6. CASE card # NoRow /\ r.match = Wildcard
  <2>1. Cardinality(w) > 1
    BY <1>1, <1>6, TwoCards
  <2>. QED  BY <1>6, <2>1 DEF TrueAnswer
<1>. QED  BY <1>3, <1>4, <1>5, <1>6

LEMMA WriteCardGoes ==
    ASSUME HandlerInv, NEW c \in Clients, WriteCard(c), Watch, Seen(c)
    PROVE  Goes(c)
<1> DEFINE q == call[c]  r == q.r  id == q.id  card == cards[id][r.href]  w == WindowNow(c)
           in == [href |-> r.href, uid |-> r.uid, etag |-> r.text]
           cond == Condition(r, q.seen)
<1>1. /\ TypeOK /\ HandlerTypeOK /\ q \in Call /\ r \in Requests /\ id \in BookIds
      /\ q.pc = "write" /\ r.op = "put" /\ r.href \in Hrefs
      /\ r.match \in Header /\ r.noneMatch \in Header
      /\ r.match = Unconditional \/ r.noneMatch = Unconditional
  <2>1. r \in Requests
    BY DEF HandlerInv, KeepsWhatMatched, Kept, WriteCard
  <2>2. r.match = Unconditional \/ r.noneMatch = Unconditional
    BY <2>1 DEF Requests
  <2>. QED  BY <2>1, <2>2, RequestFields DEF HandlerInv, HandlerTypeOK, KeepsWhatMatched, Kept, WriteCard
<1>2. card \in w /\ IsFiniteSet(w) /\ card \in Card \cup {NoRow}
  BY <1>1 DEF Seen, TypeOK
<1>3. ASSUME ~Holds(cond, card), Answer(c, "refused", NoRow) PROVE Goes(c)
  <2>1. call'[c].pc = "idle" /\ call'[c].status = "refused"
    BY <1>1, <1>3, Answered
  <2>2. CASE r.match # Unconditional
    <3>1. q.seen \in Card /\ Matches(r.match, q.seen)
      BY <1>1, <2>2 DEF HandlerInv, KeepsWhatMatched, Kept, Call
    <3>2. q.seen \in w
      BY <3>1, NoRowAssumption DEF Seen
    <3>3. cond = q.seen.etag
      BY <1>1, <2>2, HandlerAssumption DEF Condition
    <3>4. TrueAnswer(r, "refused", call'[c].etag, w)
      BY <1>1, <1>2, <1>3, <2>2, <3>1, <3>2, <3>3, ConditionGone
    <3>. QED  BY <2>1, <3>4 DEF Goes
  <2>3. CASE r.match = Unconditional
    <3>1. r.noneMatch = Wildcard /\ card # NoRow /\ r.noneMatch # Unconditional
      BY <1>3, <2>3, HandlerAssumption DEF Condition, Holds
    <3>2. Matches(r.noneMatch, card)
      BY <3>1 DEF Matches
    <3>. QED  BY <1>2, <2>1, <3>1, <3>2 DEF Goes, TrueAnswer
  <2>. QED  BY <2>2, <2>3
<1>4. ASSUME ~UidFree(cards[id], in), Answer(c, "conflict", NoRow) PROVE Goes(c)
  <2>1. call'[c].pc = "idle" /\ call'[c].status = "conflict"
    BY <1>1, <1>4, Answered
  <2>2. \E h \in Hrefs \ {r.href} : cards[id][h] # NoRow /\ cards[id][h].uid = r.uid
    BY <1>4 DEF UidFree
  <2>. QED  BY <1>1, <2>1, <2>2 DEF Goes, TrueAnswer
<1>5. ASSUME id \notin Live, Answer(c, "error", NoRow) PROVE Goes(c)
  <2>1. call'[c].pc = "idle" /\ call'[c].status = "error"
    BY <1>1, <1>5, Answered
  <2>. QED  BY <1>5, <2>1 DEF Goes, TrueAnswer, Seen
<1>6. ASSUME NEW pc \in {"created", "updated"}, pc = "created" => card = NoRow,
             call' = [call EXCEPT ![c].seen = NoRow, ![c].pc = pc]
      PROVE  Goes(c)
  <2>1. call'[c].pc = pc /\ call'[c].r = r /\ call'[c].id = id /\ call'[c].seen = NoRow
    BY <1>1, <1>6 DEF HandlerTypeOK, Call
  <2>2. window'[c] = w
    BY <1>1, <2>1 DEF Watch
  <2>. QED  BY <1>2, <1>6, <2>1, <2>2 DEF Goes, Knows, Seen
<1>7. \/ ~Holds(cond, card) /\ Answer(c, "refused", NoRow)
      \/ ~UidFree(cards[id], in) /\ Answer(c, "conflict", NoRow)
      \/ id \notin Live /\ Answer(c, "error", NoRow)
      \/ call' = [call EXCEPT ![c].seen = NoRow, ![c].pc = IF card = NoRow THEN "created" ELSE "updated"]
  BY DEF WriteCard
<1>. HIDE DEF cond, in
<1>. QED  BY <1>3, <1>4, <1>5, <1>6, <1>7

LEMMA EraseCardGoes ==
    ASSUME HandlerInv, NEW c \in Clients, EraseCard(c), Seen(c)
    PROVE  Goes(c)
<1> DEFINE q == call[c]  r == q.r  id == q.id  card == cards[id][r.href]  w == WindowNow(c)
           cond == IF r.match = Unconditional THEN Unconditional ELSE q.seen.etag
<1>1. /\ TypeOK /\ HandlerTypeOK /\ q \in Call /\ r \in Requests /\ id \in BookIds
      /\ q.pc = "write" /\ r.href \in Hrefs
  <2>1. r \in Requests
    BY DEF HandlerInv, KeepsWhatMatched, Kept, EraseCard
  <2>. QED  BY <2>1, RequestFields DEF HandlerInv, HandlerTypeOK, KeepsWhatMatched, Kept, EraseCard
<1>2. card \in w /\ IsFiniteSet(w) /\ card \in Card \cup {NoRow}
  BY <1>1 DEF Seen, TypeOK
<1>3. ASSUME card = NoRow, Answer(c, "missing", NoRow) PROVE Goes(c)
  <2>1. call'[c].pc = "idle" /\ call'[c].status = "missing"
    BY <1>1, <1>3, Answered
  <2>. QED  BY <1>2, <1>3, <2>1 DEF Goes, TrueAnswer
<1>4. ASSUME ~Holds(cond, card), Answer(c, "refused", NoRow) PROVE Goes(c)
  <2>1. call'[c].pc = "idle" /\ call'[c].status = "refused"
    BY <1>1, <1>4, Answered
  <2>2. r.match # Unconditional
    BY <1>4 DEF Holds
  <2>3. q.seen \in Card /\ Matches(r.match, q.seen)
    BY <1>1, <2>2 DEF HandlerInv, KeepsWhatMatched, Kept, Call
  <2>4. q.seen \in w
    BY <2>3, NoRowAssumption DEF Seen
  <2>5. TrueAnswer(r, "refused", call'[c].etag, w)
    BY <1>1, <1>2, <1>4, <2>2, <2>3, <2>4, ConditionGone
  <2>. QED  BY <2>1, <2>5 DEF Goes
<1>5. ASSUME id \notin Live, Answer(c, "error", NoRow) PROVE Goes(c)
  <2>1. call'[c].pc = "idle" /\ call'[c].status = "error"
    BY <1>1, <1>5, Answered
  <2>. QED  BY <1>5, <2>1 DEF Goes, TrueAnswer, Seen
<1>6. ASSUME card # NoRow, DeleteCard(id, r.href, cond), Answer(c, "deleted", NoRow) PROVE Goes(c)
  <2>1. call'[c].pc = "idle" /\ call'[c].status = "deleted"
    BY <1>1, <1>6, Answered
  <2>2. cards'[id][r.href] = NoRow
    BY <1>1, <1>6 DEF DeleteCard, TypeOK
  <2>. QED  BY <1>2, <1>6, <2>1, <2>2 DEF Goes, TrueAnswer, Seen
<1>7. \/ card = NoRow /\ Answer(c, "missing", NoRow)
      \/ ~Holds(cond, card) /\ Answer(c, "refused", NoRow)
      \/ id \notin Live /\ Answer(c, "error", NoRow)
      \/ card # NoRow /\ DeleteCard(id, r.href, cond) /\ Answer(c, "deleted", NoRow)
  BY DEF EraseCard
<1>. HIDE DEF cond
<1>. QED  BY <1>3, <1>4, <1>5, <1>6, <1>7

\* A step of a request leads it on or to a true answer.
LEMMA RequestGoes ==
    ASSUME HandlerInv, OneCollection, OneCollection', TypeOK', NEW c \in Clients,
           RequestStep(c), Watch, call[c].pc # "idle", Seen(c)
    PROVE  Goes(c)
<1>1. \A r \in Requests : ~Find(c, r)
  BY DEF Find
<1>. QED  BY <1>1, ReadCardGoes, FindAgainGoes, WriteCardGoes, RereadGoes, EraseCardGoes DEF RequestStep

\* Others' steps add to what a request can know.
LEMMA OthersInform ==
    ASSUME HandlerInv, NEW c \in Clients, call'[c] = call[c], Watch,
           Knows(call[c], window[c]), call[c].pc # "idle" => Seen(c)
    PROVE  Knows(call[c], window[c])'
<1>1. CASE call[c].pc = "idle"
  <2>1. window'[c] = {} /\ call'[c].pc = "idle"
    BY <1>1 DEF Watch
  <2>. QED  BY <2>1, FS_EmptySet DEF Knows
<1>2. CASE call[c].pc # "idle"
  <2>1. window'[c] = WindowNow(c)
    BY <1>2 DEF Watch
  <2>. QED  BY <1>2, <2>1 DEF Knows, Seen
<1>. QED  BY <1>1, <1>2

LEMMA TruthStep ==
    ASSUME TruthInv, HandlerNext
    PROVE  /\ OneCollection' /\ Informed'
           /\ \A c \in Clients : call[c].pc # "idle" /\ call'[c].pc = "idle" =>
                 TrueAnswer(call[c].r, call'[c].status, call'[c].etag, WindowNow(c))
<1>1. HandlerInv /\ OneCollection /\ TypeOK /\ TypeOK' /\ Watch
  BY HandlerStep DEF TruthInv, HandlerInv, HandlerTypeOK, HandlerNext
<1>2. OneCollection' /\ \A id \in BookIds, h \in Hrefs : Shows(id, h)
  BY <1>1, HandlerMoves, MoveShows
<1>3. \A c \in Clients : Knows(call[c], window[c]) /\ (call[c].pc # "idle" => Seen(c))
  BY <1>1, <1>2, KnowsSeen DEF TruthInv, Informed
<1>4. ASSUME NEW c \in Clients, call'[c] = call[c] PROVE Knows(call[c], window[c])'
  BY <1>1, <1>3, <1>4, OthersInform
<1>5. ASSUME NEW d \in Clients, RequestStep(d)
      PROVE  /\ Informed'
             /\ \A c \in Clients : call[c].pc # "idle" /\ call'[c].pc = "idle" =>
                   TrueAnswer(call[c].r, call'[c].status, call'[c].etag, WindowNow(c))
  <2>1. \A c \in Clients \ {d} : call'[c] = call[c]
    BY <1>1, <1>5, RequestStepKept DEF HandlerInv
  <2>2. CASE call[d].pc = "idle"
    <3>1. PICK r \in Requests : Find(d, r)
      BY <1>5, <2>2 DEF RequestStep, ReadCard, FindAgain, WriteCard, Reread, EraseCard
    <3>2. Knows(call[d], window[d])'
      BY <1>1, <3>1, FindKnows
    <3>. QED  BY <1>4, <2>1, <2>2, <3>2 DEF Informed
  <2>3. CASE call[d].pc # "idle"
    <3>1. Goes(d)
      BY <1>1, <1>2, <1>3, <1>5, <2>3, RequestGoes
    <3>2. call'[d].pc = "idle" => window'[d] = {}
      BY <1>1 DEF Watch
    <3>3. Knows(call[d], window[d])'
      BY <3>1, <3>2, FS_EmptySet DEF Goes, Knows
    <3>. QED  BY <1>4, <2>1, <3>1, <3>3 DEF Informed, Goes
  <2>. QED  BY <2>2, <2>3
<1>6. CASE RemoveCollection \/ MakeCollection
  <2>1. \A c \in Clients : call'[c] = call[c]
    BY <1>6 DEF RemoveCollection, MakeCollection
  <2>2. Informed'
    BY <1>4, <2>1 DEF Informed
  <2>. QED  BY <1>2, <2>1, <2>2
<1>. QED  BY <1>2, <1>5, <1>6 DEF HandlerNext

LEMMA TruthStart == HandlerInit => TruthInv
<1>. SUFFICES ASSUME HandlerInit PROVE TruthInv
  OBVIOUS
<1>1. 1 \in UserIds
  BY HandlerAssumption, BoundsAssumption DEF UserIds
<1>2. [name |-> Username, hash |-> CHOOSE p \in Hashes : TRUE] # NoRow
  <2>1. (CHOOSE p \in Hashes : TRUE) \in Hashes
    BY HandlerAssumption
  <2>. QED  BY <2>1, HandlerAssumption, NoRowAssumption DEF UserRow
<1>3. OneCollection
  BY <1>1, <1>2 DEF HandlerInit, OneCollection, Live
<1>4. Informed
  BY FS_EmptySet DEF HandlerInit, Informed, Knows, Idle
<1>. QED  BY <1>3, <1>4, HandlerStart DEF TruthInv

\* Every answer to a GET, PUT or DELETE was true of the card at some moment of the
\* request, whatever is written and however often the collection is deleted and made
\* again between two calls of a handler (writeBackendError, checkConditional,
\* putAddressObject).
THEOREM AnswersTrue == HandlerSpec => AnswersAreTrue
<1> DEFINE Answers(c) == call[c].pc # "idle" /\ call'[c].pc = "idle" =>
                           TrueAnswer(call[c].r, call'[c].status, call'[c].etag, WindowNow(c))
<1>1. TruthInv /\ [HandlerNext]_vars => TruthInv'
  <2>. SUFFICES ASSUME TruthInv, [HandlerNext]_vars PROVE TruthInv'
    OBVIOUS
  <2>1. HandlerInv'
    BY HandlerStep DEF TruthInv
  <2>2. CASE HandlerNext
    BY <2>1, <2>2, TruthStep DEF TruthInv
  <2>3. CASE UNCHANGED vars
    BY <2>1, <2>3 DEF vars, storeVars, handlerVars, TruthInv, OneCollection, Informed, Knows, Live
  <2>. QED  BY <2>2, <2>3
<1>2. TruthInv /\ [HandlerNext]_vars => [\A c \in Clients : Answers(c)]_vars
  BY TruthStep
<1>. QED  BY <1>1, <1>2, TruthStart, PTL DEF HandlerSpec, AnswersAreTrue
=============================================================================
