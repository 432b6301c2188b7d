------------------------------ MODULE Reports ------------------------------
(***************************************************************************)
(* PROPFIND, PROPPATCH, MKCOL and the addressbook-query and -multiget      *)
(* reports (src/internal/server/handler.go), run against the store while   *)
(* others write to it.  Each is a sequence of calls of the store, and each *)
(* call is a step:                                                         *)
(*     PROPFIND  Ask -> ReadState -> ReadState [-> FindAnew -> ListRows]   *)
(*     query     Ask -> ListRows -> (FindAnew -> GetRow) ...               *)
(*     multiget  Ask -> (FindAnew -> GetRow) ...                           *)
(*     MKCOL     Ask -> InsertBook [-> DescribeBook]                       *)
(*     PROPPATCH Ask                                                       *)
(* Any of these calls may fail instead, which ends the request (Fail).     *)
(*                                                                         *)
(* The answer stays in ask[c] until the reader's next request.  `been' is  *)
(* a history variable: the ETags that each card of the collection has had  *)
(* since the request began.                                                *)
(***************************************************************************)
EXTENDS Collection, SequencesExt

CONSTANTS
    Readers,          \* the clients that send these requests
    Displays, Descs,  \* displayname, addressbook-description
    SlugName,         \* the displayname a collection gets when none is asked for
    Blank,            \* the empty description
    MaxOps            \* bound: properties in a PROPPATCH, hrefs in a multiget

\* What CollectionState returns.
State == [id : BookIds, rev : 0 .. MaxRev]

ASSUME ReportAssumption ==
    /\ Names = [display : Displays, desc : Descs]
    /\ SlugName \in Displays /\ Blank \in Descs /\ MaxOps \in Nat
    /\ NoRow \notin Displays /\ NoRow \notin Descs
    /\ NoRow \notin State
    /\ Hrefs \cap {"token", "ctag", "cards"} = {} \* the two kinds of work differ

VARIABLES ask, been
reportVars == <<ask, been>>
vars == <<storeVars, reportVars>>

Lists(S) == UNION {[1 .. n -> S] : n \in 1 .. MaxOps}

\* A name that PROPPATCH does not support stands for itself.
PatchOp == [prop : {"display"}, value : Displays] \cup [prop : {"desc"}, value : Descs]
           \cup {[prop |-> "unsupported", value |-> Blank]}

\* props are the properties in the order the request names them.
Queries ==
    [op : {"propfind"}, depth : {0, 1}, props : {<<"token", "ctag">>, <<"ctag", "token">>}]
    \cup [op : {"home"}, props : {<<"token", "ctag">>, <<"ctag", "token">>}]
    \cup [op : {"query"}]
    \cup [op : {"multiget"}, hrefs : Lists(Hrefs)]
    \cup [op : {"mkcol"}, display : Displays \cup {NoRow}, desc : (Descs \ {Blank}) \cup {NoRow}]
    \cup [op : {"proppatch"}, ops : Lists(PatchOp)]

\* One response of a report: getetag and address-data, NoRow where there is none.
NoResponse == [etag |-> NoRow, data |-> NoRow]

\* todo is the work a request has left: properties that need the collection's
\* state, "cards" for the listing of its cards, and hrefs of cards to read.
Quiet == [pc |-> "idle", status |-> "none", q |-> NoRow, id |-> 0, todo |-> <<>>,
          state |-> [token |-> NoRow, ctag |-> NoRow], out |-> [h \in Hrefs |-> NoResponse]]

-----------------------------------------------------------------------------
(* Mutations of the definitions below, each a plausible bug *)

CardsFirst(q) == IF q.depth = 1 THEN <<"cards">> \o q.props ELSE q.props
CTagReadAgain(a) == FALSE                                \* collectionState not kept
FirstOfMultiget(a) == IF a.q.op = "multiget" THEN a.q.hrefs[1] ELSE Head(a.todo)
SecondCallIgnored(a) == IF a.pc = "describe" THEN "created" ELSE "error"
DescribedAnew(name, q) == [name EXCEPT !.desc = IF q.desc = NoRow THEN @ ELSE q.desc] \* INSERT named it

-----------------------------------------------------------------------------
(* What a request asks for *)

\* propfindAddressbook: the properties of the collection, then its cards.
Work(q) == IF q.depth = 1 THEN Append(q.props, "cards") ELSE q.props

\* handleAddressbookMultiGet answers a repeated href once.
Distinct(s) ==
    CHOOSE d \in Lists(Range(s)) :
        /\ Range(d) = Range(s)
        /\ \A i, j \in DOMAIN d : i < j =>
              \E k \in DOMAIN s : s[k] = d[i] /\ \A m \in 1 .. k : s[m] # d[j]

\* handleProppatch: the last operation on a property decides it, and what is not
\* supported is left out (it is reported with 403).
Patched(name, ops) ==
    [prop \in DOMAIN name |->
        LET on == {i \in DOMAIN ops : ops[i].prop = prop}
        IN  IF on = {} THEN name[prop] ELSE ops[Max(on)].value]
Supported(ops) == \E i \in DOMAIN ops : ops[i].prop # "unsupported"

\* The second call of MKCOL passes what the request names.
Described(name, q) ==
    [display |-> IF q.display = NoRow THEN name.display ELSE q.display,
     desc |-> IF q.desc = NoRow THEN name.desc ELSE q.desc]

-----------------------------------------------------------------------------
(* Steps of a request *)

Set(c, a) == ask' = [ask EXCEPT ![c] = a]
Reply(c, status) == Set(c, [Quiet EXCEPT !.status = status])

\* The first piece of work is done.
Done(a) == IF Len(a.todo) <= 1 THEN [a EXCEPT !.pc = "idle", !.status = "ok", !.q = NoRow, !.todo = <<>>]
           ELSE [a EXCEPT !.pc = "next", !.todo = Tail(@)]

\* GetAddressBook for PROPFIND and multiget, ListAddressBooks for the principal,
\* the first lookup of a query.
Begin(c, q) ==
    LET a == [Quiet EXCEPT !.q = q] IN
    /\ UNCHANGED storeVars
    /\ IF Found = {} THEN Reply(c, IF q.op = "home" THEN "ok" ELSE "missing")
       ELSE \/ q.op = "propfind" /\ Set(c, [a EXCEPT !.pc = "next", !.todo = Work(q)])
            \/ q.op = "home" /\ Set(c, [a EXCEPT !.pc = "next", !.todo = q.props])
            \/ q.op = "multiget" /\ Set(c, [a EXCEPT !.pc = "next", !.todo = Distinct(q.hrefs)])
            \/ q.op = "query" /\ \E id \in Found :
                  Set(c, [a EXCEPT !.pc = "rows", !.id = id, !.todo = <<"cards">>])

\* EnsureAddressbook's SELECT.
BeginMkcol(c, q) ==
    /\ IF Found # {} THEN Reply(c, "exists") ELSE Set(c, [Quiet EXCEPT !.q = q, !.pc = "insert"])
    /\ UNCHANGED storeVars

Proppatch(c, q) ==
    IF ~Supported(q.ops) THEN Reply(c, "patched") /\ UNCHANGED storeVars
    ELSE IF Found = {} THEN Reply(c, "missing") /\ UNCHANGED storeVars
    ELSE /\ Reply(c, "patched")
         /\ \E id \in Found : UpdateAddressbookMetadata(Username, Slug, Patched(books[id].name, q.ops))

Ask(c, q) ==
    /\ ask[c].pc = "idle"
    /\ CASE q.op = "mkcol"     -> BeginMkcol(c, q)
         [] q.op = "proppatch" -> Proppatch(c, q)
         [] OTHER              -> Begin(c, q)

\* getctag uses the state that sync-token read; sync-token always reads.
Reuses(a) == Head(a.todo) = "ctag" /\ a.state.token # NoRow

\* CollectionState, by name: its "not found" has no status of its own and is a 500.
ReadState(c) ==
    LET a == ask[c] IN
    /\ a.pc = "next" /\ Head(a.todo) \in {"token", "ctag"}
    /\ IF Reuses(a) THEN Set(c, Done([a EXCEPT !.state.ctag = a.state.token]))
       ELSE IF Found = {} THEN Reply(c, "error")
       ELSE \E id \in Found :
              Set(c, Done([a EXCEPT !.state[Head(a.todo)] = [id |-> id, rev |-> books[id].revision]]))
    /\ UNCHANGED storeVars

\* ListAddressObjects and GetAddressObjectWithRaw look the collection up again.
FindAnew(c) ==
    LET a == ask[c] IN
    /\ a.pc = "next" /\ Head(a.todo) \notin {"token", "ctag"}
    /\ IF Found # {}
       THEN \E id \in Found :
              Set(c, [a EXCEPT !.id = id, !.pc = IF Head(a.todo) = "cards" THEN "rows" ELSE "row"])
       ELSE IF a.q.op = "multiget" THEN Set(c, Done(a)) ELSE Reply(c, "missing")
    /\ UNCHANGED storeVars

\* ListCards: a PROPFIND is answered with the rows, a query reads each card again.
ListRows(c) ==
    LET a == ask[c]
        there == {h \in Hrefs : cards[a.id][h] # NoRow}
        rows == [h \in Hrefs |-> IF h \in there THEN [NoResponse EXCEPT !.etag = cards[a.id][h].etag]
                                 ELSE NoResponse]
    IN
    /\ a.pc = "rows"
    /\ IF a.q.op = "query" /\ there # {}
       THEN \E order \in SetToSeqs(there) : Set(c, [a EXCEPT !.out = rows, !.pc = "next", !.todo = order])
       ELSE Set(c, Done([a EXCEPT !.out = rows]))
    /\ UNCHANGED storeVars

\* The card a response is about.
Wanted(a) == Head(a.todo)

\* GetCard: no row is a response with status 404 in a multiget and the end of a query.
GetRow(c) ==
    LET a    == ask[c]
        card == cards[a.id][Wanted(a)]
        h    == Head(a.todo)
    IN
    /\ a.pc = "row"
    /\ IF card = NoRow THEN IF a.q.op = "multiget" THEN Set(c, Done(a)) ELSE Reply(c, "missing")
       ELSE IF a.q.op = "multiget"
       THEN Set(c, Done([a EXCEPT !.out[h] = [etag |-> card.etag, data |-> card.etag]]))
       ELSE Set(c, Done([a EXCEPT !.out[h].data = card.etag]))
    /\ UNCHANGED storeVars

\* CreateAddressbook: a duplicate is answered like a collection that was there.
InsertBook(c) ==
    LET q == ask[c].q
        name == [display |-> IF q.display = NoRow THEN SlugName ELSE q.display, desc |-> Blank]
    IN
    /\ ask[c].pc = "insert"
    /\ IF Found # {} THEN Reply(c, "exists") /\ UNCHANGED storeVars
       ELSE /\ \E u \in UserIds, fk \in ForeignKeys :
                 /\ users[u] # NoRow /\ users[u].name = Username
                 /\ CreateAddressbook(u, Slug, name, fk)
            /\ IF q.display = NoRow /\ q.desc = NoRow THEN Reply(c, "created")
               ELSE Set(c, [ask[c] EXCEPT !.pc = "describe", !.id = NewBookId])

\* UpdateAddressBookMetadata of whatever collection has the path by now; no row is a 404.
DescribeBook(c) ==
    /\ ask[c].pc = "describe"
    /\ IF Found = {} THEN Reply(c, "missing") /\ UNCHANGED storeVars
       ELSE /\ Reply(c, "created")
            /\ \E id \in Found :
                 UpdateAddressbookMetadata(Username, Slug, Described(books[id].name, ask[c].q))

\* The next call of the store fails for a reason of its own (an SQL error, the lock not
\* free in time, a context cancelled), a 500.  That call has changed nothing; what an
\* earlier one committed stays, so a failing UPDATE leaves what MKCOL's INSERT made.
FailStatus(a) == "error"
Fail(c) ==
    /\ ask[c].pc # "idle"
    /\ Reply(c, FailStatus(ask[c]))
    /\ UNCHANGED storeVars

ReaderStep(c) ==
    \/ \E q \in Queries : Ask(c, q)
    \/ ReadState(c)
    \/ FindAnew(c)
    \/ ListRows(c)
    \/ GetRow(c)
    \/ InsertBook(c)
    \/ DescribeBook(c)
    \/ Fail(c)

-----------------------------------------------------------------------------
\* What card h has been since c's request began, this step included.
BeenNow(c, h) == been[c][h] \cup {EtagNow(h)'}

WatchCards ==
    been' = [c \in Readers |-> [h \in Hrefs |->
        IF ask'[c].pc = "idle" THEN {}
        ELSE IF ask[c].pc = "idle" THEN {EtagNow(h)}
        ELSE BeenNow(c, h)]]

ReportsInit ==
    /\ CollectionInit
    /\ ask = [c \in Readers |-> Quiet]
    /\ been = [c \in Readers |-> [h \in Hrefs |-> {}]]

\* Bound: an id is left for every MKCOL that is about to insert.
Room == seq.books + Cardinality({c \in Readers : ask[c].pc = "insert"}) <= MaxBooks

ReportsNext ==
    /\ \/ Others /\ UNCHANGED ask
       \/ \E c \in Readers : ReaderStep(c)
    /\ WatchCards
    /\ Room'

ReportsSpec == ReportsInit /\ [][ReportsNext]_vars

-----------------------------------------------------------------------------
(* Properties *)

\* The type invariant.
ReportsTypeOK ==
    /\ TypeOK
    /\ ask \in [Readers ->
          [pc : {"idle", "next", "rows", "row", "insert", "describe"},
           status : {"none", "ok", "missing", "exists", "created", "patched", "error"},
           q : Queries \cup {NoRow}, id : 0 .. MaxBooks,
           todo : Seq({"token", "ctag", "cards"} \cup Hrefs),
           state : [token : State \cup {NoRow}, ctag : State \cup {NoRow}],
           out : [Hrefs -> [etag : ETags \cup {NoRow}, data : ETags \cup {NoRow}]]]]
    /\ been \in [Readers -> [Hrefs -> SUBSET (ETags \cup {NoRow})]]

Answered(c) == ask[c].pc # "idle" /\ ask'[c].pc = "idle"

\* A listing, a query or a multiget is no snapshot, but nothing in it is made up:
\* each ETag and each body is one that the card had while the request ran, a card
\* that a listing leaves out or a multiget calls missing was absent at some moment,
\* and a query that fails with 404 lost the card it was reading.
AnswerWasTrue(c) ==
    LET a == ask[c]
        out == ask'[c].out
        About(h) == IF a.q.op = "multiget" THEN h \in Range(a.q.hrefs) ELSE TRUE
    IN CASE ask'[c].status = "ok" ->
              \A h \in Hrefs : About(h) =>
                 /\ out[h].etag \in BeenNow(c, h)
                 /\ a.q.op \in {"query", "multiget"} => out[h].data \in BeenNow(c, h)
                 /\ a.q.op = "multiget" => out[h].data = out[h].etag
         [] ask'[c].status = "missing" /\ a.q.op = "query" ->
              \A h \in {Head(a.todo)} : NoRow \in BeenNow(c, h)
         [] OTHER -> TRUE
ReportsAreTrue ==
    [][\A c \in Readers :
          Answered(c) /\ (ask[c].q.op \in {"query", "multiget"} \/ ask[c].pc = "rows")
             => AnswerWasTrue(c)]_vars

\* A PROPFIND with Depth 1 names a sync-token and lists the cards.  A client that
\* takes both must not miss anything when it asks for the changes after the token:
\* the listing shows every card as the last change that the token covers left it,
\* whoever wrote between the two reads.
TokenCoversListing ==
    [][\A c \in Readers :
          Answered(c) /\ ask[c].q.op = "propfind" /\ ask[c].q.depth = 1 /\ ask'[c].status = "ok" =>
             \A s \in {ask'[c].state.token, ask'[c].state.ctag} :
                s.id \in Live => \A h \in Hrefs :
                   last[s.id][h] <= s.rev => ask'[c].out[h].etag = EtagNow(h)]_vars

\* The getctag of an answer is never newer than its sync-token, in whichever order
\* the request names them: a client that stores both and polls the ctag would skip
\* the changes in between.
CTagNotAheadOfToken ==
    [][\A c \in Readers :
          LET s == ask'[c].state IN
          Answered(c) /\ s.token # NoRow /\ s.ctag # NoRow =>
             \/ s.ctag.id < s.token.id
             \/ s.ctag.id = s.token.id /\ s.ctag.rev <= s.token.rev]_vars

\* What a client may conclude from the answer to an MKCOL, whoever deleted the
\* collection or made another at the path between its two calls: after a 201 the
\* collection that is there has the properties asked for, also when it is another's;
\* after a 405 there is one; after a 404 there is none, its own has gone; and no
\* answer but a 201 comes of a call that changed a collection.
HasAskedFor(name, q) ==
    /\ q.display # NoRow => name.display = q.display
    /\ q.desc # NoRow => name.desc = q.desc
MkcolAnswerIsTrue ==
    [][\A c \in Readers :
          Answered(c) /\ ask[c].q.op = "mkcol" =>
             /\ ask'[c].status = "created" => \E id \in Found' : HasAskedFor(books'[id].name, ask[c].q)
             /\ ask'[c].status = "exists" => Found' # {}
             /\ ask'[c].status = "missing" => Found' = {} /\ ask[c].id \notin Live'
             /\ ask'[c].status # "created" => books' = books]_vars
=============================================================================
