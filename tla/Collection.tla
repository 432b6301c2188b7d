----------------------------- MODULE Collection ----------------------------
(***************************************************************************)
(* One collection, Username/Slug, of the store, and what other requests    *)
(* and processes may do to it between two steps of one of ours: each such  *)
(* write is one transaction (src/internal/db/store.go).                    *)
(***************************************************************************)
EXTENDS Store

CONSTANTS
    Username, Slug, FirstName, \* the collection, and its name at the start
    Written                    \* bound: the cards that others write

ASSUME CollectionAssumption ==
    /\ Username \in Usernames /\ Slug \in Slugs /\ Hashes # {} /\ FirstName \in Names
    /\ Written \subseteq PutInput /\ MaxUsers >= 1 /\ MaxBooks >= 1

\* What GetAddressbookByUsernameSlug finds: at most one id.
Found == AddressbookOf(Username, Slug)

\* What a GET of /Username/Slug/h would find now: its ETag, or NoRow.
EtagNow(h) ==
    IF \E id \in Found : cards[id][h] # NoRow
    THEN LET id == CHOOSE id \in Found : TRUE IN cards[id][h].etag
    ELSE NoRow

WriteCard == \E id \in Live, in \in Written : PutCards(id, <<in>>, Unconditional)
EraseCard == \E id \in Live, h \in Hrefs : DeleteCard(id, h, Unconditional)
RemoveCollection == \E fk \in ForeignKeys : DeleteAddressbook(Username, Slug, fk)
MakeCollection ==
    \E u \in UserIds, fk \in ForeignKeys :
        /\ users[u] # NoRow /\ users[u].name = Username
        /\ CreateAddressbook(u, Slug, FirstName, fk)

Others == WriteCard \/ EraseCard \/ RemoveCollection \/ MakeCollection

\* The user has the collection, with nothing in it yet.
CollectionInit ==
    /\ users = [u \in UserIds |-> IF u = 1 THEN [name |-> Username, hash |-> CHOOSE p \in Hashes : TRUE]
                                  ELSE NoRow]
    /\ books = [id \in BookIds |-> IF id = 1 THEN [owner |-> 1, slug |-> Slug, revision |-> 0,
                                                   name |-> FirstName]
                                   ELSE NoRow]
    /\ cards = [id \in BookIds |-> [h \in Hrefs |-> NoRow]]
    /\ changes = {}
    /\ seq = [users |-> 1, books |-> 1]
    /\ clock = 0
    /\ last = [id \in BookIds |-> [h \in Hrefs |-> 0]]
=============================================================================
