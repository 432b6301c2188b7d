---------------------------- MODULE StoreProofs ----------------------------
(* Proofs about Store.tla, for every value of its constants. *)
EXTENDS Store, SequenceTheorems, WellFoundedInduction, TLAPS

-----------------------------------------------------------------------------
(* The last element of a batch that writes a card *)

\* Max of a non-empty set of naturals below a bound is its largest element.
LEMMA MaxBounded ==
    ASSUME NEW n \in Nat, NEW W, W \subseteq 1 .. n, W # {}
    PROVE  Max(W) \in W /\ \A i \in W : i <= Max(W)
<1> DEFINE T == {n - i : i \in W}
<1>1. T \subseteq Nat
  <2>. SUFFICES ASSUME NEW i \in W PROVE n - i \in Nat
    OBVIOUS
  <2>1. i \in 1 .. n
    OBVIOUS
  <2>. QED  BY <2>1
<1>2. T # {}
  <2>1. PICK i \in W : TRUE
    OBVIOUS
  <2>2. n - i \in T
    BY <2>1
  <2>. QED  BY <2>2
<1>3. PICK x \in T : \A y \in T : ~(<<y, x>> \in OpToRel(<, Nat))
  <2>. HIDE DEF T
  <2>. QED  BY <1>1, <1>2, WFMin, NatLessThanWellFounded
<1>4. \A y \in T : ~(y < x)
  <2>. HIDE DEF T
  <2>. QED  BY <1>1, <1>3 DEF OpToRel
<1>5. PICK i \in W : x = n - i
  OBVIOUS
<1>6. ASSUME NEW j \in W PROVE i >= j
  <2>1. n - j \in T
    OBVIOUS
  <2>2. ~(n - j < n - i)
    BY <1>4, <1>5, <2>1
  <2>3. i \in 1 .. n /\ j \in 1 .. n
    OBVIOUS
  <2>. QED  BY <2>2, <2>3
<1>7. Max(W) \in W /\ \A j \in W : Max(W) >= j
  BY <1>6, Zenon DEF Max
<1>8. ASSUME NEW k \in W PROVE k \in Int
  <2>. k \in 1 .. n
    OBVIOUS
  <2>. QED  OBVIOUS
<1>9. ASSUME NEW j \in W PROVE j <= Max(W)
  <2>1. j \in Int /\ Max(W) \in Int /\ Max(W) >= j
    BY <1>7, <1>8, Zenon
  <2>. QED  BY <2>1
<1>. QED  BY <1>7, <1>9

\* What CardsAfter says of the card with href h: either the batch leaves it
\* alone, or its last write to h decides.
LEMMA LastWrite ==
    ASSUME NEW b \in Seq(PutInput), NEW n \in 0 .. Len(b), NEW h, Writes(b, n, h) # {}
    PROVE  /\ Max(Writes(b, n, h)) \in 1 .. n
           /\ b[Max(Writes(b, n, h))] \in PutInput
           /\ b[Max(Writes(b, n, h))].href = h
           /\ \A i \in 1 .. n : b[i].href = h => i <= Max(Writes(b, n, h))
<1> DEFINE W == Writes(b, n, h)
<1>1. Len(b) \in Nat /\ n \in Nat
  BY LenProperties
<1>2. W \subseteq 1 .. n
  BY DEF Writes
<1>3. Max(W) \in W /\ \A i \in W : i <= Max(W)
  <2>1. W # {}
    OBVIOUS
  <2>. HIDE DEF W
  <2>. QED  BY <1>1, <1>2, <2>1, MaxBounded
<1>4. Max(W) \in 1 .. n /\ b[Max(W)].href = h
  BY <1>3, Zenon DEF Writes
<1>5. Max(W) \in 1 .. Len(b)
  BY <1>1, <1>4
<1>6. b[Max(W)] \in PutInput
  BY <1>5, ElementOfSeq, Zenon
<1>7. \A i \in 1 .. n : b[i].href = h => i <= Max(W)
  BY <1>3, Zenon DEF Writes
<1>. QED  BY <1>4, <1>6, <1>7, Zenon

\* Both shapes of batch that CardStep offers are non-empty sequences of inputs.
LEMMA Batches ==
    /\ \A in \in PutInput : <<in>> \in Seq(PutInput) /\ Len(<<in>>) = 1
    /\ \A n \in 2 .. MaxBatch : \A b \in [1 .. n -> PutInput] :
          b \in Seq(PutInput) /\ Len(b) = n
<1>1. ASSUME NEW n \in 2 .. MaxBatch, NEW b \in [1 .. n -> PutInput]
      PROVE  b \in Seq(PutInput) /\ Len(b) = n
  <2>1. n \in Nat
    BY BoundsAssumption
  <2>2. b \in Seq(PutInput)
    <3>1. b \in UNION {[1 .. k -> PutInput] : k \in Nat}
      BY <2>1
    <3>. QED  BY <3>1, SeqDef, Zenon
  <2>3. Len(b) \in Nat /\ DOMAIN b = 1 .. Len(b) /\ DOMAIN b = 1 .. n
    BY <2>2, LenProperties
  <2>. QED  BY <2>1, <2>2, <2>3
<1>2. \A in \in PutInput : <<in>> \in Seq(PutInput) /\ Len(<<in>>) = 1
  OBVIOUS
<1>. QED  BY <1>1, <1>2

-----------------------------------------------------------------------------
(* Type correctness *)

LEMMA TypeInit == StoreInit => TypeOK
  BY BoundsAssumption DEF StoreInit, TypeOK, UserIds, BookIds

\* A change of one field keeps a book a book.
LEMMA BookFields ==
    ASSUME NEW row \in BookRow
    PROVE  /\ \A r \in 0 .. MaxRev : /\ [row EXCEPT !.revision = r] \in BookRow
                                     /\ [row EXCEPT !.revision = r].revision = r
                                     /\ [row EXCEPT !.revision = r].owner = row.owner
           /\ \A n \in Names : /\ [row EXCEPT !.name = n] \in BookRow
                               /\ [row EXCEPT !.name = n].revision = row.revision
                               /\ [row EXCEPT !.name = n].owner = row.owner
  BY DEF BookRow

LEMMA RemoveBooksType ==
    ASSUME TypeOK, NEW ids, NEW fk, RemoveBooks(ids, fk)
    PROVE  /\ books' \in [BookIds -> BookRow \cup {NoRow}]
           /\ cards' \in [BookIds -> [Hrefs -> Card \cup {NoRow}]]
           /\ changes' \subseteq Change
  BY DEF TypeOK, RemoveBooks

LEMMA CardsAfterType ==
    ASSUME TypeOK, NEW id \in BookIds, NEW b \in Seq(PutInput), NEW n \in 0 .. Len(b)
    PROVE  CardsAfter(id, b, n) \in [Hrefs -> Card \cup {NoRow}]
<1>. SUFFICES ASSUME NEW h \in Hrefs
              PROVE  CardsAfter(id, b, n)[h] \in Card \cup {NoRow}
  BY DEF CardsAfter
<1>1. CASE Writes(b, n, h) = {}
  BY <1>1 DEF CardsAfter, TypeOK
<1>2. CASE Writes(b, n, h) # {}
  <2> DEFINE i == Max(Writes(b, n, h))
  <2>1. b[i] \in PutInput
    BY <1>2, LastWrite
  <2>2. CardsAfter(id, b, n)[h] = [uid |-> b[i].uid, etag |-> b[i].etag]
    BY <1>2 DEF CardsAfter
  <2>. HIDE DEF i
  <2>. QED  BY <2>1, <2>2 DEF PutInput, Card
<1>. QED  BY <1>1, <1>2

LEMMA PutCardsType ==
    ASSUME TypeOK, NEW id \in BookIds, NEW b \in Seq(PutInput), NEW cond,
           PutCards(id, b, cond)
    PROVE  TypeOK'
<1>1. Len(b) \in Nat /\ \A i \in 1 .. Len(b) : b[i] \in PutInput
  BY LenProperties, ElementOfSeq
<1>2. books[id] \in BookRow /\ books[id].revision \in 0 .. MaxRev
  BY DEF TypeOK, PutCards, BookRow
<1>3. books[id].revision + Len(b) \in 0 .. MaxRev
  BY <1>1, <1>2, BoundsAssumption DEF PutCards
<1>4. books' \in [BookIds -> BookRow \cup {NoRow}]
  BY <1>2, <1>3 DEF TypeOK, PutCards, Bumped, BookRow
<1>5. cards' \in [BookIds -> [Hrefs -> Card \cup {NoRow}]]
  <2>1. CardsAfter(id, b, Len(b)) \in [Hrefs -> Card \cup {NoRow}]
    BY <1>1, CardsAfterType
  <2>2. cards' = [cards EXCEPT ![id] = CardsAfter(id, b, Len(b))]
    BY DEF PutCards
  <2>. QED  BY <2>1, <2>2 DEF TypeOK
<1>6. changes' \subseteq Change
  <2>1. ASSUME NEW i \in 1 .. Len(b)
        PROVE  PutRow(id, b, i) \in Change
    <3>1. RevisionOf(id, i) \in 1 .. MaxRev
      BY <1>1, <1>2, <1>3, BoundsAssumption DEF RevisionOf
    <3>2. b[i].href \in Hrefs /\ b[i].etag \in ETags
      BY <1>1 DEF PutInput
    <3>3. clock \in 0 .. MaxClock
      BY DEF TypeOK
    <3>. QED  BY <3>1, <3>2, <3>3 DEF Change, PutRow
  <2>. QED  BY <2>1 DEF TypeOK, PutCards
<1>7. last' \in [BookIds -> [Hrefs -> 0 .. MaxRev]]
  <2> DEFINE rev(h) == IF Writes(b, Len(b), h) = {} THEN last[id][h]
                       ELSE books[id].revision + Max(Writes(b, Len(b), h))
  <2>1. ASSUME NEW h \in Hrefs PROVE rev(h) \in 0 .. MaxRev
    <3>1. CASE Writes(b, Len(b), h) = {}
      BY <3>1 DEF TypeOK
    <3>2. CASE Writes(b, Len(b), h) # {}
      <4>1. Max(Writes(b, Len(b), h)) \in 1 .. Len(b)
        BY <1>1, <3>2, LastWrite
      <4>. QED  BY <1>1, <1>2, <1>3, <3>2, <4>1, BoundsAssumption
    <3>. QED  BY <3>1, <3>2
  <2>2. last' = [last EXCEPT ![id] = [h \in Hrefs |-> rev(h)]]
    BY DEF PutCards
  <2>. HIDE DEF rev
  <2>. QED  BY <2>1, <2>2 DEF TypeOK
<1>. QED  BY <1>4, <1>5, <1>6, <1>7 DEF TypeOK, PutCards

LEMMA DeleteCardType ==
    ASSUME TypeOK, NEW id \in BookIds, NEW h \in Hrefs, NEW cond, DeleteCard(id, h, cond)
    PROVE  TypeOK'
<1>1. books[id] \in BookRow /\ books[id].revision \in 0 .. MaxRev
  BY DEF TypeOK, DeleteCard, BookRow
<1>2. books[id].revision + 1 \in 1 .. MaxRev
  BY <1>1, BoundsAssumption DEF DeleteCard
<1>3. books' \in [BookIds -> BookRow \cup {NoRow}]
  <2>1. [books[id] EXCEPT !.revision = books[id].revision + 1] \in BookRow
    BY <1>1, <1>2, BookFields, BoundsAssumption
  <2>2. books' = [books EXCEPT ![id] = [books[id] EXCEPT !.revision = books[id].revision + 1]]
    BY DEF DeleteCard, Bumped
  <2>. QED  BY <2>1, <2>2 DEF TypeOK
<1>4. cards' \in [BookIds -> [Hrefs -> Card \cup {NoRow}]]
  BY DEF TypeOK, DeleteCard
<1>5. changes' \subseteq Change
  <2>1. cards[id][h].etag \in ETags
    BY DEF TypeOK, DeleteCard, Card
  <2>2. PICK now \in {t \in 0 .. clock : clock - t <= LockWait} :
          changes' = changes \cup {DeleteRow(id, h, now)}
    BY DEF DeleteCard
  <2>3. now \in 0 .. MaxClock
    BY BoundsAssumption DEF TypeOK
  <2>4. DeleteRow(id, h, now) \in Change
    BY <1>2, <2>1, <2>3 DEF Change, DeleteRow, RevisionOf
  <2>. QED  BY <2>2, <2>4 DEF TypeOK
<1>6. last' \in [BookIds -> [Hrefs -> 0 .. MaxRev]]
  BY <1>2 DEF TypeOK, DeleteCard
<1>. QED  BY <1>3, <1>4, <1>5, <1>6 DEF TypeOK, DeleteCard

LEMMA TypeStep == TypeOK /\ [StoreNext]_storeVars => TypeOK'
<1>. SUFFICES ASSUME TypeOK, [StoreNext]_storeVars PROVE TypeOK'
  OBVIOUS
<1>1. ASSUME NEW n \in Usernames, NEW p \in Hashes, CreateUser(n, p) PROVE TypeOK'
  <2>1. seq.users + 1 \in 0 .. MaxUsers /\ [name |-> n, hash |-> p] \in UserRow
    BY <1>1, BoundsAssumption DEF TypeOK, CreateUser, UserRow
  <2>. QED  BY <1>1, <2>1 DEF TypeOK, CreateUser, UserIds
<1>2. ASSUME NEW u \in UserIds, NEW p \in Hashes, SetUserPasswordHash(u, p) PROVE TypeOK'
  <2>1. [users[u] EXCEPT !.hash = p] \in UserRow
    BY <1>2 DEF TypeOK, SetUserPasswordHash, UserRow
  <2>2. users' = [users EXCEPT ![u] = [users[u] EXCEPT !.hash = p]]
    BY <1>2 DEF SetUserPasswordHash
  <2>. QED  BY <1>2, <2>1, <2>2 DEF TypeOK, SetUserPasswordHash
<1>3. ASSUME NEW u \in UserIds, DeleteUser(u) PROVE TypeOK'
  <2>1. RemoveBooks({id \in Live : books[id].owner = u}, TRUE)
    BY <1>3 DEF DeleteUser
  <2>2. /\ books' \in [BookIds -> BookRow \cup {NoRow}]
        /\ cards' \in [BookIds -> [Hrefs -> Card \cup {NoRow}]]
        /\ changes' \subseteq Change
    BY <2>1, RemoveBooksType
  <2>. QED  BY <1>3, <2>2 DEF TypeOK, DeleteUser
<1>4. ASSUME NEW u \in 1 .. seq.users, NEW s \in Slugs, NEW n \in Names, NEW fk \in ForeignKeys,
             CreateAddressbook(u, s, n, fk)
      PROVE  TypeOK'
  <2>1. u \in UserIds
    BY BoundsAssumption DEF TypeOK, UserIds
  <2>2. [owner |-> u, slug |-> s, name |-> n, revision |-> 0] \in BookRow
    BY <2>1, BoundsAssumption DEF BookRow
  <2>3. NewBookId \in 0 .. MaxBooks
    BY <1>4, BoundsAssumption DEF CreateAddressbook, BookIds
  <2>. QED  BY <1>4, <2>2, <2>3 DEF TypeOK, CreateAddressbook
<1>5. ASSUME NEW n \in Usernames, NEW s \in Slugs, NEW name \in Names,
             UpdateAddressbookMetadata(n, s, name)
      PROVE  TypeOK'
  <2>1. PICK id \in AddressbookOf(n, s) :
          /\ books' = [books EXCEPT ![id] = [books[id] EXCEPT !.name = name]]
          /\ UNCHANGED <<users, cards, changes, seq, clock, last>>
    BY <1>5 DEF UpdateAddressbookMetadata
  <2>2. id \in BookIds /\ books[id] \in BookRow
    BY DEF AddressbookOf, Live, TypeOK
  <2>3. [books[id] EXCEPT !.name = name] \in BookRow
    BY <2>2, BookFields
  <2>. QED  BY <2>1, <2>2, <2>3 DEF TypeOK
<1>6. ASSUME NEW n \in Usernames, NEW s \in Slugs, NEW fk \in ForeignKeys,
             DeleteAddressbook(n, s, fk)
      PROVE  TypeOK'
  <2>1. RemoveBooks(AddressbookOf(n, s), fk)
    BY <1>6 DEF DeleteAddressbook
  <2>2. /\ books' \in [BookIds -> BookRow \cup {NoRow}]
        /\ cards' \in [BookIds -> [Hrefs -> Card \cup {NoRow}]]
        /\ changes' \subseteq Change
    BY <2>1, RemoveBooksType
  <2>. QED  BY <1>6, <2>2 DEF TypeOK, DeleteAddressbook
<1>7. ASSUME CardStep PROVE TypeOK'
  <2>1. PICK id \in BookIds :
          \/ \E in \in PutInput, cond \in {Unconditional, NoRow} \cup ETags : PutCards(id, <<in>>, cond)
          \/ \E n \in 2 .. MaxBatch : \E b \in [1 .. n -> PutInput] : PutCards(id, b, Unconditional)
          \/ \E h \in Hrefs, cond \in {Unconditional} \cup ETags : DeleteCard(id, h, cond)
    BY <1>7 DEF CardStep
  <2>2. ASSUME NEW in \in PutInput, NEW cond, PutCards(id, <<in>>, cond) PROVE TypeOK'
    BY <2>2, Batches, PutCardsType
  <2>3. ASSUME NEW n \in 2 .. MaxBatch, NEW b \in [1 .. n -> PutInput],
               PutCards(id, b, Unconditional)
        PROVE  TypeOK'
    BY <2>3, Batches, PutCardsType
  <2>4. ASSUME NEW h \in Hrefs, NEW cond, DeleteCard(id, h, cond) PROVE TypeOK'
    BY <2>4, DeleteCardType
  <2>. QED  BY <2>1, <2>2, <2>3, <2>4
<1>8. ASSUME PruneStep PROVE TypeOK'
  BY <1>8 DEF TypeOK, PruneStep, PruneCardChangesByAge, PruneCardChangesByMaxRevisions
<1>9. ASSUME Tick PROVE TypeOK'
  BY <1>9, BoundsAssumption DEF TypeOK, Tick
<1>10. ASSUME UNCHANGED storeVars PROVE TypeOK'
  BY <1>10 DEF TypeOK, storeVars
<1>11. ASSUME UserStep PROVE TypeOK'
  BY <1>1, <1>2, <1>3, <1>11 DEF UserStep
<1>12. ASSUME BookStep PROVE TypeOK'
  BY <1>4, <1>5, <1>6, <1>12 DEF BookStep
<1>. QED  BY <1>7, <1>8, <1>9, <1>10, <1>11, <1>12 DEF StoreNext

\* Every table holds rows of its schema, whatever the sequence of operations.
THEOREM TypeCorrect == StoreSpec => []TypeOK
<1>1. StoreInit => TypeOK
  BY TypeInit
<1>2. TypeOK /\ [StoreNext]_storeVars => TypeOK'
  BY TypeStep
<1>. QED  BY <1>1, <1>2, PTL DEF StoreSpec

-----------------------------------------------------------------------------
(* The journal agrees with the cards *)

\* What JournalAgrees says of one row.
RowAgrees(c) ==
    /\ c.rev <= last[c.book][c.href]
    /\ last[c.book][c.href] <= books[c.book].revision
    /\ \A d \in LiveChanges : c.book = d.book /\ c.rev = d.rev => c = d
    /\ c.rev = last[c.book][c.href] =>
          IF c.deleted THEN cards[c.book][c.href] = NoRow
          ELSE /\ cards[c.book][c.href] # NoRow
               /\ cards[c.book][c.href].etag = c.etag

LEMMA JournalAgreesByRow == JournalAgrees <=> \A c \in LiveChanges : RowAgrees(c)
  BY DEF JournalAgrees, RowAgrees

\* The shared part of every operation that writes no card: if the live rows
\* after the step are live rows of before, and of a book that keeps its cards,
\* its revision and its history, they still agree.
LEMMA KeepsAgreement ==
    ASSUME JournalAgrees,
           \A c \in LiveChanges' :
              /\ c \in LiveChanges
              /\ books'[c.book].revision = books[c.book].revision
              /\ cards'[c.book] = cards[c.book]
              /\ last'[c.book] = last[c.book]
    PROVE  JournalAgrees'
  BY DEF JournalAgrees

\* A card after a batch, next to what it was before.
LEMMA PutCardsEffect ==
    ASSUME TypeOK, NEW id \in BookIds, NEW b \in Seq(PutInput), NEW cond,
           PutCards(id, b, cond), NEW h \in Hrefs
    PROVE  \/ /\ \A i \in 1 .. Len(b) : b[i].href # h
              /\ cards'[id][h] = cards[id][h]
              /\ last'[id][h] = last[id][h]
           \/ \E m \in 1 .. Len(b) :
                 /\ b[m].href = h
                 /\ \A i \in 1 .. Len(b) : b[i].href = h => i <= m
                 /\ cards'[id][h] = [uid |-> b[m].uid, etag |-> b[m].etag]
                 /\ last'[id][h] = books[id].revision + m
<1>1. Len(b) \in Nat
  BY LenProperties
<1>2. /\ cards'[id][h] = CardsAfter(id, b, Len(b))[h]
      /\ last'[id][h] = IF Writes(b, Len(b), h) = {} THEN last[id][h]
                        ELSE books[id].revision + Max(Writes(b, Len(b), h))
  BY DEF PutCards, TypeOK
<1>3. CASE Writes(b, Len(b), h) = {}
  BY <1>2, <1>3 DEF CardsAfter, Writes
<1>4. CASE Writes(b, Len(b), h) # {}
  <2> DEFINE m == Max(Writes(b, Len(b), h))
  <2>1. /\ m \in 1 .. Len(b)
        /\ b[m].href = h
        /\ \A i \in 1 .. Len(b) : b[i].href = h => i <= m
    BY <1>1, <1>4, LastWrite
  <2>2. cards'[id][h] = [uid |-> b[m].uid, etag |-> b[m].etag]
    BY <1>2, <1>4 DEF CardsAfter
  <2>3. last'[id][h] = books[id].revision + m
    BY <1>2, <1>4
  <2>. HIDE DEF m
  <2>. QED  BY <2>1, <2>2, <2>3
<1>. QED  BY <1>3, <1>4

\* What a batch leaves alone: every other book, and which books are live.
LEMMA PutCardsFrame ==
    ASSUME TypeOK, NEW id \in BookIds, NEW b \in Seq(PutInput), NEW cond,
           PutCards(id, b, cond)
    PROVE  /\ books[id].revision \in Nat /\ books'[id].revision = books[id].revision + Len(b)
           /\ Live' = Live /\ id \in Live
           /\ \A o \in BookIds \ {id} : /\ books'[o] = books[o] /\ cards'[o] = cards[o]
                                      /\ last'[o] = last[o]
<1>1. books[id] \in BookRow /\ books[id].revision \in 0 .. MaxRev
  BY DEF TypeOK, PutCards, BookRow
<1>2. Len(b) \in Nat
  BY LenProperties
<1>3. books[id].revision + Len(b) \in 0 .. MaxRev
  BY <1>1, <1>2, BoundsAssumption DEF PutCards
<1> DEFINE row == [books[id] EXCEPT !.revision = books[id].revision + Len(b)]
<1>4. row \in BookRow /\ row.revision = books[id].revision + Len(b)
  BY <1>1, <1>3, BookFields
<1>5. books' = [books EXCEPT ![id] = row]
  BY DEF PutCards, Bumped
<1>. HIDE DEF row
<1>6. row # NoRow
  BY <1>4, NoRowAssumption
<1>7. Live' = Live /\ id \in Live
  BY <1>5, <1>6 DEF Live, TypeOK, PutCards
<1>8. \A o \in BookIds \ {id} : books'[o] = books[o] /\ cards'[o] = cards[o] /\ last'[o] = last[o]
  BY <1>5 DEF PutCards, TypeOK
<1>. QED  BY <1>1, <1>4, <1>5, <1>7, <1>8, BoundsAssumption DEF TypeOK

LEMMA DeleteCardFrame ==
    ASSUME TypeOK, NEW id \in BookIds, NEW h \in Hrefs, NEW cond, DeleteCard(id, h, cond)
    PROVE  /\ books[id].revision \in Nat /\ books'[id].revision = books[id].revision + 1
           /\ Live' = Live /\ id \in Live
           /\ \A o \in BookIds \ {id} : /\ books'[o] = books[o] /\ cards'[o] = cards[o]
                                      /\ last'[o] = last[o]
<1> DEFINE row == [books[id] EXCEPT !.revision = books[id].revision + 1]
<1>1. books[id] \in BookRow /\ books[id].revision \in Nat /\ books[id].revision + 1 \in 0 .. MaxRev
  BY BoundsAssumption DEF TypeOK, DeleteCard, BookRow
<1>2. row \in BookRow /\ row.revision = books[id].revision + 1
  BY <1>1, BookFields
<1>3. books' = [books EXCEPT ![id] = row]
  BY DEF DeleteCard, Bumped
<1>. HIDE DEF row
<1>4. row # NoRow
  BY <1>2, NoRowAssumption
<1>. QED  BY <1>1, <1>2, <1>3, <1>4 DEF DeleteCard, TypeOK, Live

LEMMA PutCardsJournal ==
    ASSUME JournalInv, NEW id \in BookIds, NEW b \in Seq(PutInput), Len(b) > 0, NEW cond,
           PutCards(id, b, cond)
    PROVE  JournalInv'
<1>1. TypeOK /\ TypeOK'
  BY PutCardsType DEF JournalInv
<1> DEFINE rev == books[id].revision
<1>2. /\ rev \in Nat /\ books'[id].revision = rev + Len(b)
      /\ Live' = Live /\ id \in Live
      /\ \A o \in BookIds \ {id} : books'[o] = books[o] /\ cards'[o] = cards[o] /\ last'[o] = last[o]
  BY <1>1, PutCardsFrame
<1>3. Len(b) \in Nat /\ \A i \in 1 .. Len(b) : b[i] \in PutInput /\ b[i].href \in Hrefs
  <2>1. Len(b) \in Nat /\ \A i \in 1 .. Len(b) : b[i] \in PutInput
    BY LenProperties, ElementOfSeq
  <2>. QED  BY <2>1 DEF PutInput
<1>4. changes' = changes \cup {PutRow(id, b, i) : i \in 1 .. Len(b)} /\ seq' = seq
  BY DEF PutCards
<1>5. \A o \in Live, h \in Hrefs : last[o][h] \in Nat /\ last[o][h] <= books[o].revision
  BY <1>1, BoundsAssumption DEF JournalInv, LastWithinRevision, TypeOK, Live
<1>6. \A c \in LiveChanges : /\ c \in Change /\ c.book \in Live /\ c.href \in Hrefs
                            /\ c.rev \in Nat /\ RowAgrees(c)
  BY <1>1, JournalAgreesByRow, BoundsAssumption
     DEF JournalInv, TypeOK, LiveChanges, Live, Change
<1>7. \A c \in LiveChanges' : \/ c \in LiveChanges
                             \/ \E i \in 1 .. Len(b) : c = PutRow(id, b, i)
  <2>1. \A c \in LiveChanges' : c \in changes' /\ c.book \in BookIds /\ books'[c.book] # NoRow
    BY <1>1 DEF LiveChanges, TypeOK, Change
  <2>. QED  BY <1>1, <1>2, <1>4, <2>1 DEF LiveChanges, Live, TypeOK, Change
<1>8. \A i \in 1 .. Len(b) : /\ PutRow(id, b, i).book = id /\ PutRow(id, b, i).rev = rev + i
                            /\ PutRow(id, b, i).href = b[i].href
                            /\ PutRow(id, b, i).etag = b[i].etag
                            /\ PutRow(id, b, i).deleted = FALSE
  BY DEF PutRow, RevisionOf
<1>9. ASSUME NEW h \in Hrefs
      PROVE  \/ cards'[id][h] = cards[id][h] /\ last'[id][h] = last[id][h]
             \/ \E m \in 1 .. Len(b) : last'[id][h] = rev + m
  BY <1>1, PutCardsEffect, Zenon
<1>. HIDE DEF rev
<1>10. ASSUME NEW h \in Hrefs PROVE last[id][h] <= last'[id][h] /\ last'[id][h] <= rev + Len(b)
  <2>1. last[id][h] \in Nat /\ last[id][h] <= rev
    BY <1>2, <1>5 DEF rev
  <2>2. CASE last'[id][h] = last[id][h]
    BY <1>2, <1>3, <2>1, <2>2
  <2>3. ASSUME NEW m \in 1 .. Len(b), last'[id][h] = rev + m
        PROVE  last[id][h] <= last'[id][h] /\ last'[id][h] <= rev + Len(b)
    BY <1>2, <1>3, <2>1, <2>3
  <2>. QED  BY <1>9, <2>2, <2>3
<1>11. UnusedIdsAreBlank'
  <2>1. ASSUME NEW o \in BookIds, o > seq'.books
        PROVE  /\ books'[o] = NoRow
               /\ \A h \in Hrefs : cards'[o][h] = NoRow /\ last'[o][h] = 0
               /\ \A c \in changes' : c.book # o
    <3>1. o # id /\ o > seq.books
      BY <1>2, <1>4, <2>1 DEF JournalInv, UnusedIdsAreBlank, Live
    <3>. QED  BY <1>2, <1>4, <1>8, <3>1 DEF JournalInv, UnusedIdsAreBlank
  <2>. QED  BY <2>1 DEF UnusedIdsAreBlank
<1>12. LastWithinRevision'
  <2>1. ASSUME NEW o \in Live, NEW h \in Hrefs PROVE last'[o][h] <= books'[o].revision
    <3>1. CASE o = id
      BY <1>2, <1>10, <3>1
    <3>2. CASE o # id
      BY <1>2, <1>5, <3>2 DEF Live
    <3>. QED  BY <3>1, <3>2
  <2>. QED  BY <1>2, <2>1 DEF LastWithinRevision
<1>13. ASSUME NEW c \in LiveChanges, NEW d \in LiveChanges', c.book = d.book, c.rev = d.rev
       PROVE  c = d
  <2>1. CASE d \in LiveChanges
    BY <1>6, <1>13, <2>1 DEF RowAgrees
  <2>2. ASSUME NEW i \in 1 .. Len(b), d = PutRow(id, b, i) PROVE FALSE
    <3>1. c.book = id /\ c.rev = rev + i
      BY <1>8, <1>13, <2>2
    <3>2. c.rev <= rev
      BY <1>2, <1>5, <1>6, <3>1 DEF RowAgrees, rev
    <3>. QED  BY <1>2, <1>3, <3>1, <3>2
  <2>. QED  BY <1>7, <2>1, <2>2
<1>14. ASSUME NEW c \in LiveChanges PROVE RowAgrees(c)'
  <2>1. CASE c.book # id
    <3>1. c.book \in BookIds \ {id}
      BY <1>6, <2>1 DEF Live
    <3>. QED  BY <1>2, <1>6, <1>13, <3>1 DEF RowAgrees
  <2>2. CASE c.book = id
    <3>1. /\ c.rev <= last[id][c.href] /\ last[id][c.href] <= rev /\ c.href \in Hrefs
          /\ c.rev \in Nat
      BY <1>6, <2>2 DEF RowAgrees, rev
    <3>2. last[id][c.href] <= last'[id][c.href] /\ last'[id][c.href] <= rev + Len(b)
      BY <1>10, <3>1
    <3>3. last[id][c.href] \in Nat /\ last'[id][c.href] \in Nat
      BY <1>1, <3>1, BoundsAssumption DEF TypeOK
    <3>4. c.rev = last'[id][c.href] =>
            cards'[id][c.href] = cards[id][c.href] /\ last'[id][c.href] = last[id][c.href]
      <4>1. ASSUME NEW m \in 1 .. Len(b), last'[id][c.href] = rev + m PROVE c.rev < rev + m
        BY <1>2, <1>3, <3>1, <3>3
      <4>2. c.rev = last'[id][c.href] => ~\E m \in 1 .. Len(b) : last'[id][c.href] = rev + m
        BY <1>2, <1>3, <3>1, <4>1
      <4>. QED  BY <1>9, <3>1, <4>2
    <3>5. c.rev <= last'[id][c.href]
      BY <3>1, <3>2, <3>3
    <3>. QED  BY <1>2, <1>6, <1>13, <2>2, <3>2, <3>4, <3>5 DEF RowAgrees
  <2>. QED  BY <2>1, <2>2
<1>15. ASSUME NEW i \in 1 .. Len(b), NEW c, c = PutRow(id, b, i), c \in LiveChanges'
       PROVE  RowAgrees(c)'
  <2>1. /\ c.book = id /\ c.rev = rev + i /\ c.href = b[i].href /\ c.etag = b[i].etag
        /\ c.deleted = FALSE /\ c.href \in Hrefs
    BY <1>3, <1>8, <1>15
  <2>2. PICK m \in 1 .. Len(b) :
          /\ b[m].href = c.href /\ i <= m
          /\ cards'[id][c.href] = [uid |-> b[m].uid, etag |-> b[m].etag]
          /\ last'[id][c.href] = rev + m
    BY <1>1, <2>1, PutCardsEffect DEF rev
  <2>3. c.rev <= last'[id][c.href] /\ last'[id][c.href] <= books'[id].revision
    BY <1>2, <1>3, <2>1, <2>2
  <2>4. \A d \in LiveChanges' : c.book = d.book /\ c.rev = d.rev => c = d
    <3>1. ASSUME NEW d \in LiveChanges', c.book = d.book, c.rev = d.rev PROVE c = d
      <4>1. CASE d \in LiveChanges
        BY <1>13, <1>15, <3>1, <4>1
      <4>2. ASSUME NEW j \in 1 .. Len(b), d = PutRow(id, b, j) PROVE c = d
        <5>1. rev + i = rev + j
          BY <1>8, <2>1, <3>1, <4>2
        <5>2. i = j
          BY <1>2, <1>3, <5>1
        <5>. QED  BY <1>15, <4>2, <5>2
      <4>. QED  BY <1>7, <4>1, <4>2
    <3>. QED  BY <3>1
  <2>5. c.rev = last'[id][c.href] =>
          /\ cards'[id][c.href] # NoRow
          /\ cards'[id][c.href].etag = c.etag
    <3>1. SUFFICES ASSUME c.rev = last'[id][c.href]
                   PROVE  cards'[id][c.href] # NoRow /\ cards'[id][c.href].etag = c.etag
      OBVIOUS
    <3>2. m = i
      BY <1>2, <1>3, <2>1, <2>2, <3>1
    <3>3. [uid |-> b[i].uid, etag |-> b[i].etag] \in Card
      BY <1>3 DEF PutInput, Card
    <3>. QED  BY <2>1, <2>2, <3>2, <3>3, NoRowAssumption
  <2>. QED  BY <2>1, <2>3, <2>4, <2>5 DEF RowAgrees
<1>16. JournalAgrees'
  BY <1>7, <1>14, <1>15 DEF JournalAgrees, RowAgrees
<1>. QED  BY <1>1, <1>11, <1>12, <1>16 DEF JournalInv

LEMMA DeleteCardJournal ==
    ASSUME JournalInv, NEW id \in BookIds, NEW h \in Hrefs, NEW cond, DeleteCard(id, h, cond)
    PROVE  JournalInv'
<1>1. TypeOK /\ TypeOK'
  BY DeleteCardType DEF JournalInv
<1> DEFINE rev == books[id].revision
<1>2. rev \in Nat
  BY <1>1, DeleteCardFrame
<1>3. /\ books'[id].revision = rev + 1
      /\ Live' = Live /\ id \in Live
      /\ \A o \in BookIds \ {id} : books'[o] = books[o] /\ cards'[o] = cards[o] /\ last'[o] = last[o]
  BY <1>1, DeleteCardFrame
<1>4. PICK new : changes' = changes \cup {new} /\ \E now : new = DeleteRow(id, h, now)
  BY DEF DeleteCard
<1>5. new.book = id /\ new.href = h /\ new.deleted = TRUE /\ new.rev = rev + 1
  BY <1>4 DEF DeleteRow, RevisionOf
<1>6. \A c \in LiveChanges' : c \in LiveChanges \/ c = new
  <2>1. \A c \in LiveChanges' : c \in changes' /\ c.book \in BookIds /\ books'[c.book] # NoRow
    BY <1>1 DEF LiveChanges, TypeOK, Change
  <2>. QED  BY <1>1, <1>3, <1>4, <2>1 DEF LiveChanges, Live, TypeOK, Change
<1>7. /\ cards'[id][h] = NoRow /\ last'[id][h] = rev + 1
      /\ \A g \in Hrefs \ {h} : cards'[id][g] = cards[id][g] /\ last'[id][g] = last[id][g]
      /\ seq' = seq
  BY <1>1 DEF DeleteCard, TypeOK
<1>8. \A o \in Live, g \in Hrefs : last[o][g] \in Nat /\ last[o][g] <= books[o].revision
  BY <1>1, BoundsAssumption DEF JournalInv, LastWithinRevision, TypeOK, Live
<1>9. \A c \in LiveChanges : /\ c \in Change /\ c.book \in Live /\ c.href \in Hrefs
                            /\ c.rev \in Nat /\ RowAgrees(c)
  BY <1>1, JournalAgreesByRow, BoundsAssumption
     DEF JournalInv, TypeOK, LiveChanges, Live, Change
<1>10. \A c \in LiveChanges : c.book = id => c.rev <= rev
  BY <1>2, <1>8, <1>9 DEF RowAgrees
<1>. HIDE DEF rev
<1>11. UnusedIdsAreBlank'
  <2>1. ASSUME NEW o \in BookIds, o > seq'.books
        PROVE  /\ books'[o] = NoRow
               /\ \A g \in Hrefs : cards'[o][g] = NoRow /\ last'[o][g] = 0
               /\ \A c \in changes' : c.book # o
    <3>1. o # id /\ o > seq.books
      BY <1>3, <1>7, <2>1 DEF JournalInv, UnusedIdsAreBlank, Live
    <3>. QED  BY <1>3, <1>4, <1>5, <3>1 DEF JournalInv, UnusedIdsAreBlank
  <2>. QED  BY <2>1 DEF UnusedIdsAreBlank
<1>12. LastWithinRevision'
  <2>1. ASSUME NEW o \in Live, NEW g \in Hrefs PROVE last'[o][g] <= books'[o].revision
    <3>1. CASE o = id
      <4>1. last[id][g] \in Nat /\ last[id][g] <= rev
        BY <1>3, <1>8 DEF rev
      <4>2. last'[id][g] = rev + 1 \/ last'[id][g] = last[id][g]
        BY <1>7
      <4>. QED  BY <1>2, <1>3, <3>1, <4>1, <4>2
    <3>2. CASE o # id
      BY <1>3, <1>8, <3>2 DEF Live
    <3>. QED  BY <3>1, <3>2
  <2>. QED  BY <1>3, <2>1 DEF LastWithinRevision
<1>13. ASSUME NEW c \in LiveChanges, NEW d \in LiveChanges', c.book = d.book, c.rev = d.rev
       PROVE  c = d
  BY <1>2, <1>5, <1>6, <1>9, <1>10, <1>13 DEF RowAgrees
<1>14. ASSUME NEW c \in LiveChanges PROVE RowAgrees(c)'
  <2>1. CASE c.book # id
    <3>1. c.book \in BookIds \ {id}
      BY <1>9, <2>1 DEF Live
    <3>. QED  BY <1>3, <1>9, <1>13, <3>1 DEF RowAgrees
  <2>2. CASE c.book = id /\ c.href = h
    <3>1. c.rev <= rev /\ c.rev \in Nat
      BY <1>9, <1>10, <2>2
    <3>. QED  BY <1>2, <1>3, <1>7, <1>13, <2>2, <3>1 DEF RowAgrees
  <2>3. CASE c.book = id /\ c.href # h
    <3>1. last'[id][c.href] <= books'[id].revision
      BY <1>3, <1>9, <1>12 DEF LastWithinRevision
    <3>. QED  BY <1>7, <1>9, <1>13, <2>3, <3>1 DEF RowAgrees
  <2>. QED  BY <2>1, <2>2, <2>3
<1>15. ASSUME new \in LiveChanges' PROVE RowAgrees(new)'
  <2>1. \A d \in LiveChanges' : new.book = d.book /\ new.rev = d.rev => new = d
    BY <1>6, <1>13, <1>15
  <2>2. new.rev <= last'[id][h] /\ last'[id][h] <= books'[id].revision
    BY <1>2, <1>3, <1>5, <1>7
  <2>. QED  BY <1>5, <1>7, <2>1, <2>2 DEF RowAgrees
<1>16. JournalAgrees'
  BY <1>6, <1>14, <1>15 DEF JournalAgrees, RowAgrees
<1>. QED  BY <1>1, <1>11, <1>12, <1>16 DEF JournalInv

\* A book that goes takes its rows out of LiveChanges and touches no other.
LEMMA RemoveBooksJournal ==
    ASSUME JournalInv, TypeOK', NEW ids, NEW fk, RemoveBooks(ids, fk), UNCHANGED <<seq, last>>
    PROVE  JournalInv'
<1>1. \A id \in Live' : /\ id \in Live /\ books'[id] = books[id] /\ cards'[id] = cards[id]
  BY DEF RemoveBooks, Live
<1>2. \A c \in LiveChanges' : c \in LiveChanges /\ c.book \in Live'
  BY <1>1 DEF RemoveBooks, LiveChanges, Live, JournalInv, TypeOK, Change
<1>3. JournalAgrees'
  BY <1>1, <1>2, KeepsAgreement DEF JournalInv
<1>4. LastWithinRevision'
  BY <1>1 DEF JournalInv, LastWithinRevision
<1>5. UnusedIdsAreBlank'
  BY DEF JournalInv, UnusedIdsAreBlank, RemoveBooks
<1>. QED  BY <1>3, <1>4, <1>5 DEF JournalInv

LEMMA CreateAddressbookJournal ==
    ASSUME JournalInv, TypeOK', NEW u, NEW s, NEW n, NEW fk, CreateAddressbook(u, s, n, fk)
    PROVE  JournalInv'
<1> DEFINE id == NewBookId
<1>1. /\ id \in BookIds /\ id > seq.books
      /\ \A o \in BookIds \ {id} : books'[o] = books[o]
      /\ books'[id].revision = 0
      /\ seq'.books = id
  BY DEF CreateAddressbook, NewBookId, JournalInv, TypeOK
<1>2. /\ books[id] = NoRow
      /\ \A h \in Hrefs : cards[id][h] = NoRow /\ last[id][h] = 0
      /\ \A c \in changes : c.book # id
  BY <1>1 DEF JournalInv, UnusedIdsAreBlank
<1>3. /\ cards' = cards /\ changes' = changes /\ last' = last
  BY DEF CreateAddressbook
<1>. HIDE DEF id
<1>4. \A c \in LiveChanges' : c \in LiveChanges /\ c.book \in BookIds \ {id}
  BY <1>1, <1>2, <1>3 DEF LiveChanges, JournalInv, TypeOK, Change
<1>5. JournalAgrees'
  BY <1>1, <1>3, <1>4, KeepsAgreement DEF JournalInv
<1>6. LastWithinRevision'
  <2>1. ASSUME NEW o \in Live', NEW h \in Hrefs PROVE last'[o][h] <= books'[o].revision
    <3>1. CASE o = id
      BY <1>1, <1>2, <1>3, <3>1
    <3>2. CASE o # id
      BY <1>1, <1>3, <3>2 DEF Live, JournalInv, LastWithinRevision
    <3>. QED  BY <3>1, <3>2
  <2>. QED  BY <2>1 DEF LastWithinRevision
<1>7. UnusedIdsAreBlank'
  <2>1. ASSUME NEW o \in BookIds, o > id PROVE o > seq.books /\ o # id
    BY <1>1, <2>1, BoundsAssumption DEF BookIds, JournalInv, TypeOK
  <2>. QED  BY <1>1, <1>3, <2>1 DEF JournalInv, UnusedIdsAreBlank
<1>. QED  BY <1>5, <1>6, <1>7 DEF JournalInv

LEMMA UpdateMetadataJournal ==
    ASSUME JournalInv, TypeOK', NEW n \in Usernames, NEW s \in Slugs, NEW name \in Names,
           UpdateAddressbookMetadata(n, s, name)
    PROVE  /\ JournalInv'
           /\ Live' = Live /\ \A id \in Live : books'[id].revision = books[id].revision
<1>1. PICK id \in AddressbookOf(n, s) :
        /\ books' = [books EXCEPT ![id] = [books[id] EXCEPT !.name = name]]
        /\ UNCHANGED <<users, cards, changes, seq, clock, last>>
  BY DEF UpdateAddressbookMetadata
<1>2. id \in Live /\ id \in BookIds /\ books[id] \in BookRow
  BY DEF AddressbookOf, Live, JournalInv, TypeOK
<1> DEFINE row == [books[id] EXCEPT !.name = name]
<1>3. row \in BookRow /\ row.revision = books[id].revision
  BY <1>2, BookFields
<1>4. books' = [books EXCEPT ![id] = row]
  BY <1>1
<1>. HIDE DEF row
<1>5. row # NoRow
  BY <1>3, NoRowAssumption
<1>6. Live' = Live /\ \A o \in Live : books'[o].revision = books[o].revision
  BY <1>2, <1>3, <1>4, <1>5 DEF Live, JournalInv, TypeOK
<1>7. \A c \in LiveChanges' : c \in LiveChanges /\ c.book \in Live
  BY <1>1, <1>6 DEF LiveChanges, Live, JournalInv, TypeOK, Change
<1>8. JournalAgrees'
  BY <1>1, <1>6, <1>7, KeepsAgreement DEF JournalInv
<1>9. LastWithinRevision'
  BY <1>1, <1>6 DEF JournalInv, LastWithinRevision
<1>10. UnusedIdsAreBlank'
  BY <1>1, <1>2, <1>4 DEF JournalInv, UnusedIdsAreBlank, Live
<1>. QED  BY <1>6, <1>8, <1>9, <1>10 DEF JournalInv

\* Steps that change neither books, cards nor the history, and only remove rows.
LEMMA OnlyPrunesJournal ==
    ASSUME JournalInv, TypeOK', UNCHANGED <<books, cards, seq, last>>, changes' \subseteq changes
    PROVE  JournalInv'
<1>1. \A c \in LiveChanges' : c \in LiveChanges
  BY DEF LiveChanges
<1>2. JournalAgrees'
  BY <1>1, KeepsAgreement DEF JournalInv
<1>. QED  BY <1>2 DEF JournalInv, LastWithinRevision, UnusedIdsAreBlank, Live

LEMMA JournalStep == JournalInv /\ [StoreNext]_storeVars => JournalInv'
<1>. SUFFICES ASSUME JournalInv, [StoreNext]_storeVars PROVE JournalInv'
  OBVIOUS
<1>1. TypeOK'
  BY TypeStep DEF JournalInv
<1>2. CASE UserStep
  <2>1. ASSUME NEW u \in UserIds, DeleteUser(u) PROVE JournalInv'
    <3>1. RemoveBooks({id \in Live : books[id].owner = u}, TRUE) /\ UNCHANGED <<seq, last>>
      BY <2>1 DEF DeleteUser
    <3>. QED  BY <1>1, <3>1, RemoveBooksJournal
  <2>2. ASSUME NEW n \in Usernames, NEW p \in Hashes, CreateUser(n, p) PROVE JournalInv'
    <3>1. UNCHANGED <<books, cards, changes, last>> /\ seq'.books = seq.books
      BY <2>2 DEF CreateUser, JournalInv, TypeOK
    <3>2. \A c \in LiveChanges' : c \in LiveChanges
      BY <3>1 DEF LiveChanges
    <3>3. JournalAgrees'
      BY <3>1, <3>2, KeepsAgreement DEF JournalInv
    <3>. QED  BY <1>1, <3>1, <3>3 DEF JournalInv, LastWithinRevision, UnusedIdsAreBlank, Live
  <2>3. ASSUME NEW u \in UserIds, NEW p \in Hashes, SetUserPasswordHash(u, p) PROVE JournalInv'
    BY <1>1, <2>3, OnlyPrunesJournal DEF SetUserPasswordHash
  <2>. QED  BY <1>2, <2>1, <2>2, <2>3 DEF UserStep
<1>3. CASE BookStep
  <2>1. ASSUME NEW n \in Usernames, NEW s \in Slugs, NEW fk \in ForeignKeys,
               DeleteAddressbook(n, s, fk)
        PROVE  JournalInv'
    <3>1. RemoveBooks(AddressbookOf(n, s), fk) /\ UNCHANGED <<seq, last>>
      BY <2>1 DEF DeleteAddressbook
    <3>. QED  BY <1>1, <3>1, RemoveBooksJournal
  <2>. QED  BY <1>1, <1>3, <2>1, CreateAddressbookJournal, UpdateMetadataJournal DEF BookStep
<1>4. CASE CardStep
  <2>1. PICK id \in BookIds :
          \/ \E in \in PutInput, cond \in {Unconditional, NoRow} \cup ETags : PutCards(id, <<in>>, cond)
          \/ \E n \in 2 .. MaxBatch : \E b \in [1 .. n -> PutInput] : PutCards(id, b, Unconditional)
          \/ \E h \in Hrefs, cond \in {Unconditional} \cup ETags : DeleteCard(id, h, cond)
    BY <1>4 DEF CardStep
  <2>2. ASSUME NEW in \in PutInput, NEW cond, PutCards(id, <<in>>, cond) PROVE JournalInv'
    <3>1. <<in>> \in Seq(PutInput) /\ Len(<<in>>) > 0
      BY Batches
    <3>. QED  BY <2>2, <3>1, PutCardsJournal
  <2>3. ASSUME NEW n \in 2 .. MaxBatch, NEW b \in [1 .. n -> PutInput],
               PutCards(id, b, Unconditional)
        PROVE  JournalInv'
    <3>1. b \in Seq(PutInput) /\ Len(b) > 0
      BY Batches, BoundsAssumption
    <3>. QED  BY <2>3, <3>1, PutCardsJournal
  <2>4. ASSUME NEW h \in Hrefs, NEW cond, DeleteCard(id, h, cond) PROVE JournalInv'
    BY <2>4, DeleteCardJournal
  <2>. QED  BY <2>1, <2>2, <2>3, <2>4
<1>5. CASE PruneStep
  BY <1>1, <1>5, OnlyPrunesJournal
     DEF PruneStep, PruneCardChangesByAge, PruneCardChangesByMaxRevisions
<1>6. CASE Tick
  BY <1>1, <1>6, OnlyPrunesJournal DEF Tick
<1>7. CASE UNCHANGED storeVars
  BY <1>1, <1>7, OnlyPrunesJournal DEF storeVars
<1>. QED  BY <1>2, <1>3, <1>4, <1>5, <1>6, <1>7 DEF StoreNext

LEMMA JournalInit == StoreInit => JournalInv
<1>. SUFFICES ASSUME StoreInit PROVE JournalInv
  OBVIOUS
<1>1. Live = {} /\ LiveChanges = {}
  BY DEF StoreInit, Live, LiveChanges
<1>2. UnusedIdsAreBlank
  BY DEF StoreInit, UnusedIdsAreBlank
<1>. QED  BY <1>1, <1>2, TypeInit DEF JournalInv, LastWithinRevision, JournalAgrees

THEOREM JournalInvariant == StoreSpec => []JournalInv
<1>1. StoreInit => JournalInv
  BY JournalInit
<1>2. JournalInv /\ [StoreNext]_storeVars => JournalInv'
  BY JournalStep
<1>. QED  BY <1>1, <1>2, PTL DEF StoreSpec

\* For every number of books, cards, writes and prunes, and whatever foreign_keys
\* leaves behind, the retained journal says what the cards are.
THEOREM JournalCorrect == StoreSpec => []JournalAgrees
<1>1. JournalInv => JournalAgrees
  BY DEF JournalInv
<1>. QED  BY <1>1, JournalInvariant, PTL

-----------------------------------------------------------------------------
(* What one step may never do *)

\* The steps that write no card leave the cards of every book that survives them.
LEMMA OtherStepsKeepCards ==
    ASSUME JournalInv, UserStep \/ BookStep \/ PruneStep \/ Tick
    PROVE  \A id \in BookIds : books'[id] # NoRow => cards'[id] = cards[id]
<1>1. ASSUME NEW ids, NEW fk, RemoveBooks(ids, fk)
      PROVE  \A id \in BookIds : books'[id] # NoRow => cards'[id] = cards[id]
  BY <1>1 DEF RemoveBooks
<1>2. CASE UserStep
  BY <1>1, <1>2 DEF UserStep, CreateUser, SetUserPasswordHash, DeleteUser
<1>3. CASE BookStep
  BY <1>1, <1>3 DEF BookStep, CreateAddressbook, UpdateAddressbookMetadata, DeleteAddressbook
<1>4. CASE PruneStep \/ Tick
  BY <1>4 DEF PruneStep, PruneCardChangesByAge, PruneCardChangesByMaxRevisions, Tick
<1>. QED  BY <1>2, <1>3, <1>4

LEMMA RevisionStep == JournalInv /\ [StoreNext]_storeVars => [SameRevisionSameCards]_storeVars
<1>. SUFFICES ASSUME JournalInv, StoreNext PROVE SameRevisionSameCards
  OBVIOUS
<1>1. CASE UserStep \/ BookStep \/ PruneStep \/ Tick
  BY <1>1, OtherStepsKeepCards DEF SameRevisionSameCards
<1>2. CASE CardStep
  <2>1. PICK id \in BookIds :
          \/ \E in \in PutInput, cond \in {Unconditional, NoRow} \cup ETags : PutCards(id, <<in>>, cond)
          \/ \E n \in 2 .. MaxBatch : \E b \in [1 .. n -> PutInput] : PutCards(id, b, Unconditional)
          \/ \E h \in Hrefs, cond \in {Unconditional} \cup ETags : DeleteCard(id, h, cond)
    BY <1>2 DEF CardStep
  <2>2. ASSUME NEW b \in Seq(PutInput), Len(b) > 0, NEW cond, PutCards(id, b, cond)
        PROVE  SameRevisionSameCards
    <3>1. /\ books[id].revision \in Nat /\ books'[id].revision = books[id].revision + Len(b)
          /\ \A o \in BookIds \ {id} : cards'[o] = cards[o]
      BY <2>2, PutCardsFrame DEF JournalInv
    <3>2. Len(b) \in Nat
      BY LenProperties
    <3>3. books'[id].revision # books[id].revision
      BY <2>2, <3>1, <3>2
    <3>. QED  BY <3>1, <3>3 DEF SameRevisionSameCards
  <2>3. ASSUME NEW in \in PutInput, NEW cond, PutCards(id, <<in>>, cond)
        PROVE  SameRevisionSameCards
    <3>1. <<in>> \in Seq(PutInput) /\ Len(<<in>>) > 0
      BY Batches
    <3>. QED  BY <2>2, <2>3, <3>1
  <2>4. ASSUME NEW n \in 2 .. MaxBatch, NEW b \in [1 .. n -> PutInput],
               PutCards(id, b, Unconditional)
        PROVE  SameRevisionSameCards
    <3>1. b \in Seq(PutInput) /\ Len(b) > 0
      BY Batches, BoundsAssumption
    <3>. QED  BY <2>2, <2>4, <3>1
  <2>5. ASSUME NEW h \in Hrefs, NEW cond, DeleteCard(id, h, cond) PROVE SameRevisionSameCards
    <3>1. /\ books[id].revision \in Nat /\ books'[id].revision = books[id].revision + 1
          /\ \A o \in BookIds \ {id} : cards'[o] = cards[o]
      BY <2>5, DeleteCardFrame DEF JournalInv
    <3>. QED  BY <3>1 DEF SameRevisionSameCards
  <2>. QED  BY <2>1, <2>3, <2>4, <2>5
<1>. QED  BY <1>1, <1>2 DEF StoreNext

\* An unchanged ctag or sync-token means unchanged cards, at every step.
THEOREM CTagCorrect == StoreSpec => CTagTracksCards
<1>1. JournalInv /\ [StoreNext]_storeVars => [SameRevisionSameCards]_storeVars
  BY RevisionStep
<1>. QED  BY <1>1, JournalInvariant, PTL DEF StoreSpec, CTagTracksCards

LEMMA NewBookStep == JournalInv /\ [StoreNext]_storeVars => [NewBookIsBlank]_storeVars
<1>. SUFFICES ASSUME JournalInv, StoreNext, NEW id \in BookIds, books[id] = NoRow, books'[id] # NoRow
              PROVE  /\ \A h \in Hrefs : last[id][h] = 0 /\ cards'[id][h] = NoRow
                     /\ \A c \in changes' : c.book # id
  BY DEF NewBookIsBlank
<1>1. ASSUME NEW ids, NEW fk, RemoveBooks(ids, fk) PROVE FALSE
  BY <1>1 DEF RemoveBooks
<1>2. CASE UserStep \/ PruneStep \/ Tick
  BY <1>1, <1>2 DEF UserStep, CreateUser, SetUserPasswordHash, DeleteUser,
     PruneStep, PruneCardChangesByAge, PruneCardChangesByMaxRevisions, Tick
<1>3. CASE BookStep
  <2>1. ASSUME NEW u, NEW s, NEW n, NEW fk, CreateAddressbook(u, s, n, fk)
        PROVE  /\ id > seq.books /\ cards' = cards /\ changes' = changes
    <3>1. id = NewBookId
      BY <2>1 DEF CreateAddressbook, JournalInv, TypeOK
    <3>. QED  BY <2>1, <3>1 DEF CreateAddressbook, NewBookId, JournalInv, TypeOK
  <2>2. ASSUME NEW n \in Usernames, NEW s \in Slugs, NEW name \in Names,
               UpdateAddressbookMetadata(n, s, name)
        PROVE  FALSE
    BY <2>2 DEF UpdateAddressbookMetadata, AddressbookOf, Live, JournalInv, TypeOK
  <2>3. ASSUME NEW n, NEW s, NEW fk, DeleteAddressbook(n, s, fk) PROVE FALSE
    BY <1>1, <2>3 DEF DeleteAddressbook
  <2>. QED  BY <1>3, <2>1, <2>2, <2>3 DEF BookStep, JournalInv, UnusedIdsAreBlank
<1>4. CASE CardStep
  <2>1. PICK o \in BookIds : books[o] # NoRow /\ \E n : books' = Bumped(o, n)
    BY <1>4 DEF CardStep, PutCards, DeleteCard
  <2>2. books'[id] = books[id]
    BY <2>1 DEF Bumped, JournalInv, TypeOK
  <2>. QED  BY <2>2
<1>. QED  BY <1>2, <1>3, <1>4 DEF StoreNext

\* A token of a deleted book never names a later one, however often books come
\* and go and even where the cascade left rows behind.
THEOREM FreshBooks == StoreSpec => FreshBookIsEmpty
<1>1. JournalInv /\ [StoreNext]_storeVars => [NewBookIsBlank]_storeVars
  BY NewBookStep
<1>. QED  BY <1>1, JournalInvariant, PTL DEF StoreSpec, FreshBookIsEmpty
=============================================================================
