--------------------------- MODULE TransferProofs --------------------------
(***************************************************************************)
(* The transaction of StoreTx.tla, with the imports of Transfer.tla in it, *)
(* implements the one-step writes of Store.tla: for batches of any length, *)
(* any number of books and cards, and a rollback or crash at any of its    *)
(* statements.  An imported directory is a snapshot of it, and what the    *)
(* command reports is true, of a dry run as of an import.                  *)
(***************************************************************************)
EXTENDS Transfer, StoreProofs, FiniteSetTheorems

-----------------------------------------------------------------------------
(* The closed forms of PutCards, as functions of what they start from *)

CardPut(in) == [uid |-> in.uid, etag |-> in.etag]
After(cs, b, n) ==
    [h \in Hrefs |-> IF Writes(b, n, h) = {} THEN cs[h]
                     ELSE CardPut(b[Max(Writes(b, n, h))])]
LastAfter(ls, r, b, n) ==
    [h \in Hrefs |-> IF Writes(b, n, h) = {} THEN ls[h] ELSE r + Max(Writes(b, n, h))]

\* What the instance's operators are in these terms.
Unfolded ==
    /\ \A id, b, n : Committed!CardsAfter(id, b, n) = After(Seen(2)[id], b, n)
    /\ \A id, n : Committed!Bumped(id, n) = [Seen(1) EXCEPT ![id].revision = @ + n]
    /\ \A id, b, j : Committed!PutRow(id, b, j) =
          [book |-> id, href |-> b[j].href, etag |-> b[j].etag, deleted |-> FALSE,
           rev |-> Seen(1)[id].revision + j, at |-> clock]
    /\ \A id, h, now : Committed!DeleteRow(id, h, now) =
          [book |-> id, href |-> h, etag |-> Seen(2)[id][h].etag, deleted |-> TRUE,
           rev |-> Seen(1)[id].revision + 1, at |-> now]
    /\ Committed!Live = {id \in BookIds : Seen(1)[id] # NoRow}

LEMMA SameMax == ASSUME NEW S PROVE Committed!Max(S) = Max(S)
  BY Zenon DEF Committed!Max, Max

LEMMA SameWrites == ASSUME NEW b, NEW n, NEW h PROVE Committed!Writes(b, n, h) = Writes(b, n, h)
  BY Zenon DEF Committed!Writes, Writes

LEMMA Unfold == Unfolded
<1>1. ASSUME NEW id, NEW b, NEW n PROVE Committed!CardsAfter(id, b, n) = After(Seen(2)[id], b, n)
  BY SameMax, SameWrites, Zenon DEF Committed!CardsAfter, After, CardPut
<1>2. \A id, n : Committed!Bumped(id, n) = [Seen(1) EXCEPT ![id].revision = @ + n]
  BY DEF Committed!Bumped
<1>. QED  BY <1>1, <1>2 DEF Unfolded, Committed!PutRow, Committed!DeleteRow, Committed!RevisionOf,
                            Committed!Live, Committed!BookIds, BookIds

LEMMA UnfoldNext == Unfolded'
  BY Unfold, PTL

-----------------------------------------------------------------------------
(* One more element of a batch *)

LEMMA WritesNone == ASSUME NEW b, NEW h PROVE Writes(b, 0, h) = {}
  BY DEF Writes

LEMMA WritesNext ==
  ASSUME NEW b \in Seq(PutInput), NEW i \in 1 .. Len(b), NEW h
  PROVE  IF b[i].href = h THEN Writes(b, i, h) # {} /\ Max(Writes(b, i, h)) = i
         ELSE Writes(b, i, h) = Writes(b, i - 1, h)
<1>0. i \in Nat /\ i > 0 /\ i \in 0 .. Len(b)
  BY LenProperties
<1>1. CASE b[i].href = h
  <2>1. i \in Writes(b, i, h)
    BY <1>0, <1>1 DEF Writes
  <2>2. Writes(b, i, h) # {}
    BY <2>1
  <2>3. Max(Writes(b, i, h)) \in 1 .. i /\ i <= Max(Writes(b, i, h))
    BY <1>0, <1>1, <2>2, LastWrite
  <2>. QED  BY <1>0, <1>1, <2>2, <2>3
<1>2. CASE b[i].href # h
  BY <1>0, <1>2 DEF Writes
<1>. QED  BY <1>1, <1>2

\* An element overwrites one card and no other.
LEMMA AfterNone == ASSUME NEW cs \in [Hrefs -> Card \cup {NoRow}], NEW b PROVE After(cs, b, 0) = cs
  BY WritesNone DEF After

LEMMA AfterNext ==
  ASSUME NEW cs, NEW b \in Seq(PutInput), NEW i \in 1 .. Len(b)
  PROVE  After(cs, b, i) = [After(cs, b, i - 1) EXCEPT ![b[i].href] = CardPut(b[i])]
<1>1. ASSUME NEW h \in Hrefs
      PROVE  After(cs, b, i)[h] =
               IF h = b[i].href THEN CardPut(b[i]) ELSE After(cs, b, i - 1)[h]
  BY WritesNext, Zenon DEF After, CardPut
<1>. QED  BY <1>1 DEF After

LEMMA LastAfterNone == ASSUME NEW ls \in [Hrefs -> Nat], NEW r, NEW b PROVE LastAfter(ls, r, b, 0) = ls
  BY WritesNone DEF LastAfter

LEMMA LastAfterNext ==
  ASSUME NEW ls, NEW r, NEW b \in Seq(PutInput), NEW i \in 1 .. Len(b)
  PROVE  LastAfter(ls, r, b, i) = [LastAfter(ls, r, b, i - 1) EXCEPT ![b[i].href] = r + i]
<1>1. ASSUME NEW h \in Hrefs
      PROVE  LastAfter(ls, r, b, i)[h] =
               IF h = b[i].href THEN r + i ELSE LastAfter(ls, r, b, i - 1)[h]
  BY WritesNext, Zenon DEF LastAfter
<1>. QED  BY <1>1 DEF LastAfter

\* Both stay within their types.
LEMMA AfterType ==
  ASSUME NEW cs \in [Hrefs -> Card \cup {NoRow}], NEW b \in Seq(PutInput), NEW n \in 0 .. Len(b)
  PROVE  After(cs, b, n) \in [Hrefs -> Card \cup {NoRow}]
<1>1. ASSUME NEW h \in Hrefs, Writes(b, n, h) # {}
      PROVE  CardPut(b[Max(Writes(b, n, h))]) \in Card
  <2>1. b[Max(Writes(b, n, h))] \in PutInput
    BY <1>1, LastWrite
  <2>. QED  BY <2>1 DEF PutInput, Card, CardPut
<1>. QED  BY <1>1, Zenon DEF After

LEMMA LastAfterType ==
  ASSUME NEW ls \in [Hrefs -> Nat], NEW r \in Nat, NEW b \in Seq(PutInput), NEW n \in 0 .. Len(b)
  PROVE  LastAfter(ls, r, b, n) \in [Hrefs -> Nat]
<1>1. ASSUME NEW h \in Hrefs, Writes(b, n, h) # {}
      PROVE  r + Max(Writes(b, n, h)) \in Nat
  <2>1. Max(Writes(b, n, h)) \in 1 .. n /\ n \in Nat
    BY <1>1, LastWrite, LenProperties
  <2>. QED  BY <2>1
<1>. QED  BY <1>1, Zenon DEF LastAfter

-----------------------------------------------------------------------------
(* The transaction in flight, in these terms *)

RowPut(x, r, j, t) ==
    [book |-> x.id, href |-> x.batch[j].href, etag |-> x.batch[j].etag, deleted |-> FALSE,
     rev |-> r + j, at |-> t]
RowDeleted(x, r, etag) ==
    [book |-> x.id, href |-> x.batch[1].href, etag |-> etag, deleted |-> TRUE,
     rev |-> r + 1, at |-> x.now]

\* The revision and the cards of the book of a transaction, before it.
Revision0 == Seen(1)[tx.id].revision
Cards0 == Seen(2)[tx.id]

FlyingShape ==
    /\ tx.id \in BookIds /\ tx.op \in {"put", "delete"}
    /\ tx.batch \in Seq(PutInput) /\ Len(tx.batch) \in {1} \cup 1 .. MaxBatch
    /\ \/ tx.stmt = "commit" /\ tx.i = Len(tx.batch) + 1
       \/ tx.stmt \in {"write", "bump", "journal"} /\ tx.i \in 1 .. Len(tx.batch)
    /\ tx.cond = Unconditional /\ tx.now \in 0 .. clock /\ tx.created \in 0 .. CardsDone
FlyingBooks ==
    /\ Seen(1)[tx.id] # NoRow => Revision0 + Len(tx.batch) <= MaxRev
    /\ BumpsDone > 0 => Seen(1)[tx.id] # NoRow
    /\ books = IF BumpsDone = 0 THEN Seen(1) ELSE [Seen(1) EXCEPT ![tx.id].revision = @ + BumpsDone]
FlyingPut ==
    /\ cards = [Seen(2) EXCEPT ![tx.id] = After(Cards0, tx.batch, CardsDone)]
    /\ changes = Seen(3) \cup {RowPut(tx, Revision0, j, clock) : j \in 1 .. RowsDone}
    /\ last = [Seen(4) EXCEPT ![tx.id] = LastAfter(Seen(4)[tx.id], Revision0, tx.batch, RowsDone)]
    /\ \A j \in 1 .. CardsDone : UidFree(After(Cards0, tx.batch, j - 1), tx.batch[j])
    /\ tx.now = clock
FlyingDelete ==
    LET h == tx.batch[1].href IN
    /\ Len(tx.batch) = 1
    /\ clock - tx.now <= LockWait
    /\ cards = IF CardsDone = 0 THEN Seen(2) ELSE [Seen(2) EXCEPT ![tx.id][h] = NoRow]
    /\ CardsDone = 1 => Cards0[h] # NoRow /\ tx.batch[1].etag = Cards0[h].etag
    /\ changes = Seen(3) \cup IF RowsDone = 0 THEN {} ELSE {RowDeleted(tx, Revision0, Cards0[h].etag)}
    /\ last = IF RowsDone = 0 THEN Seen(4) ELSE [Seen(4) EXCEPT ![tx.id][h] = Revision0 + 1]
Flying ==
    /\ FlyingShape /\ FlyingBooks
    /\ tx.op = "put" => FlyingPut
    /\ tx.op = "delete" => FlyingDelete

LEMMA SameInFlight == InFlight <=> Flying
<1>1. tx.id \in BookIds => (tx.id \in Committed!Live <=> Seen(1)[tx.id] # NoRow)
  BY Unfold DEF Unfolded
<1>2. BooksSoFar <=> books = IF BumpsDone = 0 THEN Seen(1)
                             ELSE [Seen(1) EXCEPT ![tx.id].revision = @ + BumpsDone]
  BY Unfold, Zenon DEF Unfolded, BooksSoFar
<1>3. {Committed!PutRow(tx.id, tx.batch, j) : j \in 1 .. RowsDone}
        = {RowPut(tx, Revision0, j, clock) : j \in 1 .. RowsDone}
  BY Unfold, Zenon DEF Unfolded, RowPut, Revision0
<1>4. [h \in Hrefs |-> IF Writes(tx.batch, RowsDone, h) = {} THEN Seen(4)[tx.id][h]
                       ELSE Seen(1)[tx.id].revision + Max(Writes(tx.batch, RowsDone, h))]
        = LastAfter(Seen(4)[tx.id], Revision0, tx.batch, RowsDone)
  BY Zenon DEF LastAfter, Revision0
<1>5. \A n : Committed!CardsAfter(tx.id, tx.batch, n) = After(Cards0, tx.batch, n)
  BY Unfold, Zenon DEF Unfolded, Cards0
<1>6. PutSoFar <=> FlyingPut
  <2>1. [Seen(2) EXCEPT ![tx.id] = Committed!CardsAfter(tx.id, tx.batch, CardsDone)]
          = [Seen(2) EXCEPT ![tx.id] = After(Cards0, tx.batch, CardsDone)]
    BY <1>5
  <2>2. \A j : UidFree(Committed!CardsAfter(tx.id, tx.batch, j - 1), tx.batch[j])
          <=> UidFree(After(Cards0, tx.batch, j - 1), tx.batch[j])
    BY <1>5
  <2>. QED  BY <1>3, <1>4, <2>1, <2>2, SMT DEF PutSoFar, FlyingPut
<1>7. Committed!DeleteRow(tx.id, tx.batch[1].href, tx.now)
        = RowDeleted(tx, Revision0, Cards0[tx.batch[1].href].etag)
  BY Unfold, Zenon DEF Unfolded, RowDeleted, Revision0, Cards0
<1>8. DeleteSoFar <=> FlyingDelete
  BY <1>7, Zenon DEF DeleteSoFar, FlyingDelete, Revision0, Cards0
<1>. QED  BY <1>1, <1>2, <1>6, <1>8, Zenon DEF InFlight, Flying, FlyingShape, FlyingBooks, Revision0

LEMMA SameInFlightNext == InFlight' <=> Flying'
  BY SameInFlight, PTL

\* While one is in flight nothing of what it started from can change.
LEMMA Frozen ==
  ASSUME ~Free, ~Free', tx'.old = tx.old
  PROVE  \A k \in 1 .. 4 : Seen(k)' = Seen(k)
  BY DEF Seen

LEMMA FreeOrFlying == ASSUME TxInv PROVE (Free => tx = NoTx) /\ (~Free => Flying)
<1>1. InFlight => ~Free
  BY DEF InFlight, Free
<1>2. tx = NoTx => Free
  BY DEF NoTx, Free
<1>. QED  BY <1>1, <1>2, SameInFlight DEF TxInv

\* A statement of it is no step of the store.
LEMMA StatementStutters ==
  ASSUME TxInv, ~Free, ~Free', tx'.old = tx.old, DOMAIN tx' = DOMAIN NoTx,
         UNCHANGED <<users, seq, clock>>, Flying'
  PROVE  TxInv' /\ UNCHANGED Committed!storeVars
<1>1. \A k \in 1 .. 4 : Seen(k)' = Seen(k)
  BY Frozen
<1>2. /\ Seen(1)' = Seen(1) /\ Seen(2)' = Seen(2)
      /\ Seen(3)' = Seen(3) /\ Seen(4)' = Seen(4)
  BY <1>1
<1>3. CommittedOK'
  BY <1>2 DEF TxInv, CommittedOK
<1>. QED  BY <1>2, <1>3, SameInFlightNext DEF TxInv, Committed!storeVars

-----------------------------------------------------------------------------
(* The statements *)

LEMMA PutCardRowFlies ==
  ASSUME TxInv, tx.stmt = "write", tx.op = "put", PutCardRow,
         UNCHANGED <<users, books, changes, seq, clock, last>>
  PROVE  TxInv' /\ UNCHANGED Committed!storeVars
<1> DEFINE i == tx.i
           in == tx.batch[i]
<1>1. ~Free /\ Flying /\ DOMAIN tx = DOMAIN NoTx
  BY FreeOrFlying DEF Free, TxInv
<1>a. tx.created \in Nat
  BY <1>1, LenProperties DEF Flying, FlyingShape, CardsDone
<1>2. /\ tx'.stmt = "bump" /\ tx'.op = tx.op /\ tx'.id = tx.id /\ tx'.batch = tx.batch /\ tx'.i = i
      /\ tx'.cond = tx.cond /\ tx'.now = tx.now /\ tx'.old = tx.old /\ DOMAIN tx' = DOMAIN NoTx
      /\ tx'.created \in {tx.created, tx.created + 1}
  BY <1>1, <1>a DEF PutCardRow, NoTx
<1>3. ~Free'
  BY <1>2 DEF Free
<1>4. Seen(1)' = Seen(1) /\ Seen(2)' = Seen(2) /\ Seen(3)' = Seen(3) /\ Seen(4)' = Seen(4)
  BY <1>1, <1>2, <1>3, Frozen
<1>5. /\ i \in 1 .. Len(tx.batch) /\ Len(tx.batch) \in Nat /\ i \in Nat
      /\ CardsDone = i - 1 /\ CardsDone' = i /\ BumpsDone = i - 1 /\ BumpsDone' = i - 1
      /\ RowsDone = i - 1 /\ RowsDone' = i - 1
  BY <1>1, <1>2, LenProperties DEF Flying, FlyingShape, CardsDone, BumpsDone, RowsDone
<1>6. FlyingShape'
  BY <1>1, <1>2, <1>5 DEF Flying, FlyingShape
<1>7. FlyingBooks'
  BY <1>1, <1>2, <1>4, <1>5 DEF Flying, FlyingBooks, Revision0
<1>8. Revision0' = Revision0 /\ Cards0' = Cards0
  BY <1>2, <1>4 DEF Revision0, Cards0
<1>9. /\ Seen(2) \in [BookIds -> [Hrefs -> Card \cup {NoRow}]]
      /\ tx.id \in BookIds /\ tx.batch \in Seq(PutInput) /\ FlyingPut
  BY <1>1 DEF TxInv, CommittedOK, Flying, FlyingShape
<1>10. cards[tx.id] = After(Cards0, tx.batch, i - 1)
  BY <1>5, <1>9 DEF FlyingPut
<1>11. cards' = [Seen(2) EXCEPT ![tx.id] = After(Cards0, tx.batch, i)]
  <2>1. cards' = [cards EXCEPT ![tx.id][in.href] = CardPut(in)]
    BY DEF PutCardRow, CardPut
  <2>2. After(Cards0, tx.batch, i) = [After(Cards0, tx.batch, i - 1) EXCEPT ![in.href] = CardPut(in)]
    <3>1. i \in 1 .. Len(tx.batch) /\ tx.batch \in Seq(PutInput)
      BY <1>5, <1>9
    <3>. QED  BY <3>1, AfterNext
  <2>3. cards = [Seen(2) EXCEPT ![tx.id] = After(Cards0, tx.batch, i - 1)]
    BY <1>5, <1>9 DEF FlyingPut
  <2>. QED  BY <1>9, <2>1, <2>2, <2>3
<1>12. \A j \in 1 .. i : UidFree(After(Cards0, tx.batch, j - 1), tx.batch[j])
  <2>1. UidFree(After(Cards0, tx.batch, i - 1), in)
    BY <1>10 DEF PutCardRow
  <2>2. \A j \in 1 .. i - 1 : UidFree(After(Cards0, tx.batch, j - 1), tx.batch[j])
    BY <1>5, <1>9 DEF FlyingPut
  <2>. QED  BY <1>5, <2>1, <2>2
<1>13. {RowPut(tx, Revision0, j, clock)' : j \in 1 .. i - 1} = {RowPut(tx, Revision0, j, clock) : j \in 1 .. i - 1}
  BY <1>2, <1>8 DEF RowPut
<1>14. FlyingPut'
  BY <1>2, <1>4, <1>5, <1>8, <1>9, <1>11, <1>12, <1>13 DEF FlyingPut
<1>15. Flying'
  BY <1>2, <1>6, <1>7, <1>14 DEF Flying
<1>. QED  BY <1>1, <1>2, <1>3, <1>15, StatementStutters

LEMMA DeleteCardRowFlies ==
  ASSUME TxInv, tx.stmt = "write", tx.op = "delete", DeleteCardRow,
         UNCHANGED <<users, books, changes, seq, clock, last>>
  PROVE  TxInv' /\ UNCHANGED Committed!storeVars
<1> DEFINE h == tx.batch[1].href
<1>1. ~Free /\ Flying /\ DOMAIN tx = DOMAIN NoTx
  BY FreeOrFlying DEF Free, TxInv
<1>2. FlyingShape /\ FlyingBooks /\ FlyingDelete
  BY <1>1 DEF Flying
<1>3. /\ Len(tx.batch) = 1 /\ tx.i = 1 /\ tx.created = 0 /\ CardsDone = 0 /\ BumpsDone = 0 /\ RowsDone = 0
      /\ tx.batch \in Seq(PutInput) /\ tx.batch[1] \in PutInput /\ tx.id \in BookIds
  BY <1>2, ElementOfSeq DEF FlyingShape, FlyingDelete, CardsDone, BumpsDone, RowsDone
<1>4. /\ Seen(2) \in [BookIds -> [Hrefs -> Card \cup {NoRow}]] /\ cards = Seen(2)
      /\ changes = Seen(3) /\ last = Seen(4) /\ h \in Hrefs
  BY <1>2, <1>3 DEF TxInv, CommittedOK, FlyingDelete, PutInput
<1>5. Cards0[h] # NoRow /\ Cards0[h] \in Card
  BY <1>3, <1>4 DEF DeleteCardRow, Cards0
<1> DEFINE in == [tx.batch[1] EXCEPT !.etag = Cards0[h].etag]
<1>6. /\ tx' = [tx EXCEPT !.stmt = "bump", !.batch = [@ EXCEPT ![1] = in]]
      /\ cards' = [Seen(2) EXCEPT ![tx.id][h] = NoRow]
  BY <1>3, <1>4 DEF DeleteCardRow, Cards0
<1>7. /\ tx'.stmt = "bump" /\ tx'.op = tx.op /\ tx'.id = tx.id /\ tx'.i = tx.i /\ tx'.created = tx.created
      /\ tx'.cond = tx.cond /\ tx'.now = tx.now /\ tx'.old = tx.old /\ DOMAIN tx' = DOMAIN NoTx
      /\ tx'.batch = [tx.batch EXCEPT ![1] = in]
  BY <1>1, <1>6 DEF NoTx
<1>8. in \in PutInput /\ in.href = h /\ in.etag = Cards0[h].etag
  BY <1>3, <1>5 DEF PutInput, Card
<1>9. tx'.batch \in Seq(PutInput) /\ Len(tx'.batch) = 1 /\ tx'.batch[1] = in
  BY <1>3, <1>7, <1>8, ExceptSeq
<1>10. ~Free'
  BY <1>7 DEF Free
<1>11. Seen(1)' = Seen(1) /\ Seen(2)' = Seen(2) /\ Seen(3)' = Seen(3) /\ Seen(4)' = Seen(4)
  BY <1>1, <1>7, <1>10, Frozen
<1>12. CardsDone' = 1 /\ BumpsDone' = 0 /\ RowsDone' = 0
  BY <1>3, <1>7 DEF CardsDone, BumpsDone, RowsDone
<1>13. FlyingShape'
  BY <1>2, <1>3, <1>7, <1>9, <1>12 DEF FlyingShape
<1>14. FlyingBooks'
  BY <1>2, <1>3, <1>7, <1>9, <1>11, <1>12 DEF FlyingBooks, Revision0
<1>15. Cards0' = Cards0
  BY <1>7, <1>11 DEF Cards0
<1>16. FlyingDelete'
  BY <1>2, <1>3, <1>4, <1>5, <1>6, <1>7, <1>8, <1>9, <1>11, <1>12, <1>15 DEF FlyingDelete
<1>17. Flying'
  BY <1>7, <1>13, <1>14, <1>16 DEF Flying
<1>. QED  BY <1>1, <1>7, <1>10, <1>17, StatementStutters

LEMMA BumpFlies == ASSUME TxInv, Bump PROVE TxInv' /\ UNCHANGED Committed!storeVars
<1> DEFINE i == tx.i
<1>1. ~Free /\ Flying /\ DOMAIN tx = DOMAIN NoTx
  BY FreeOrFlying DEF Bump, Free, TxInv
<1>2. FlyingShape /\ FlyingBooks
  BY <1>1 DEF Flying
<1>3. /\ tx'.stmt = "journal" /\ tx'.op = tx.op /\ tx'.id = tx.id /\ tx'.batch = tx.batch /\ tx'.i = i
      /\ tx'.cond = tx.cond /\ tx'.now = tx.now /\ tx'.old = tx.old /\ tx'.created = tx.created
      /\ DOMAIN tx' = DOMAIN NoTx
  BY <1>1 DEF Bump, NoTx
<1>4. ~Free'
  BY <1>3 DEF Free
<1>5. Seen(1)' = Seen(1) /\ Seen(2)' = Seen(2) /\ Seen(3)' = Seen(3) /\ Seen(4)' = Seen(4)
  BY <1>1, <1>3, <1>4, Frozen
<1>6. /\ i \in 1 .. Len(tx.batch) /\ Len(tx.batch) \in Nat /\ i \in Nat /\ tx.id \in BookIds
      /\ CardsDone = i /\ CardsDone' = i /\ BumpsDone = i - 1 /\ BumpsDone' = i
      /\ RowsDone = i - 1 /\ RowsDone' = i - 1
  BY <1>2, <1>3, LenProperties DEF Bump, FlyingShape, CardsDone, BumpsDone, RowsDone
<1>7. FlyingShape'
  BY <1>2, <1>3, <1>6 DEF Bump, FlyingShape
<1>8. Revision0' = Revision0 /\ Cards0' = Cards0
  BY <1>3, <1>5 DEF Revision0, Cards0
<1>9. Seen(1) \in [BookIds -> BookRow \cup {NoRow}]
  BY DEF TxInv, CommittedOK
<1>10. Seen(1)[tx.id] # NoRow
  BY <1>2, <1>6 DEF FlyingBooks, Bump, Live
<1>11. Seen(1)[tx.id] \in BookRow /\ Revision0 \in Nat
  BY <1>6, <1>9, <1>10 DEF BookRow, Revision0
<1>12. books' = [Seen(1) EXCEPT ![tx.id].revision = @ + i]
  <2>1. books = [Seen(1) EXCEPT ![tx.id].revision = @ + (i - 1)]
    <3>1. CASE i = 1
      <4>1. [Seen(1)[tx.id] EXCEPT !.revision = @ + 0] = Seen(1)[tx.id]
        BY <1>11 DEF BookRow
      <4>. QED  BY <1>2, <1>6, <1>9, <3>1, <4>1 DEF FlyingBooks
    <3>2. CASE i # 1
      BY <1>2, <1>6, <3>2 DEF FlyingBooks
    <3>. QED  BY <3>1, <3>2
  <2>2. books[tx.id] = [Seen(1)[tx.id] EXCEPT !.revision = Revision0 + (i - 1)]
    BY <1>6, <1>9, <2>1 DEF Revision0
  <2>3. books' = [books EXCEPT ![tx.id] = [books[tx.id] EXCEPT !.revision = @ + 1]]
    BY DEF Bump, NextRevision
  <2>4. [books[tx.id] EXCEPT !.revision = @ + 1] = [Seen(1)[tx.id] EXCEPT !.revision = Revision0 + i]
    <3>1. books[tx.id].revision = Revision0 + (i - 1)
      BY <1>11, <2>2 DEF BookRow
    <3>2. books[tx.id].revision + 1 = Revision0 + i
      BY <1>6, <1>11, <3>1
    <3>. QED  BY <1>11, <2>2, <3>2 DEF BookRow
  <2>. QED  BY <1>6, <1>9, <2>1, <2>3, <2>4 DEF Revision0
<1>13. FlyingBooks'
  BY <1>2, <1>3, <1>5, <1>6, <1>8, <1>10, <1>12 DEF FlyingBooks
<1>14. UNCHANGED <<users, cards, changes, seq, clock, last>>
  BY DEF Bump
<1>15. tx.op = "put" => FlyingPut'
  <2>1. {RowPut(tx, Revision0, j, clock)' : j \in 1 .. i - 1} = {RowPut(tx, Revision0, j, clock) : j \in 1 .. i - 1}
    BY <1>3, <1>8, <1>14 DEF RowPut
  <2>. QED  BY <1>1, <1>3, <1>5, <1>6, <1>8, <1>14, <2>1 DEF Flying, FlyingPut
<1>16. tx.op = "delete" => FlyingDelete'
  <2>1. RowDeleted(tx, Revision0, Cards0[tx.batch[1].href].etag)' = RowDeleted(tx, Revision0, Cards0[tx.batch[1].href].etag)
    BY <1>3, <1>8 DEF RowDeleted
  <2>. QED  BY <1>1, <1>3, <1>5, <1>6, <1>8, <1>14, <2>1 DEF Flying, FlyingDelete
<1>17. Flying'
  BY <1>3, <1>7, <1>13, <1>15, <1>16 DEF Flying
<1>. QED  BY <1>1, <1>3, <1>4, <1>14, <1>17, StatementStutters

LEMMA JournalFlies == ASSUME TxInv, Journal PROVE TxInv' /\ UNCHANGED Committed!storeVars
<1> DEFINE i == tx.i
           in == tx.batch[i]
           row == [book |-> tx.id, href |-> in.href, etag |-> in.etag, deleted |-> tx.op = "delete",
                   rev |-> books[tx.id].revision, at |-> tx.now]
<1>1. ~Free /\ Flying /\ DOMAIN tx = DOMAIN NoTx
  BY FreeOrFlying DEF Journal, Free, TxInv
<1>2. FlyingShape /\ FlyingBooks
  BY <1>1 DEF Flying
<1>3. /\ i \in 1 .. Len(tx.batch) /\ Len(tx.batch) \in Nat /\ i \in Nat /\ tx.id \in BookIds
      /\ tx.batch \in Seq(PutInput) /\ in \in PutInput /\ in.href \in Hrefs
  <2>1. /\ i \in 1 .. Len(tx.batch) /\ Len(tx.batch) \in Nat /\ i \in Nat /\ tx.id \in BookIds
        /\ tx.batch \in Seq(PutInput)
    BY <1>2, LenProperties DEF Journal, FlyingShape
  <2>2. in \in PutInput
    BY <2>1, ElementOfSeq
  <2>. QED  BY <2>1, <2>2 DEF PutInput
<1>4. /\ tx'.stmt = (IF i = Len(tx.batch) THEN "commit" ELSE "write") /\ tx'.i = i + 1
      /\ tx'.op = tx.op /\ tx'.id = tx.id /\ tx'.batch = tx.batch
      /\ tx'.cond = tx.cond /\ tx'.now = tx.now /\ tx'.old = tx.old /\ tx'.created = tx.created
      /\ DOMAIN tx' = DOMAIN NoTx
  BY <1>1, <1>3 DEF Journal, NoTx
<1>5. ~Free'
  BY <1>4 DEF Free
<1>6. Seen(1)' = Seen(1) /\ Seen(2)' = Seen(2) /\ Seen(3)' = Seen(3) /\ Seen(4)' = Seen(4)
  BY <1>1, <1>4, <1>5, Frozen
<1>7. /\ CardsDone = i /\ CardsDone' = i /\ BumpsDone = i /\ BumpsDone' = i
      /\ RowsDone = i - 1 /\ RowsDone' = i
  BY <1>3, <1>4 DEF Journal, CardsDone, BumpsDone, RowsDone
<1>8. /\ changes' = changes \cup {row} /\ last' = [last EXCEPT ![tx.id][in.href] = row.rev]
      /\ UNCHANGED <<users, books, cards, seq, clock>>
  BY DEF Journal
<1>9. FlyingShape'
  BY <1>2, <1>3, <1>4, <1>7, <1>8 DEF FlyingShape
<1>10. Revision0' = Revision0 /\ Cards0' = Cards0
  BY <1>4, <1>6 DEF Revision0, Cards0
<1>11. FlyingBooks'
  BY <1>2, <1>4, <1>6, <1>7, <1>8, <1>10 DEF FlyingBooks
<1>12. row.rev = Revision0 + i
  <2>1. /\ Seen(1) \in [BookIds -> BookRow \cup {NoRow}] /\ Seen(1)[tx.id] # NoRow
        /\ books = [Seen(1) EXCEPT ![tx.id].revision = @ + i]
    BY <1>2, <1>3, <1>7 DEF TxInv, CommittedOK, FlyingBooks
  <2>2. books[tx.id] = [Seen(1)[tx.id] EXCEPT !.revision = Revision0 + i] /\ Seen(1)[tx.id] \in BookRow
    BY <1>3, <2>1 DEF Revision0
  <2>. QED  BY <2>2 DEF BookRow
<1>13. Seen(4) \in [BookIds -> [Hrefs -> Nat]]
  BY DEF TxInv, CommittedOK
<1>14. ASSUME tx.op = "put" PROVE FlyingPut'
  <2>1. FlyingPut
    BY <1>1, <1>14 DEF Flying
  <2>2. row = RowPut(tx, Revision0, i, clock)
    BY <1>12, <1>14, <2>1 DEF RowPut, FlyingPut
  <2>3. {RowPut(tx, Revision0, j, clock)' : j \in 1 .. i} = {RowPut(tx, Revision0, j, clock) : j \in 1 .. i - 1} \cup {row}
    <3>1. \A j : RowPut(tx, Revision0, j, clock)' = RowPut(tx, Revision0, j, clock)
      BY <1>4, <1>8, <1>10 DEF RowPut
    <3>2. 1 .. i = (1 .. i - 1) \cup {i}
      BY <1>3
    <3>. QED  BY <2>2, <3>1, <3>2
  <2>4. last' = [Seen(4) EXCEPT ![tx.id] = LastAfter(Seen(4)[tx.id], Revision0, tx.batch, i)]
    <3>1. last = [Seen(4) EXCEPT ![tx.id] = LastAfter(Seen(4)[tx.id], Revision0, tx.batch, i - 1)]
      BY <1>7, <2>1 DEF FlyingPut
    <3>2. LastAfter(Seen(4)[tx.id], Revision0, tx.batch, i)
            = [LastAfter(Seen(4)[tx.id], Revision0, tx.batch, i - 1) EXCEPT ![in.href] = Revision0 + i]
      <4>1. i \in 1 .. Len(tx.batch) /\ tx.batch \in Seq(PutInput)
        BY <1>3
      <4>. QED  BY <4>1, LastAfterNext
    <3>. QED  BY <1>3, <1>8, <1>12, <1>13, <3>1, <3>2
  <2>5. changes' = Seen(3) \cup {RowPut(tx, Revision0, j, clock)' : j \in 1 .. i}
    <3>1. changes = Seen(3) \cup {RowPut(tx, Revision0, j, clock) : j \in 1 .. i - 1}
      BY <1>7, <2>1 DEF FlyingPut
    <3>. QED  BY <1>8, <2>3, <3>1
  <2>6. cards' = [Seen(2) EXCEPT ![tx.id] = After(Cards0, tx.batch, i)] /\ tx'.now = clock'
    BY <1>4, <1>7, <1>8, <2>1 DEF FlyingPut
  <2>7. \A j \in 1 .. i : UidFree(After(Cards0, tx.batch, j - 1), tx.batch[j])
    BY <1>7, <2>1 DEF FlyingPut
  <2>. QED  BY <1>4, <1>6, <1>7, <1>10, <2>4, <2>5, <2>6, <2>7 DEF FlyingPut
<1>15. ASSUME tx.op = "delete" PROVE FlyingDelete'
  <2>1. FlyingDelete
    BY <1>1, <1>15 DEF Flying
  <2>2. i = 1 /\ Len(tx.batch) = 1 /\ in.etag = Cards0[in.href].etag
    BY <1>3, <1>7, <2>1 DEF FlyingDelete
  <2>3. row = RowDeleted(tx, Revision0, Cards0[in.href].etag)
    BY <1>12, <1>15, <2>2 DEF RowDeleted
  <2>4. RowDeleted(tx, Revision0, Cards0[tx.batch[1].href].etag)' = row
    BY <1>4, <1>10, <2>2, <2>3 DEF RowDeleted
  <2>5. changes = Seen(3) /\ last = Seen(4)
    BY <1>7, <2>1, <2>2 DEF FlyingDelete
  <2>. QED  BY <1>4, <1>6, <1>7, <1>8, <1>10, <1>12, <2>1, <2>2, <2>4, <2>5 DEF FlyingDelete
<1>16. Flying'
  BY <1>4, <1>9, <1>11, <1>14, <1>15 DEF Flying
<1>. QED  BY <1>1, <1>4, <1>5, <1>8, <1>16, StatementStutters

-----------------------------------------------------------------------------
(* Its begin and its end *)

CommittedStep == [Committed!StoreNext]_(Committed!storeVars)

\* Without a transaction everybody sees the tables.
LEMMA SeenWhenFree ==
  ASSUME Free
  PROVE  Seen(1) = books /\ Seen(2) = cards /\ Seen(3) = changes /\ Seen(4) = last
  BY DEF Seen, Tables

LEMMA SeenWhenFreeNext ==
  ASSUME Free'
  PROVE  Seen(1)' = books' /\ Seen(2)' = cards' /\ Seen(3)' = changes' /\ Seen(4)' = last'
  BY DEF Seen, Tables

LEMMA BeginFlies ==
  ASSUME TxInv, NEW by, NEW op \in {"put", "delete"}, NEW id \in BookIds, NEW b \in Seq(PutInput),
         Len(b) \in {1} \cup 1 .. MaxBatch, op = "delete" => Len(b) = 1, Begin(by, op, id, b, Unconditional)
  PROVE  TxInv' /\ UNCHANGED Committed!storeVars
<1>1. PICK now \in {t \in 0 .. clock : clock - t <= IF op = "delete" THEN LockWait ELSE 0} :
        tx' = [stmt |-> "write", by |-> by, op |-> op, id |-> id, batch |-> b, i |-> 1,
               cond |-> Unconditional, now |-> now, created |-> 0, old |-> Tables]
  BY DEF Begin
<1>2. /\ Free /\ UNCHANGED <<users, books, cards, changes, seq, clock, last>>
      /\ id \in Live => books[id].revision + Len(b) <= MaxRev
  BY DEF Begin, storeVars
<1>3. /\ tx'.stmt = "write" /\ tx'.op = op /\ tx'.id = id /\ tx'.batch = b /\ tx'.i = 1
      /\ tx'.cond = Unconditional /\ tx'.now = now /\ tx'.created = 0 /\ tx'.old = Tables
      /\ DOMAIN tx' = DOMAIN NoTx
  BY <1>1 DEF NoTx
<1>4. Seen(1) = books /\ Seen(2) = cards /\ Seen(3) = changes /\ Seen(4) = last
  BY <1>2, SeenWhenFree
<1>5. Seen(1)' = books /\ Seen(2)' = cards /\ Seen(3)' = changes /\ Seen(4)' = last
  BY <1>3 DEF Seen, Free, Tables
<1>6. CommittedOK'
  BY <1>2, <1>4, <1>5 DEF TxInv, CommittedOK
<1>7. CardsDone' = 0 /\ BumpsDone' = 0 /\ RowsDone' = 0
  BY <1>3 DEF CardsDone, BumpsDone, RowsDone
<1>8. Len(b) \in Nat /\ clock \in Nat /\ now \in 0 .. clock
  BY LenProperties DEF TxInv, CommittedOK
<1>9. FlyingShape'
  <2>1. 1 \in 1 .. Len(b)
    BY <1>8, BoundsAssumption
  <2>2. tx'.now \in 0 .. clock' /\ tx'.created \in 0 .. CardsDone'
    BY <1>2, <1>3, <1>7, <1>8
  <2>. QED  BY <1>3, <2>1, <2>2, Zenon DEF FlyingShape
<1>10. FlyingBooks'
  BY <1>2, <1>3, <1>5, <1>7 DEF FlyingBooks, Revision0, Live
<1>11. cards \in [BookIds -> [Hrefs -> Card \cup {NoRow}]] /\ last \in [BookIds -> [Hrefs -> Nat]]
  BY <1>4 DEF TxInv, CommittedOK
<1>12. ASSUME op = "put" PROVE FlyingPut'
  <2>1. Cards0' = cards[id]
    BY <1>3, <1>5 DEF Cards0
  <2>2. After(cards[id], b, 0) = cards[id]
    BY <1>11, AfterNone
  <2>3. LastAfter(last[id], Revision0', b, 0) = last[id]
    BY <1>11, LastAfterNone
  <2>4. cards = [cards EXCEPT ![id] = cards[id]] /\ last = [last EXCEPT ![id] = last[id]]
    BY <1>11
  <2>5. now = clock
    BY <1>8, <1>12
  <2>. QED  BY <1>2, <1>3, <1>5, <1>7, <2>1, <2>2, <2>3, <2>4, <2>5 DEF FlyingPut
<1>13. ASSUME op = "delete" PROVE FlyingDelete'
  <2>1. clock - now <= LockWait
    BY <1>13
  <2>. QED  BY <1>2, <1>3, <1>5, <1>7, <1>13, <2>1 DEF FlyingDelete
<1>14. Flying'
  BY <1>3, <1>9, <1>10, <1>12, <1>13 DEF Flying
<1>. QED  BY <1>2, <1>3, <1>4, <1>5, <1>6, <1>14, SameInFlightNext DEF TxInv, Committed!storeVars

LEMMA RollbackRestores == ASSUME TxInv, Rollback PROVE TxInv' /\ UNCHANGED Committed!storeVars
<1>1. /\ ~Free /\ tx' = NoTx /\ UNCHANGED <<users, seq, clock>>
      /\ books' = tx.old[1] /\ cards' = tx.old[2] /\ changes' = tx.old[3] /\ last' = tx.old[4]
  BY DEF Rollback, Restored
<1>2. Free'
  BY <1>1 DEF Free, NoTx
<1>3. Seen(1)' = books' /\ Seen(2)' = cards' /\ Seen(3)' = changes' /\ Seen(4)' = last'
  BY <1>2, SeenWhenFreeNext
<1>4. Seen(1)' = Seen(1) /\ Seen(2)' = Seen(2) /\ Seen(3)' = Seen(3) /\ Seen(4)' = Seen(4)
  BY <1>1, <1>3 DEF Seen
<1>5. CommittedOK'
  BY <1>1, <1>4 DEF TxInv, CommittedOK
<1>6. DOMAIN tx' = DOMAIN NoTx
  BY <1>1
<1>. QED  BY <1>1, <1>4, <1>5, <1>6 DEF TxInv, Committed!storeVars

\* A batch of the right length is one that CardStep offers.
LEMMA CommittedBatch ==
  ASSUME NEW id \in BookIds, NEW b \in Seq(PutInput), Len(b) \in {1} \cup 1 .. MaxBatch,
         Committed!PutCards(id, b, Unconditional)
  PROVE  Committed!CardStep
<1>1. Len(b) \in Nat /\ b \in [1 .. Len(b) -> PutInput]
  BY LenProperties
<1>2. CASE Len(b) = 1
  <2>1. b[1] \in PutInput
    BY <1>1, <1>2
  <2>2. b = <<b[1]>>
    BY <1>1, <1>2
  <2>3. Committed!PutCards(id, <<b[1]>>, Unconditional)
    BY <2>2
  <2>. QED  BY <2>1, <2>3 DEF Committed!CardStep, Committed!BookIds, BookIds, Committed!PutInput, PutInput
<1>3. CASE Len(b) # 1
  <2>1. Len(b) \in 2 .. MaxBatch
    BY <1>1, <1>3, BoundsAssumption
  <2>. QED  BY <1>1, <2>1 DEF Committed!CardStep, Committed!BookIds, BookIds, Committed!PutInput, PutInput
<1>. QED  BY <1>2, <1>3

\* The tables that are committed are as well typed as those before.
LEMMA FlyingTypes ==
  ASSUME CommittedOK, Flying
  PROVE  /\ books \in [BookIds -> BookRow \cup {NoRow}]
         /\ cards \in [BookIds -> [Hrefs -> Card \cup {NoRow}]]
         /\ last \in [BookIds -> [Hrefs -> Nat]]
<1>1. FlyingShape /\ FlyingBooks
  BY DEF Flying
<1>2. /\ tx.id \in BookIds /\ tx.batch \in Seq(PutInput) /\ Len(tx.batch) \in Nat
      /\ CardsDone \in 0 .. Len(tx.batch) /\ BumpsDone \in 0 .. Len(tx.batch) /\ RowsDone \in 0 .. Len(tx.batch)
  BY <1>1, LenProperties DEF FlyingShape, CardsDone, BumpsDone, RowsDone
<1>3. /\ Seen(1) \in [BookIds -> BookRow \cup {NoRow}]
      /\ Seen(2) \in [BookIds -> [Hrefs -> Card \cup {NoRow}]]
      /\ Seen(4) \in [BookIds -> [Hrefs -> Nat]]
  BY DEF CommittedOK
<1>4. Seen(1)[tx.id] # NoRow => Seen(1)[tx.id] \in BookRow /\ Revision0 \in Nat
  BY <1>2, <1>3 DEF BookRow, Revision0
<1>5. books \in [BookIds -> BookRow \cup {NoRow}]
  <2>1. CASE BumpsDone = 0
    BY <1>1, <1>3, <2>1 DEF FlyingBooks
  <2>2. CASE BumpsDone # 0
    <3>1. /\ Seen(1)[tx.id] # NoRow /\ Revision0 + Len(tx.batch) <= MaxRev
          /\ books = [Seen(1) EXCEPT ![tx.id].revision = @ + BumpsDone]
      BY <1>1, <1>2, <2>2 DEF FlyingBooks
    <3>2. Revision0 + BumpsDone \in 0 .. MaxRev
      BY <1>2, <1>4, <3>1, BoundsAssumption
    <3>3. [Seen(1)[tx.id] EXCEPT !.revision = Revision0 + BumpsDone] \in BookRow
      BY <1>4, <3>1, <3>2 DEF BookRow
    <3>. QED  BY <1>2, <1>3, <3>1, <3>3 DEF Revision0
  <2>. QED  BY <2>1, <2>2
<1>6. CASE tx.op = "put"
  <2>1. FlyingPut
    BY <1>6 DEF Flying
  <2>2. After(Cards0, tx.batch, CardsDone) \in [Hrefs -> Card \cup {NoRow}]
    <3>1. Cards0 \in [Hrefs -> Card \cup {NoRow}]
      BY <1>2, <1>3 DEF Cards0
    <3>. QED  BY <1>2, <3>1, AfterType
  <2>3. last \in [BookIds -> [Hrefs -> Nat]]
    <3>1. CASE RowsDone = 0
      <4>1. LastAfter(Seen(4)[tx.id], Revision0, tx.batch, 0) = Seen(4)[tx.id]
        BY <1>2, <1>3, LastAfterNone
      <4>. QED  BY <1>2, <1>3, <2>1, <3>1, <4>1 DEF FlyingPut
    <3>2. CASE RowsDone # 0
      <4>1. Revision0 \in Nat
        BY <1>1, <1>2, <1>4, <3>2 DEF FlyingBooks, FlyingShape, BumpsDone, RowsDone
      <4>2. LastAfter(Seen(4)[tx.id], Revision0, tx.batch, RowsDone) \in [Hrefs -> Nat]
        BY <1>2, <1>3, <4>1, LastAfterType
      <4>. QED  BY <1>2, <1>3, <2>1, <4>2 DEF FlyingPut
    <3>. QED  BY <3>1, <3>2
  <2>. QED  BY <1>2, <1>3, <1>5, <2>1, <2>2, <2>3 DEF FlyingPut
<1>7. CASE tx.op = "delete"
  <2>1. FlyingDelete
    BY <1>7 DEF Flying
  <2>2. cards \in [BookIds -> [Hrefs -> Card \cup {NoRow}]]
    BY <1>2, <1>3, <2>1 DEF FlyingDelete
  <2>3. CASE RowsDone = 0
    BY <1>3, <1>5, <2>1, <2>2, <2>3 DEF FlyingDelete
  <2>4. CASE RowsDone # 0
    <3>1. Revision0 + 1 \in Nat
      BY <1>1, <1>2, <1>4, <2>4 DEF FlyingBooks, FlyingShape, BumpsDone, RowsDone
    <3>. QED  BY <1>2, <1>3, <1>5, <2>1, <2>2, <2>4, <3>1 DEF FlyingDelete
  <2>. QED  BY <2>3, <2>4
<1>. QED  BY <1>1, <1>6, <1>7 DEF FlyingShape

LEMMA CommitIsAStep == ASSUME TxInv, Commit PROVE TxInv' /\ CommittedStep
<1> DEFINE id == tx.id
           b == tx.batch
<1>1. /\ ~Free /\ Flying /\ tx' = NoTx /\ UNCHANGED <<users, books, cards, changes, seq, clock, last>>
      /\ tx.stmt = "commit"
  BY FreeOrFlying DEF Commit, Free, storeVars
<1>2. FlyingShape /\ FlyingBooks /\ CommittedOK
  BY <1>1 DEF Flying, TxInv
<1>3. Free' /\ Seen(1)' = books /\ Seen(2)' = cards /\ Seen(3)' = changes /\ Seen(4)' = last
  BY <1>1, SeenWhenFreeNext DEF Free, NoTx
<1>4. /\ id \in BookIds /\ b \in Seq(PutInput) /\ Len(b) \in Nat /\ Len(b) > 0
      /\ CardsDone = Len(b) /\ BumpsDone = Len(b) /\ RowsDone = Len(b)
      /\ Len(b) \in {1} \cup 1 .. MaxBatch
  <2>1. id \in BookIds /\ b \in Seq(PutInput) /\ Len(b) \in {1} \cup 1 .. MaxBatch
    BY <1>2 DEF FlyingShape
  <2>2. Len(b) \in Nat /\ Len(b) > 0
    <3>1. Len(b) \in Nat
      BY <2>1, LenProperties
    <3>. QED  BY <2>1, <3>1, BoundsAssumption
  <2>3. tx.i = Len(b) + 1
    BY <1>1, <1>2 DEF FlyingShape
  <2>. QED  BY <1>1, <2>1, <2>2, <2>3 DEF CardsDone, BumpsDone, RowsDone
<1>5. /\ Seen(1)[id] # NoRow /\ Seen(1)[id].revision + Len(b) <= MaxRev
      /\ books = [Seen(1) EXCEPT ![id].revision = @ + Len(b)]
  BY <1>2, <1>4 DEF FlyingBooks, Revision0
<1>6. TxInv'
  <2>1. CommittedOK'
    BY <1>1, <1>2, <1>3, FlyingTypes DEF CommittedOK
  <2>. QED  BY <1>1, <2>1 DEF TxInv
<1>7. CASE tx.op = "put"
  <2>1. FlyingPut
    BY <1>1, <1>7 DEF Flying
  <2>2. \A n \in 1 .. Len(b) : Committed!UidFree(Committed!CardsAfter(id, b, n - 1), b[n])
    <3>1. \A n \in 1 .. Len(b) : UidFree(Committed!CardsAfter(id, b, n - 1), b[n])
      BY <1>4, <2>1, Unfold DEF FlyingPut, Unfolded, Cards0
    <3>. QED  BY <3>1, Zenon DEF UidFree, Committed!UidFree
  <2>3. Seen(2)' = [Seen(2) EXCEPT ![id] = Committed!CardsAfter(id, b, Len(b))]
    BY <1>3, <1>4, <2>1, Unfold DEF FlyingPut, Unfolded, Cards0
  <2>4. Seen(1)' = Committed!Bumped(id, Len(b))
    BY <1>3, <1>5, Unfold DEF Unfolded
  <2>5. Seen(3)' = Seen(3) \cup {Committed!PutRow(id, b, i) : i \in 1 .. Len(b)}
    <3>1. \A i : Committed!PutRow(id, b, i) = RowPut(tx, Revision0, i, clock)
      BY Unfold, Zenon DEF Unfolded, RowPut, Revision0
    <3>2. changes = Seen(3) \cup {RowPut(tx, Revision0, i, clock) : i \in 1 .. Len(b)}
      BY <1>4, <2>1 DEF FlyingPut
    <3>. QED  BY <1>3, <3>1, <3>2
  <2>6. Seen(4)' = [Seen(4) EXCEPT ![id] =
                      [h \in Hrefs |-> IF Committed!Writes(b, Len(b), h) = {} THEN Seen(4)[id][h]
                                       ELSE Seen(1)[id].revision + Committed!Max(Committed!Writes(b, Len(b), h))]]
    <3>1. LastAfter(Seen(4)[id], Revision0, b, Len(b))
            = [h \in Hrefs |-> IF Committed!Writes(b, Len(b), h) = {} THEN Seen(4)[id][h]
                               ELSE Seen(1)[id].revision + Committed!Max(Committed!Writes(b, Len(b), h))]
      BY SameMax, SameWrites, Zenon DEF LastAfter, Revision0
    <3>. QED  BY <1>3, <1>4, <2>1, <3>1 DEF FlyingPut
  <2>7. Committed!PutCards(id, b, Unconditional)
    BY <1>1, <1>5, <2>2, <2>3, <2>4, <2>5, <2>6, Zenon DEF Committed!PutCards
  <2>. QED  BY <1>4, <1>6, <2>7, CommittedBatch DEF CommittedStep, Committed!StoreNext
<1>8. CASE tx.op = "delete"
  <2> DEFINE h == b[1].href
  <2>1. FlyingDelete
    BY <1>1, <1>8 DEF Flying
  <2>2. Len(b) = 1 /\ h \in Hrefs
    <3>1. Len(b) = 1
      BY <2>1 DEF FlyingDelete
    <3>2. b[1] \in PutInput
      BY <1>4, <3>1, ElementOfSeq
    <3>. QED  BY <3>1, <3>2 DEF PutInput
  <2>3. /\ Cards0[h] # NoRow /\ cards = [Seen(2) EXCEPT ![id][h] = NoRow]
        /\ changes = Seen(3) \cup {RowDeleted(tx, Revision0, Cards0[h].etag)}
        /\ last = [Seen(4) EXCEPT ![id][h] = Revision0 + 1]
    BY <1>4, <2>1, <2>2 DEF FlyingDelete
  <2>4. tx.now \in {t \in 0 .. clock : clock - t <= LockWait}
    BY <1>2, <2>1 DEF FlyingShape, FlyingDelete
  <2>5. Committed!DeleteRow(id, h, tx.now) = RowDeleted(tx, Revision0, Cards0[h].etag)
    BY Unfold, Zenon DEF Unfolded, RowDeleted, Revision0, Cards0
  <2>6. Seen(1)[id].revision \in Nat
    BY <1>2, <1>4, <1>5 DEF CommittedOK, BookRow
  <2>7. Seen(1)[id].revision < MaxRev
    BY <1>5, <2>2, <2>6, BoundsAssumption
  <2>8. Seen(1)' = Committed!Bumped(id, 1)
    BY <1>3, <1>5, <2>2, Unfold DEF Unfolded
  <2>9. Seen(2)[id][h] # NoRow /\ Committed!Holds(Unconditional, Seen(2)[id][h])
    BY <2>3 DEF Cards0, Committed!Holds
  <2>10. \E now \in {t \in 0 .. clock : clock - t <= LockWait} :
           Seen(3)' = Seen(3) \cup {Committed!DeleteRow(id, h, now)}
    BY <1>3, <2>3, <2>4, <2>5
  <2>11. /\ Seen(2)' = [Seen(2) EXCEPT ![id][h] = NoRow]
         /\ Seen(4)' = [Seen(4) EXCEPT ![id][h] = Seen(1)[id].revision + 1]
    BY <1>3, <2>3 DEF Revision0
  <2>12. Committed!DeleteCard(id, h, Unconditional)
    BY <1>1, <1>5, <2>7, <2>8, <2>9, <2>10, <2>11 DEF Committed!DeleteCard
  <2>13. Committed!CardStep
    BY <1>4, <2>2, <2>12 DEF Committed!CardStep, Committed!BookIds, BookIds
  <2>. QED  BY <1>6, <2>13 DEF CommittedStep, Committed!StoreNext
<1>. QED  BY <1>2, <1>7, <1>8 DEF FlyingShape

\* What takes one statement is a step of the store as it is.
LEMMA SingleIsAStep == ASSUME TxInv, SingleStatement PROVE TxInv' /\ CommittedStep
<1>1. tx' = tx /\ Free /\ Free' /\ tx = NoTx /\ tx' = NoTx
  BY FreeOrFlying DEF SingleStatement, Between, Free
<1>2. Seen(1) = books /\ Seen(2) = cards /\ Seen(3) = changes /\ Seen(4) = last
  BY <1>1, SeenWhenFree
<1>3. Seen(1)' = books' /\ Seen(2)' = cards' /\ Seen(3)' = changes' /\ Seen(4)' = last'
  BY <1>1, SeenWhenFreeNext
<1>4. /\ users \in [UserIds -> UserRow \cup {NoRow}]
      /\ books \in [BookIds -> BookRow \cup {NoRow}]
      /\ cards \in [BookIds -> [Hrefs -> Card \cup {NoRow}]]
      /\ last \in [BookIds -> [Hrefs -> Nat]]
      /\ seq \in [users : Nat, books : Nat] /\ clock \in Nat
      /\ \A u \in UserIds : users[u] # NoRow => u <= seq.users
  BY <1>2 DEF TxInv, CommittedOK
<1> DEFINE Done ==
             /\ users' \in [UserIds -> UserRow \cup {NoRow}]
             /\ books' \in [BookIds -> BookRow \cup {NoRow}]
             /\ cards' \in [BookIds -> [Hrefs -> Card \cup {NoRow}]]
             /\ last' \in [BookIds -> [Hrefs -> Nat]]
             /\ seq' \in [users : Nat, books : Nat] /\ clock' \in Nat
             /\ \A u \in UserIds : users'[u] # NoRow => u <= seq'.users
             /\ Committed!StoreNext
<1>5. SUFFICES Done
  BY <1>1, <1>3 DEF TxInv, CommittedOK, CommittedStep
<1>6. ASSUME NEW fk \in ForeignKeys, DeleteAddressbook(Username, Slug, fk) PROVE Done
  <2>1. Committed!AddressbookOf(Username, Slug) = AddressbookOf(Username, Slug)
    BY <1>2 DEF Committed!AddressbookOf, AddressbookOf, Committed!Live, Live, Committed!BookIds, BookIds
  <2>2. RemoveBooks(AddressbookOf(Username, Slug), fk) /\ UNCHANGED <<users, seq, clock, last>>
    BY <1>6 DEF DeleteAddressbook
  <2>3. Committed!RemoveBooks(AddressbookOf(Username, Slug), fk)
    BY <1>2, <1>3, <2>2 DEF Committed!RemoveBooks, RemoveBooks, Committed!BookIds, BookIds
  <2>4. Committed!DeleteAddressbook(Username, Slug, fk)
    BY <1>2, <1>3, <1>6, <2>1, <2>2, <2>3 DEF Committed!DeleteAddressbook, DeleteAddressbook
  <2>5. Committed!StoreNext
    BY <2>4, CollectionAssumption DEF Committed!StoreNext, Committed!BookStep
  <2>6. /\ books' \in [BookIds -> BookRow \cup {NoRow}]
        /\ cards' \in [BookIds -> [Hrefs -> Card \cup {NoRow}]]
    BY <1>4, <2>2 DEF RemoveBooks
  <2>. QED  BY <1>4, <2>2, <2>5, <2>6
<1>7. ASSUME NEW u \in UserIds, NEW fk \in ForeignKeys, users[u] # NoRow,
             CreateAddressbook(u, Slug, FirstName, fk)
      PROVE  Done
  <2>1. u \in 1 .. seq.users
    BY <1>4, <1>7, BoundsAssumption DEF UserIds
  <2>2. Committed!CreateAddressbook(u, Slug, FirstName, fk)
    BY <1>2, <1>3, <1>7 DEF Committed!CreateAddressbook, CreateAddressbook, Committed!NewBookId, NewBookId,
       Committed!BookIds, BookIds, Committed!Live, Live
  <2>3. Committed!StoreNext
    BY <2>1, <2>2, CollectionAssumption DEF Committed!StoreNext, Committed!BookStep
  <2>4. [owner |-> u, slug |-> Slug, name |-> FirstName, revision |-> 0] \in BookRow
    BY CollectionAssumption, BoundsAssumption DEF BookRow
  <2>5. books' \in [BookIds -> BookRow \cup {NoRow}]
    BY <1>4, <1>7, <2>4, Zenon DEF CreateAddressbook
  <2>6. seq' = [seq EXCEPT !.books = seq.books + 1]
    BY <1>7 DEF CreateAddressbook, NewBookId
  <2>7. seq' \in [users : Nat, books : Nat] /\ seq'.users = seq.users
    BY <1>4, <2>6
  <2>. QED  BY <1>4, <1>7, <2>3, <2>5, <2>7 DEF CreateAddressbook
<1>8. ASSUME Tick PROVE Done
  <2>1. Committed!Tick
    BY <1>2, <1>3, <1>8 DEF Tick, Committed!Tick
  <2>. QED  BY <1>4, <1>8, <2>1 DEF Tick, Committed!StoreNext
<1>9. ASSUME NEW p \in Hashes, CreateUser(Username, p) PROVE Done
  <2>1. Committed!CreateUser(Username, p)
    BY <1>2, <1>3, <1>9 DEF CreateUser, Committed!CreateUser, Committed!UserIds, UserIds
  <2>2. Committed!StoreNext
    BY <2>1, CollectionAssumption DEF Committed!StoreNext, Committed!UserStep
  <2>3. [name |-> Username, hash |-> p] \in UserRow
    BY CollectionAssumption DEF UserRow
  <2>4. /\ users' = [users EXCEPT ![seq.users + 1] = [name |-> Username, hash |-> p]]
        /\ seq' = [seq EXCEPT !.users = @ + 1] /\ UNCHANGED <<books, cards, changes, clock, last>>
    BY <1>9 DEF CreateUser
  <2>5. seq' \in [users : Nat, books : Nat] /\ seq'.users = seq.users + 1 /\ seq.users \in Nat
    BY <1>4, <2>4
  <2>6. \A v \in UserIds : users'[v] # NoRow => v <= seq'.users
    <3>1. \A v \in UserIds : v # seq.users + 1 => users'[v] = users[v]
      BY <1>4, <2>4
    <3>2. ASSUME NEW v \in UserIds, users'[v] # NoRow, v # seq.users + 1 PROVE v <= seq'.users
      <4>1. v \in Int /\ v <= seq.users
        BY <1>4, <3>1, <3>2 DEF UserIds
      <4>. QED  BY <2>5, <4>1
    <3>3. seq.users + 1 <= seq'.users
      BY <2>5
    <3>. QED  BY <3>2, <3>3
  <2>. QED  BY <1>4, <2>2, <2>3, <2>4, <2>5, <2>6
<1>. QED  BY <1>6, <1>7, <1>8, <1>9 DEF SingleStatement, RemoveCollection, MakeCollection

-----------------------------------------------------------------------------
(* The command: its batch is never longer than the directory *)

LEMMA Listings ==
  ASSUME NEW S \in SUBSET Hrefs, NEW order \in SetToSeqs(S)
  PROVE  order \in Seq(Hrefs) /\ Len(order) \in 0 .. MaxBatch
<1>1. IsFiniteSet(S) /\ Cardinality(S) <= Cardinality(Hrefs)
  BY TransferAssumption, FS_Subset
<1>2. Cardinality(S) \in Nat /\ Cardinality(Hrefs) \in Nat
  BY <1>1, TransferAssumption, FS_CardinalityType
<1>3. order \in [1 .. Cardinality(S) -> S]
  BY DEF SetToSeqs
<1>4. order \in Seq(S)
  <2>1. order \in UNION {[1 .. k -> S] : k \in Nat}
    BY <1>2, <1>3
  <2>. QED  BY <2>1, SeqDef, Zenon
<1>5. Len(order) = Cardinality(S) /\ order \in Seq(Hrefs)
  BY <1>2, <1>3, <1>4, LenProperties
<1>. QED  BY <1>1, <1>2, <1>5, TransferAssumption, BoundsAssumption

\* The end of a command is the start of the next.
LEMMA FinishOK ==
  ASSUME NEW status \in {"none", "ok", "not_found", "conflict", "failed"}, NEW n, NEW m,
         Finish(status, n, m), tx'.by # "ctl", files' \in [Hrefs -> File \cup {NoRow}]
  PROVE  CmdOK'
<1>1. /\ DOMAIN cmd' = DOMAIN NoCmd /\ cmd'.pc = "idle" /\ cmd'.status = status /\ cmd'.id = 0
      /\ cmd'.names = <<>> /\ cmd'.batch = <<>>
  BY DEF Finish, NoCmd
<1>2. <<>> \in Seq(Hrefs) /\ <<>> \in Seq(PutInput) /\ Len(<<>>) = 0
  BY EmptySeq
<1>3. 0 \in 0 .. MaxBooks /\ 0 <= MaxBatch
  BY BoundsAssumption
<1>. QED  BY <1>1, <1>2, <1>3 DEF CmdOK

\* While the command waits for a step of others it stays as it is.
LEMMA WaitingOK ==
  ASSUME CmdOK, UNCHANGED cmd, tx'.by = "ctl" <=> tx.by = "ctl", files' \in [Hrefs -> File \cup {NoRow}]
  PROVE  CmdOK'
  BY DEF CmdOK

\* The steps of the command outside its transaction.
Reads == Stat \/ ReadFile \/ VerifyFile
LEMMA ReadsOK == ASSUME CmdOK, Reads, tx' = tx, files' = files PROVE CmdOK'
<1>1. /\ DOMAIN cmd = DOMAIN NoCmd /\ cmd.names \in Seq(Hrefs) /\ Len(cmd.names) \in Nat
      /\ cmd.batch \in Seq(PutInput) /\ Len(cmd.batch) \in Nat /\ Len(cmd.names) <= MaxBatch
      /\ cmd.i \in 1 .. Len(cmd.names)
  BY LenProperties DEF CmdOK, Reads, Stat, ReadFile, VerifyFile
<1>2. ASSUME Stat PROVE CmdOK'
  <2> DEFINE c == [cmd EXCEPT !.stamps[NextName] = files[NextName].stamp]
  <2>1. cmd' = Loop(c, Len(cmd.names), "read") /\ cmd.pc = "stat"
    BY <1>2 DEF Stat
  <2>2. /\ DOMAIN c = DOMAIN NoCmd /\ c.pc = cmd.pc /\ c.i = cmd.i /\ c.id = cmd.id /\ c.names = cmd.names
        /\ c.batch = cmd.batch /\ c.status = cmd.status
    BY <1>1 DEF NoCmd
  <2>3. c.i < Len(cmd.names) \/ (~(c.i < Len(cmd.names)) /\ cmd'.i = 1)
    BY <2>1, <2>2 DEF Loop, NoCmd
  <2>. HIDE DEF c
  <2>4. /\ DOMAIN cmd' = DOMAIN NoCmd /\ cmd'.id = cmd.id /\ cmd'.names = cmd.names /\ cmd'.batch = cmd.batch
        /\ cmd'.status = cmd.status /\ cmd'.pc \in {"stat", "read"} /\ cmd'.i \in 1 .. Len(cmd.names)
        /\ cmd'.pc = "read" => cmd'.i = 1
    BY <1>1, <2>1, <2>2, <2>3 DEF Loop, NoCmd
  <2>5. Len(cmd.batch) = 0
    BY <2>1 DEF CmdOK
  <2>. QED  BY <1>1, <2>1, <2>4, <2>5 DEF CmdOK
<1>3. ASSUME ReadFile PROVE CmdOK'
  <2> DEFINE in == [href |-> NextName, uid |-> files[NextName].card.uid, etag |-> files[NextName].card.etag]
             b == Append(cmd.batch, in)
             c == [cmd EXCEPT !.batch = b, !.still = \A i \in DOMAIN b : AsRead(b[i])]
  <2>1. cmd' = Loop(c, Len(cmd.names), "verify") /\ cmd.pc = "read" /\ files[NextName] # NoRow
    BY <1>3 DEF ReadFile, AsListed
  <2>2. NextName \in Hrefs
    BY <1>1, ElementOfSeq DEF NextName
  <2>3. in \in PutInput
    BY <2>1, <2>2 DEF CmdOK, File, Card, PutInput
  <2>4. b \in Seq(PutInput) /\ Len(b) = Len(cmd.batch) + 1 /\ Len(cmd.batch) = cmd.i - 1
    <3>. HIDE DEF in
    <3>. QED  BY <1>1, <2>1, <2>3, AppendProperties DEF CmdOK
  <2>. HIDE DEF b
  <2>5. /\ DOMAIN c = DOMAIN NoCmd /\ c.pc = cmd.pc /\ c.i = cmd.i /\ c.id = cmd.id /\ c.names = cmd.names
        /\ c.batch = b /\ c.status = cmd.status
    BY <1>1 DEF NoCmd
  <2>. HIDE DEF c
  <2>6. /\ DOMAIN cmd' = DOMAIN NoCmd /\ cmd'.id = cmd.id /\ cmd'.names = cmd.names /\ cmd'.batch = b
        /\ cmd'.status = cmd.status
        /\ \/ cmd'.pc = "read" /\ cmd'.i = cmd.i + 1 /\ cmd'.i \in 1 .. Len(cmd.names)
           \/ cmd'.pc = "verify" /\ cmd'.i = 1
    BY <1>1, <2>1, <2>5 DEF Loop, NoCmd
  <2>7. Len(b) <= MaxBatch /\ 1 \in 1 .. Len(cmd.names)
    BY <1>1, <2>4, BoundsAssumption
  <2>8. (cmd'.pc = "read" => Len(b) = cmd'.i - 1) /\ cmd'.i \in 1 .. Len(cmd.names)
    BY <1>1, <2>4, <2>6, <2>7
  <2>9. cmd'.pc \in {"read", "verify"}
    BY <2>6
  <2>10. (tx'.by = "ctl") <=> (cmd'.pc = "writing")
    BY <2>1, <2>9 DEF CmdOK
  <2>. QED  BY <1>1, <2>1, <2>4, <2>6, <2>7, <2>8, <2>9, <2>10 DEF CmdOK
<1>4. ASSUME VerifyFile PROVE CmdOK'
  <2>1. cmd' = Loop(cmd, Len(cmd.names), "apply") /\ cmd.pc = "verify"
    BY <1>4 DEF VerifyFile
  <2>2. /\ DOMAIN cmd' = DOMAIN NoCmd /\ cmd'.id = cmd.id /\ cmd'.names = cmd.names /\ cmd'.batch = cmd.batch
        /\ cmd'.status = cmd.status
        /\ \/ cmd'.pc = "verify" /\ cmd'.i \in 1 .. Len(cmd.names)
           \/ cmd'.pc = "apply"
    BY <1>1, <2>1 DEF Loop, NoCmd
  <2>. QED  BY <1>1, <2>1, <2>2 DEF CmdOK
<1>. QED  BY <1>2, <1>3, <1>4 DEF Reads

LEMMA RunsOK == ASSUME TransferInv, RunImport \/ RunConcat PROVE CmdOK'
<1>1. /\ tx' = tx /\ cmd.pc = "idle" /\ tx.by # "ctl" /\ files \in [Hrefs -> File \cup {NoRow}]
  BY DEF TransferInv, CmdOK, RunImport, RunConcat
<1>2. BookFound \subseteq BookIds
  BY DEF BookFound, Committed!AddressbookOf, Committed!Live, Committed!BookIds, BookIds
<1>3. \A id \in BookIds : id \in 0 .. MaxBooks
  BY BoundsAssumption DEF BookIds
<1>4. <<>> \in Seq(PutInput) /\ <<>> \in Seq(Hrefs) /\ Len(<<>>) = 0 /\ 0 <= MaxBatch
  BY EmptySeq, BoundsAssumption
<1>5. ASSUME RunImport PROVE CmdOK'
  <2>1. PICK dry \in BOOLEAN, dir \in [Hrefs -> {NoRow} \cup [card : Card, stamp : {0}]] :
          /\ files' = dir
          /\ IF BookFound = {} THEN Finish("not_found", 0, 0)
             ELSE \E id \in BookFound, order \in SetToSeqs({h \in Hrefs : dir[h] # NoRow}) :
                    cmd' = [NoCmd EXCEPT !.pc = IF order = <<>> THEN "apply" ELSE "stat",
                                         !.dry = dry, !.id = id, !.names = order]
    BY <1>5 DEF RunImport
  <2>2. files' \in [Hrefs -> File \cup {NoRow}]
    <3>1. [card : Card, stamp : {0}] \subseteq File
      BY DEF File
    <3>. QED  BY <2>1, <3>1
  <2>3. CASE BookFound = {}
    <3>1. Finish("not_found", 0, 0)
      BY <2>1, <2>3
    <3>. QED  BY <1>1, <2>2, <3>1, FinishOK
  <2>4. CASE BookFound # {}
    <3>1. PICK id \in BookFound, order \in SetToSeqs({h \in Hrefs : dir[h] # NoRow}) :
            cmd' = [NoCmd EXCEPT !.pc = IF order = <<>> THEN "apply" ELSE "stat",
                                 !.dry = dry, !.id = id, !.names = order]
      BY <2>1, <2>4
    <3>2. order \in Seq(Hrefs) /\ Len(order) \in 0 .. MaxBatch
      BY Listings
    <3>3. /\ DOMAIN cmd' = DOMAIN NoCmd /\ cmd'.id = id /\ cmd'.names = order /\ cmd'.batch = <<>> /\ cmd'.i = 1
          /\ cmd'.status = "none" /\ cmd'.pc = (IF order = <<>> THEN "apply" ELSE "stat")
      BY <3>1 DEF NoCmd
    <3>4. order # <<>> => 1 \in 1 .. Len(order)
      BY <3>2, EmptySeq
    <3>5. Len(order) <= MaxBatch
      BY <3>2, BoundsAssumption
    <3>. QED  BY <1>1, <1>2, <1>3, <1>4, <2>2, <3>2, <3>3, <3>4, <3>5 DEF CmdOK
  <2>. QED  BY <2>3, <2>4
<1>6. ASSUME RunConcat PROVE CmdOK'
  <2>1. PICK dry \in BOOLEAN, n \in 0 .. MaxBatch : \E b \in [1 .. n -> {in \in PutInput : in.href = in.uid}] :
          IF BookFound = {} THEN Finish("not_found", 0, 0)
          ELSE \E id \in BookFound :
                 cmd' = [NoCmd EXCEPT !.pc = "apply", !.dry = dry, !.id = id, !.batch = b]
    BY <1>6 DEF RunConcat
  <2>2. PICK b \in [1 .. n -> {in \in PutInput : in.href = in.uid}] :
          IF BookFound = {} THEN Finish("not_found", 0, 0)
          ELSE \E id \in BookFound :
                 cmd' = [NoCmd EXCEPT !.pc = "apply", !.dry = dry, !.id = id, !.batch = b]
    BY <2>1
  <2>3. files' \in [Hrefs -> File \cup {NoRow}]
    BY <1>6 DEF RunConcat, NoFiles
  <2>4. CASE BookFound = {}
    <3>1. Finish("not_found", 0, 0)
      BY <2>2, <2>4
    <3>. QED  BY <1>1, <2>3, <3>1, FinishOK
  <2>5. CASE BookFound # {}
    <3>1. PICK id \in BookFound :
            cmd' = [NoCmd EXCEPT !.pc = "apply", !.dry = dry, !.id = id, !.batch = b]
      BY <2>2, <2>5
    <3>2. b \in Seq(PutInput) /\ Len(b) = n /\ n <= MaxBatch
      <4>1. n \in Nat /\ n <= MaxBatch /\ b \in [1 .. n -> PutInput]
        BY BoundsAssumption
      <4>2. b \in UNION {[1 .. k -> PutInput] : k \in Nat}
        BY <4>1
      <4>3. b \in Seq(PutInput)
        BY <4>2, SeqDef, Zenon
      <4>. QED  BY <4>1, <4>3, LenProperties
    <3>3. /\ DOMAIN cmd' = DOMAIN NoCmd /\ cmd'.id = id /\ cmd'.names = <<>> /\ cmd'.batch = b
          /\ cmd'.status = "none" /\ cmd'.pc = "apply"
      BY <3>1 DEF NoCmd
    <3>. QED  BY <1>1, <1>2, <1>3, <1>4, <2>3, <3>2, <3>3 DEF CmdOK
  <2>. QED  BY <2>4, <2>5
<1>. QED  BY <1>5, <1>6

\* A dry run, and a command that ends where it is.
Looks == Classify \/ ClassifyUid \/ ApplyNothing \/ Quit
LEMMA LooksOK == ASSUME TransferInv, Looks PROVE CmdOK'
<1>1. /\ DOMAIN cmd = DOMAIN NoCmd /\ tx' = tx /\ files' = files /\ cmd.pc \notin {"idle", "writing"}
      /\ tx'.by # "ctl" /\ files' \in [Hrefs -> File \cup {NoRow}]
  BY DEF TransferInv, CmdOK, Looks, Classify, ClassifyUid, ApplyNothing, Quit
<1>2. \A n \in {0, 1} : Counted(cmd, n) => CmdOK'
  <2>. SUFFICES ASSUME NEW n \in {0, 1}, Counted(cmd, n) PROVE CmdOK'
    OBVIOUS
  <2>1. CASE cmd.i < Len(cmd.batch)
    <3>1. /\ DOMAIN cmd' = DOMAIN NoCmd /\ cmd'.id = cmd.id /\ cmd'.names = cmd.names /\ cmd'.batch = cmd.batch
          /\ cmd'.status = cmd.status /\ cmd'.pc = "apply"
      BY <1>1, <2>1 DEF Counted, NoCmd
    <3>. QED  BY <1>1, <3>1 DEF TransferInv, CmdOK
  <2>2. CASE ~(cmd.i < Len(cmd.batch))
    BY <1>1, <2>2, FinishOK DEF Counted
  <2>. QED  BY <2>1, <2>2
<1>3. ASSUME cmd' = [cmd EXCEPT !.pc = "list_new"] \/ cmd' = [cmd EXCEPT !.pc = "list_old"] PROVE CmdOK'
  <2>1. /\ DOMAIN cmd' = DOMAIN NoCmd /\ cmd'.id = cmd.id /\ cmd'.names = cmd.names /\ cmd'.batch = cmd.batch
        /\ cmd'.status = cmd.status /\ cmd'.pc \in {"list_new", "list_old"}
    BY <1>1, <1>3 DEF NoCmd
  <2>. QED  BY <1>1, <2>1 DEF TransferInv, CmdOK
<1>4. \A status \in {"ok", "conflict", "failed"} : Finish(status, 0, 0) => CmdOK'
  BY <1>1, FinishOK
<1>5. CASE Classify
  BY <1>2, <1>3, <1>5 DEF Classify
<1>6. CASE ClassifyUid
  BY <1>2, <1>4, <1>6 DEF ClassifyUid
<1>7. CASE ApplyNothing \/ Quit
  BY <1>4, <1>7 DEF ApplyNothing, Quit
<1>. QED  BY <1>5, <1>6, <1>7 DEF Looks

\* Others commit, or change a file, while the command is under way.
LEMMA DisturbedOK ==
  ASSUME CmdOK, Disturbed, tx'.by = "ctl" <=> tx.by = "ctl", files' = files
  PROVE  CmdOK'
<1>1. /\ DOMAIN cmd' = DOMAIN NoCmd /\ cmd'.pc = cmd.pc /\ cmd'.id = cmd.id /\ cmd'.names = cmd.names
      /\ cmd'.batch = cmd.batch /\ cmd'.i = cmd.i /\ cmd'.status = cmd.status
  BY DEF CmdOK, Disturbed, NoCmd
<1>. QED  BY <1>1 DEF CmdOK

LEMMA EditOK == ASSUME CmdOK, NEW h \in Hrefs, Edit(h), tx' = tx PROVE CmdOK'
<1>1. files' \in [Hrefs -> File \cup {NoRow}] /\ cmd' = cmd
  BY DEF CmdOK, Edit
<1>. QED  BY <1>1, WaitingOK

-----------------------------------------------------------------------------
(* Everything together *)

LEMMA BeginImportStep == ASSUME TransferInv, BeginImport PROVE TransferInv' /\ CommittedStep
<1>1. /\ cmd.pc = "apply" /\ cmd.batch # <<>> /\ Begin("ctl", "put", cmd.id, cmd.batch, Unconditional)
      /\ cmd' = [cmd EXCEPT !.pc = "writing"] /\ files' = files
  BY DEF BeginImport
<1>2. /\ DOMAIN cmd = DOMAIN NoCmd /\ cmd.id \in BookIds /\ cmd.batch \in Seq(PutInput)
      /\ Len(cmd.batch) \in 1 .. MaxBatch
  BY <1>1, EmptySeq, LenProperties, BoundsAssumption DEF TransferInv, CmdOK
<1>3. TxInv' /\ UNCHANGED Committed!storeVars
  BY <1>1, <1>2, BeginFlies DEF TransferInv
<1>4. tx'.by = "ctl"
  BY <1>1 DEF Begin
<1>5. /\ DOMAIN cmd' = DOMAIN NoCmd /\ cmd'.pc = "writing" /\ cmd'.id = cmd.id /\ cmd'.names = cmd.names
      /\ cmd'.batch = cmd.batch /\ cmd'.status = cmd.status
  BY <1>1, <1>2 DEF NoCmd
<1>6. CmdOK'
  BY <1>1, <1>2, <1>4, <1>5 DEF TransferInv, CmdOK
<1>. QED  BY <1>3, <1>6 DEF TransferInv, CommittedStep

LEMMA DaemonBeginsStep ==
  ASSUME TransferInv, DaemonBegins, files' = files
  PROVE  TransferInv' /\ CommittedStep
<1>1. PICK id \in Live, in \in Written :
        \/ Begin("daemon", "put", id, <<in>>, Unconditional)
        \/ Begin("daemon", "delete", id, <<in>>, Unconditional)
  BY DEF DaemonBegins
<1>2. id \in BookIds /\ <<in>> \in Seq(PutInput) /\ Len(<<in>>) = 1
  BY CollectionAssumption, Batches DEF Live
<1>3. TxInv' /\ UNCHANGED Committed!storeVars
  BY <1>1, <1>2, BeginFlies DEF TransferInv
<1>4. tx'.by = "daemon" /\ tx.stmt = "none"
  BY <1>1 DEF Begin, Free
<1>5. tx.by # "ctl"
  BY <1>4, FreeOrFlying DEF TransferInv, Free, NoTx
<1>6. cmd' = cmd /\ files' \in [Hrefs -> File \cup {NoRow}]
  BY DEF DaemonBegins, TransferInv, CmdOK
<1>. QED  BY <1>3, <1>4, <1>5, <1>6, WaitingOK DEF TransferInv, CommittedStep

LEMMA StatementStep ==
  ASSUME TransferInv, Statement, cmd' = cmd, files' = files
  PROVE  TransferInv' /\ CommittedStep
<1>1. TxInv /\ CmdOK /\ DOMAIN tx = DOMAIN NoTx
  BY DEF TransferInv, TxInv
<1>2. TxInv' /\ UNCHANGED Committed!storeVars
  BY <1>1, PutCardRowFlies, DeleteCardRowFlies, BumpFlies, JournalFlies DEF Statement, WriteRow
<1>3. tx'.by = tx.by
  BY <1>1 DEF Statement, WriteRow, PutCardRow, DeleteCardRow, Bump, Journal, NoTx
<1>4. files' \in [Hrefs -> File \cup {NoRow}]
  BY <1>1 DEF CmdOK
<1>. QED  BY <1>1, <1>2, <1>3, <1>4, WaitingOK DEF TransferInv, CommittedStep

LEMMA EndStep ==
  ASSUME TransferInv, Commit \/ Rollback, files' = files,
         \/ tx.by = "daemon" /\ (Disturbed \/ UNCHANGED cmd)
         \/ tx.by = "ctl" /\ \E status \in {"ok", "failed"}, n, m \in Int : Finish(status, n, m)
  PROVE  TransferInv' /\ CommittedStep
<1>1. TxInv /\ CmdOK /\ files' \in [Hrefs -> File \cup {NoRow}]
  BY DEF TransferInv, CmdOK
<1>2. TxInv' /\ CommittedStep
  BY <1>1, CommitIsAStep, RollbackRestores DEF CommittedStep
<1>3. tx'.by = "nobody"
  BY DEF Commit, Rollback, NoTx
<1>4. CmdOK'
  <2>1. CASE tx.by = "daemon" /\ (Disturbed \/ UNCHANGED cmd)
    BY <1>1, <1>3, <2>1, DisturbedOK, WaitingOK
  <2>2. CASE tx.by = "ctl" /\ \E status \in {"ok", "failed"}, n, m \in Int : Finish(status, n, m)
    BY <1>1, <1>3, <2>2, FinishOK
  <2>. QED  BY <2>1, <2>2
<1>. QED  BY <1>2, <1>4 DEF TransferInv

LEMMA SingleStep ==
  ASSUME TransferInv, SingleStatement, Disturbed, files' = files
  PROVE  TransferInv' /\ CommittedStep
<1>1. tx' = tx
  BY DEF SingleStatement, Between
<1>. QED  BY <1>1, SingleIsAStep, DisturbedOK DEF TransferInv

\* A step that touches neither the tables nor the transaction.
LEMMA NoTxStep ==
  ASSUME TxInv, UNCHANGED storeVars, UNCHANGED tx
  PROVE  TxInv' /\ CommittedStep
<1>1. /\ tx' = tx /\ users' = users /\ books' = books /\ cards' = cards /\ changes' = changes
      /\ seq' = seq /\ clock' = clock /\ last' = last
  BY DEF storeVars
<1>2. Seen(1)' = Seen(1) /\ Seen(2)' = Seen(2) /\ Seen(3)' = Seen(3) /\ Seen(4)' = Seen(4)
  BY <1>1 DEF Seen, Free, Tables
<1>3. CommittedOK'
  BY <1>1, <1>2 DEF TxInv, CommittedOK
<1>4. Flying => Flying'
  <2>1. CardsDone' = CardsDone /\ BumpsDone' = BumpsDone /\ RowsDone' = RowsDone
    BY <1>1 DEF CardsDone, BumpsDone, RowsDone
  <2>2. Revision0' = Revision0 /\ Cards0' = Cards0
    BY <1>1, <1>2 DEF Revision0, Cards0
  <2>3. {RowPut(tx, Revision0, j, clock)' : j \in 1 .. RowsDone} = {RowPut(tx, Revision0, j, clock) : j \in 1 .. RowsDone}
    BY <1>1, <2>2 DEF RowPut
  <2>4. RowDeleted(tx, Revision0, Cards0[tx.batch[1].href].etag)' = RowDeleted(tx, Revision0, Cards0[tx.batch[1].href].etag)
    BY <1>1, <2>2 DEF RowDeleted
  <2>5. FlyingShape => FlyingShape'
    BY <1>1, <2>1 DEF FlyingShape
  <2>6. FlyingBooks => FlyingBooks'
    BY <1>1, <1>2, <2>1, <2>2 DEF FlyingBooks
  <2>7. FlyingPut => FlyingPut'
    BY <1>1, <1>2, <2>1, <2>2, <2>3 DEF FlyingPut
  <2>8. FlyingDelete => FlyingDelete'
    BY <1>1, <1>2, <2>1, <2>2, <2>4 DEF FlyingDelete
  <2>. QED  BY <1>1, <2>5, <2>6, <2>7, <2>8 DEF Flying
<1>5. UNCHANGED Committed!storeVars
  BY <1>1, <1>2 DEF Committed!storeVars
<1>. QED  BY <1>1, <1>3, <1>4, <1>5, SameInFlight, SameInFlightNext DEF TxInv, CommittedStep

LEMMA TransferStep == TransferInv /\ [TransferNext]_vars => TransferInv' /\ CommittedStep
<1>. SUFFICES ASSUME TransferInv, [TransferNext]_vars PROVE TransferInv' /\ CommittedStep
  OBVIOUS
<1>1. CASE BeginImport
  BY <1>1, BeginImportStep
<1>2. CASE RunImport \/ RunConcat \/ Reads \/ Looks
  <2>1. UNCHANGED storeVars /\ UNCHANGED tx
    BY <1>2 DEF RunImport, RunConcat, Reads, Stat, ReadFile, VerifyFile, Looks, Classify, ClassifyUid, ApplyNothing, Quit
  <2>2. Reads => files' = files
    BY DEF Reads, Stat, ReadFile, VerifyFile
  <2>3. CmdOK'
    BY <1>2, <2>1, <2>2, RunsOK, ReadsOK, LooksOK DEF TransferInv
  <2>. QED  BY <2>1, <2>3, NoTxStep DEF TransferInv
<1>3. ASSUME NEW h \in Hrefs, Edit(h) PROVE TransferInv' /\ CommittedStep
  <2>1. UNCHANGED storeVars /\ UNCHANGED tx
    BY <1>3 DEF Edit
  <2>. QED  BY <1>3, <2>1, EditOK, NoTxStep DEF TransferInv
<1>4. ASSUME TxStep, files' = files PROVE TransferInv' /\ CommittedStep
  <2>1. CASE DaemonBegins
    BY <1>4, <2>1, DaemonBeginsStep
  <2>2. CASE Statement /\ UNCHANGED cmd
    BY <1>4, <2>2, StatementStep
  <2>3. CASE SingleStatement /\ Disturbed
    BY <1>4, <2>3, SingleStep
  <2>4. CASE (Commit /\ tx.by = "daemon" /\ Disturbed) \/ (Rollback /\ tx.by = "daemon" /\ UNCHANGED cmd)
    BY <1>4, <2>4, EndStep
  <2>5. CASE Rollback /\ tx.by = "ctl" /\ Finish("failed", 0, 0)
    BY <1>4, <2>5, EndStep
  <2>6. CASE Commit /\ tx.by = "ctl" /\ Finish("ok", tx.created, Len(tx.batch) - tx.created)
    <3>1. ~Free
      BY <2>6 DEF Commit, Free
    <3>2. tx.created \in Int /\ Len(tx.batch) - tx.created \in Int
      BY <3>1, FreeOrFlying, LenProperties DEF TransferInv, Flying, FlyingShape, CardsDone
    <3>. QED  BY <1>4, <2>6, <3>2, EndStep
  <2>. QED  BY <1>4, <2>1, <2>2, <2>3, <2>4, <2>5, <2>6 DEF TxStep
<1>5. CASE UNCHANGED vars
  <2>1. UNCHANGED storeVars /\ tx' = tx /\ cmd' = cmd /\ files' = files
    BY <1>5 DEF vars, transferVars
  <2>2. CmdOK'
    BY <2>1 DEF TransferInv, CmdOK
  <2>. QED  BY <2>1, <2>2, NoTxStep DEF TransferInv
<1>. QED  BY <1>1, <1>2, <1>3, <1>4, <1>5 DEF TransferNext, CtlStep, Reads, Looks

LEMMA TransferStart == TransferInit => TransferInv /\ Committed!StoreInit
<1>. SUFFICES ASSUME TransferInit PROVE TransferInv /\ Committed!StoreInit
  OBVIOUS
<1>1. StoreInit /\ tx = NoTx /\ cmd = NoCmd /\ files = [h \in Hrefs |-> NoRow]
  BY DEF TransferInit, TxInit, NoFiles
<1>2. Seen(1) = books /\ Seen(2) = cards /\ Seen(3) = changes /\ Seen(4) = last
  BY <1>1, SeenWhenFree DEF Free, NoTx
<1>3. CommittedOK
  BY <1>1, <1>2 DEF CommittedOK, StoreInit
<1>4. CmdOK
  BY <1>1, EmptySeq, BoundsAssumption DEF CmdOK, NoCmd, NoTx
<1>5. Committed!StoreInit
  BY <1>1, <1>2 DEF Committed!StoreInit, StoreInit, Committed!UserIds, UserIds, Committed!BookIds, BookIds
<1>. QED  BY <1>1, <1>3, <1>4, <1>5 DEF TransferInv, TxInv

\* Whatever is written, statement by statement, by the daemon and by an import of any
\* number of cards, rolled back or cut off anywhere: what is committed goes through
\* the one-step operations of the store and no others (withImmediateTx).
THEOREM TransactionsImplementStore == TransferSpec => Implements
<1>1. TransferInit => TransferInv /\ Committed!StoreInit
  BY TransferStart
<1>2. TransferInv /\ [TransferNext]_vars => TransferInv' /\ CommittedStep
  BY TransferStep
<1>. QED  BY <1>1, <1>2, PTL DEF TransferSpec, Implements, Committed!StoreSpec, CommittedStep

\* The types, and that the command writes exactly while the transaction is its own.
THEOREM TransferTypeCorrect == TransferSpec => []TransferTypeOK
<1>1. TransferInit => TransferInv
  BY TransferStart
<1>2. TransferInv /\ [TransferNext]_vars => TransferInv'
  BY TransferStep
<1>3. TransferInv => TransferTypeOK
  <2>. SUFFICES ASSUME TransferInv PROVE TransferTypeOK
    OBVIOUS
  <2>1. CASE Free
    <3>1. tx = NoTx
      BY <2>1, FreeOrFlying DEF TransferInv
    <3>2. Seen(1) = books /\ Seen(2) = cards
      BY <2>1, SeenWhenFree
    <3>3. <<>> \in Seq(PutInput) /\ Len(<<>>) = 0
      BY EmptySeq
    <3>4. TxTypeOK
      BY <3>1, <3>2, <3>3, BoundsAssumption DEF TransferInv, TxInv, CommittedOK, TxTypeOK, NoTx
    <3>. QED  BY <3>4 DEF TransferInv, CmdOK, TransferTypeOK
  <2>2. CASE ~Free
    <3>1. Flying /\ FlyingShape /\ CommittedOK
      BY <2>2, FreeOrFlying DEF TransferInv, TxInv, Flying
    <3>2. /\ Len(tx.batch) \in Nat /\ tx.batch \in Seq(PutInput) /\ tx.id \in BookIds
          /\ tx.stmt \in {"write", "bump", "journal", "commit"}
          /\ tx.i \in 1 .. Len(tx.batch) + 1 /\ tx.created \in 0 .. Len(tx.batch)
      BY <3>1, LenProperties DEF FlyingShape, CardsDone
    <3>3. tx.id \in 0 .. MaxBooks
      BY <3>2, BoundsAssumption DEF BookIds
    <3>4. TxTypeOK
      BY <3>1, <3>2, <3>3, FlyingTypes DEF CommittedOK, TxTypeOK
    <3>. QED  BY <3>4 DEF TransferInv, CmdOK, TransferTypeOK
  <2>. QED  BY <2>1, <2>2
<1>. QED  BY <1>1, <1>2, <1>3, PTL DEF TransferSpec
-----------------------------------------------------------------------------
(* The batch of an import from a directory *)

\* A file that was read is as it was read, or has been changed since; and when some
\* file was not as it was read at the end of the first pass, one that the second
\* pass has still to look at is not, and stays so (nobody changes a file twice).
Unlike(in) == ~AsRead(in) /\ in.href \in edited
SnapshotInv ==
    /\ cmd.pc = "stat" => cmd.still
    /\ cmd.pc = "read" => \A j \in DOMAIN cmd.batch : AsRead(cmd.batch[j]) \/ cmd.batch[j].href \in edited
    /\ cmd.pc = "verify" => /\ Len(cmd.batch) = Len(cmd.names)
                            /\ ~cmd.still => \E j \in cmd.i .. Len(cmd.batch) : Unlike(cmd.batch[j])
    /\ BatchIsASnapshot

\* A command that leaves the files to others keeps its verdict.
LEMMA SnapshotKept ==
  ASSUME SnapshotInv, cmd'.pc \in {"apply", "list_new", "list_old", "writing"}, cmd'.still = cmd.still,
         cmd.pc \in {"stat", "apply", "list_new", "list_old", "writing"}
  PROVE  SnapshotInv'
  BY DEF SnapshotInv, BatchIsASnapshot

LEMMA SnapshotIdle == ASSUME cmd'.pc = "idle" PROVE SnapshotInv'
  BY DEF SnapshotInv, BatchIsASnapshot

LEMMA FinishIdle == ASSUME NEW status, NEW n, NEW m, Finish(status, n, m) PROVE SnapshotInv'
<1>1. cmd'.pc = "idle"
  BY DEF Finish, NoCmd
<1>. QED  BY <1>1, SnapshotIdle

LEMMA SnapshotSame ==
  ASSUME SnapshotInv, cmd' = cmd, files' = files, edited' = edited
  PROVE  SnapshotInv'
  BY DEF SnapshotInv, BatchIsASnapshot, Unlike, AsRead

LEMMA SnapshotRead == ASSUME TransferInv, SnapshotInv, Reads PROVE SnapshotInv'
<1>1. /\ DOMAIN cmd = DOMAIN NoCmd /\ files' = files /\ edited' = edited
      /\ cmd.batch \in Seq(PutInput) /\ Len(cmd.batch) \in Nat /\ DOMAIN cmd.batch = 1 .. Len(cmd.batch)
      /\ cmd.i \in 1 .. Len(cmd.names) /\ Len(cmd.names) \in Nat
  BY LenProperties DEF TransferInv, CmdOK, Reads, Stat, ReadFile, VerifyFile
<1>2. ASSUME Stat PROVE SnapshotInv'
  <2> DEFINE c == [cmd EXCEPT !.stamps[NextName] = files[NextName].stamp]
  <2>1. cmd' = Loop(c, Len(cmd.names), "read") /\ cmd.pc = "stat" /\ cmd.batch = <<>>
    BY <1>2 DEF Stat, TransferInv, CmdOK
  <2>2. DOMAIN c = DOMAIN NoCmd /\ c.pc = cmd.pc /\ c.i = cmd.i /\ c.batch = cmd.batch /\ c.still = cmd.still
    BY <1>1 DEF NoCmd
  <2>. HIDE DEF c
  <2>3. cmd'.batch = <<>> /\ cmd'.still = cmd.still /\ cmd'.pc \in {"stat", "read"}
    BY <1>1, <2>1, <2>2 DEF Loop, NoCmd
  <2>4. DOMAIN cmd'.batch = {}
    BY <2>3
  <2>. QED  BY <2>1, <2>3, <2>4 DEF SnapshotInv, BatchIsASnapshot
<1>3. ASSUME ReadFile PROVE SnapshotInv'
  <2> DEFINE in == [href |-> NextName, uid |-> files[NextName].card.uid, etag |-> files[NextName].card.etag]
             b == Append(cmd.batch, in)
             c == [cmd EXCEPT !.batch = b, !.still = \A i \in DOMAIN b : AsRead(b[i])]
  <2>1. cmd' = Loop(c, Len(cmd.names), "verify") /\ cmd.pc = "read" /\ files[NextName] # NoRow
    BY <1>3 DEF ReadFile, AsListed
  <2>2. NextName \in Hrefs
    BY <1>1, ElementOfSeq DEF NextName, TransferInv, CmdOK
  <2>3. files[NextName].card \in Card
    BY <2>1, <2>2 DEF TransferInv, CmdOK, File
  <2>4. in \in PutInput /\ AsRead(in)
    BY <2>1, <2>2, <2>3 DEF Card, PutInput, AsRead
  <2>5. /\ b \in Seq(PutInput) /\ Len(b) = Len(cmd.batch) + 1 /\ Len(cmd.batch) = cmd.i - 1
        /\ b[Len(cmd.batch) + 1] = in /\ \A j \in 1 .. Len(cmd.batch) : b[j] = cmd.batch[j]
    <3>. HIDE DEF in
    <3>. QED  BY <1>1, <2>1, <2>4, AppendProperties DEF TransferInv, CmdOK
  <2>6. DOMAIN b = 1 .. Len(cmd.batch) + 1
    <3>. HIDE DEF b
    <3>. QED  BY <2>5, LenProperties
  <2>. HIDE DEF b
  <2>7. /\ DOMAIN c = DOMAIN NoCmd /\ c.pc = cmd.pc /\ c.i = cmd.i /\ c.names = cmd.names
        /\ c.batch = b /\ c.still = (\A i \in DOMAIN b : AsRead(b[i]))
    BY <1>1 DEF NoCmd
  <2>. HIDE DEF c, in
  <2>8. /\ cmd'.names = cmd.names /\ cmd'.batch = b /\ cmd'.still = c.still
        /\ \/ cmd'.pc = "read"
           \/ cmd'.pc = "verify" /\ cmd'.i = 1 /\ cmd.i = Len(cmd.names)
    <3>1. \/ cmd' = [c EXCEPT !.i = @ + 1]
          \/ cmd' = [c EXCEPT !.i = 1, !.pc = "verify"] /\ cmd.i = Len(cmd.names)
      BY <1>1, <2>1, <2>7 DEF Loop
    <3>. QED  BY <2>1, <2>7, <3>1 DEF NoCmd
  <2>9. \A j \in DOMAIN b : AsRead(b[j]) \/ b[j].href \in edited
    <3>. SUFFICES ASSUME NEW j \in DOMAIN b PROVE AsRead(b[j]) \/ b[j].href \in edited
      OBVIOUS
    <3>1. CASE j \in 1 .. Len(cmd.batch)
      BY <1>1, <2>1, <2>5, <3>1 DEF SnapshotInv
    <3>2. CASE j = Len(cmd.batch) + 1
      BY <2>4, <2>5, <3>2
    <3>. QED  BY <1>1, <2>6, <3>1, <3>2
  <2>10. CASE cmd'.pc = "read"
    <3>1. (\A j \in DOMAIN cmd.batch : AsRead(cmd.batch[j]) \/ cmd.batch[j].href \in edited)'
      BY <1>1, <2>8, <2>9 DEF AsRead
    <3>. QED  BY <2>10, <3>1 DEF SnapshotInv, BatchIsASnapshot
  <2>11. CASE cmd'.pc = "verify" /\ cmd'.i = 1 /\ cmd.i = Len(cmd.names)
    <3>1. Len(cmd'.batch) = Len(cmd'.names)
      BY <1>1, <2>5, <2>8, <2>11
    <3>2. ~cmd'.still => \E j \in DOMAIN b : Unlike(b[j])
      BY <2>7, <2>8, <2>9 DEF Unlike
    <3>3. DOMAIN b = cmd'.i .. Len(cmd'.batch)
      BY <2>5, <2>6, <2>8, <2>11
    <3>4. (~cmd.still => \E j \in cmd.i .. Len(cmd.batch) : Unlike(cmd.batch[j]))'
      BY <1>1, <2>8, <3>2, <3>3 DEF Unlike, AsRead
    <3>. QED  BY <2>11, <3>1, <3>4 DEF SnapshotInv, BatchIsASnapshot
  <2>. QED  BY <2>8, <2>10, <2>11
<1>4. ASSUME VerifyFile PROVE SnapshotInv'
  <2>1. cmd' = Loop(cmd, Len(cmd.names), "apply") /\ cmd.pc = "verify" /\ AsRead(cmd.batch[cmd.i])
    BY <1>4 DEF VerifyFile, SameDigest
  <2>2. /\ cmd'.names = cmd.names /\ cmd'.batch = cmd.batch /\ cmd'.still = cmd.still
        /\ \/ cmd'.pc = "verify" /\ cmd'.i = cmd.i + 1
           \/ cmd'.pc = "apply" /\ cmd.i = Len(cmd.names)
    BY <1>1, <2>1 DEF Loop, NoCmd
  <2>3. Len(cmd.batch) = Len(cmd.names)
    BY <2>1 DEF SnapshotInv
  <2>4. ~cmd.still => \E j \in cmd.i + 1 .. Len(cmd.batch) : Unlike(cmd.batch[j])
    <3>. SUFFICES ASSUME ~cmd.still PROVE \E j \in cmd.i + 1 .. Len(cmd.batch) : Unlike(cmd.batch[j])
      OBVIOUS
    <3>1. PICK j \in cmd.i .. Len(cmd.batch) : Unlike(cmd.batch[j])
      BY <2>1 DEF SnapshotInv
    <3>2. j # cmd.i
      BY <2>1, <3>1 DEF Unlike
    <3>. QED  BY <1>1, <3>1, <3>2
  <2>5. CASE cmd'.pc = "verify" /\ cmd'.i = cmd.i + 1
    BY <1>1, <2>2, <2>3, <2>4, <2>5 DEF SnapshotInv, BatchIsASnapshot, Unlike, AsRead
  <2>6. CASE cmd'.pc = "apply" /\ cmd.i = Len(cmd.names)
    <3>1. cmd.still
      BY <1>1, <2>3, <2>4, <2>6
    <3>. QED  BY <2>2, <2>6, <3>1 DEF SnapshotInv, BatchIsASnapshot
  <2>. QED  BY <2>2, <2>5, <2>6
<1>. QED  BY <1>2, <1>3, <1>4 DEF Reads

LEMMA SnapshotRuns == ASSUME RunImport \/ RunConcat PROVE SnapshotInv'
<1>1. ASSUME cmd'.pc \in {"apply", "stat"}, cmd'.still PROVE SnapshotInv'
  BY <1>1 DEF SnapshotInv, BatchIsASnapshot
<1>2. CASE RunImport
  <2>1. PICK dry \in BOOLEAN, dir \in [Hrefs -> {NoRow} \cup [card : Card, stamp : {0}]] :
          /\ files' = dir
          /\ IF BookFound = {} THEN Finish("not_found", 0, 0)
             ELSE \E id \in BookFound, order \in SetToSeqs({h \in Hrefs : dir[h] # NoRow}) :
                    cmd' = [NoCmd EXCEPT !.pc = IF order = <<>> THEN "apply" ELSE "stat",
                                         !.dry = dry, !.id = id, !.names = order]
    BY <1>2 DEF RunImport
  <2>2. CASE BookFound = {}
    BY <2>1, <2>2, FinishIdle
  <2>3. CASE BookFound # {}
    <3>1. PICK id \in BookFound, order \in SetToSeqs({h \in Hrefs : dir[h] # NoRow}) :
            cmd' = [NoCmd EXCEPT !.pc = IF order = <<>> THEN "apply" ELSE "stat",
                                 !.dry = dry, !.id = id, !.names = order]
      BY <2>1, <2>3
    <3>2. cmd'.pc \in {"apply", "stat"} /\ cmd'.still
      BY <3>1 DEF NoCmd
    <3>. QED  BY <1>1, <3>2
  <2>. QED  BY <2>2, <2>3
<1>3. CASE RunConcat
  <2>1. PICK dry \in BOOLEAN, n \in 0 .. MaxBatch : \E b \in [1 .. n -> {in \in PutInput : in.href = in.uid}] :
          IF BookFound = {} THEN Finish("not_found", 0, 0)
          ELSE \E id \in BookFound :
                 cmd' = [NoCmd EXCEPT !.pc = "apply", !.dry = dry, !.id = id, !.batch = b]
    BY <1>3 DEF RunConcat
  <2>1a. PICK b \in [1 .. n -> {in \in PutInput : in.href = in.uid}] :
          IF BookFound = {} THEN Finish("not_found", 0, 0)
          ELSE \E id \in BookFound :
                 cmd' = [NoCmd EXCEPT !.pc = "apply", !.dry = dry, !.id = id, !.batch = b]
    BY <2>1
  <2>2. CASE BookFound = {}
    BY <2>1a, <2>2, FinishIdle
  <2>3. CASE BookFound # {}
    <3>1. PICK id \in BookFound :
            cmd' = [NoCmd EXCEPT !.pc = "apply", !.dry = dry, !.id = id, !.batch = b]
      BY <2>1a, <2>3
    <3>2. cmd'.pc = "apply" /\ cmd'.still
      BY <3>1 DEF NoCmd
    <3>. QED  BY <1>1, <3>2
  <2>. QED  BY <2>2, <2>3
<1>. QED  BY <1>2, <1>3

LEMMA SnapshotLooks == ASSUME TransferInv, SnapshotInv, Looks PROVE SnapshotInv'
<1>1. DOMAIN cmd = DOMAIN NoCmd
  BY DEF TransferInv, CmdOK
<1>2. ASSUME cmd.pc \in {"apply", "list_new", "list_old"},
             \/ \E n \in {0, 1} : Counted(cmd, n)
             \/ cmd' = [cmd EXCEPT !.pc = "list_new"] \/ cmd' = [cmd EXCEPT !.pc = "list_old"]
      PROVE  SnapshotInv'
  <2>1. \/ cmd'.pc = "idle"
        \/ cmd'.pc \in {"apply", "list_new", "list_old", "writing"} /\ cmd'.still = cmd.still
    BY <1>1, <1>2 DEF Counted, Finish, NoCmd
  <2>. QED  BY <1>2, <2>1, SnapshotIdle, SnapshotKept
<1>3. CASE Classify
  BY <1>2, <1>3 DEF Classify
<1>4. CASE ClassifyUid
  BY <1>2, <1>4, FinishIdle DEF ClassifyUid
<1>5. CASE ApplyNothing \/ Quit
  BY <1>5, FinishIdle DEF ApplyNothing, Quit
<1>. QED  BY <1>3, <1>4, <1>5 DEF Looks

\* Whoever changes a file that was read, changes it for good.
LEMMA SnapshotEdit == ASSUME TransferInv, SnapshotInv, NEW h \in Hrefs, Edit(h) PROVE SnapshotInv'
<1>1. /\ cmd' = cmd /\ h \notin edited /\ edited' = edited \cup {h} /\ DOMAIN files = Hrefs
      /\ \A g : g # h => files'[g] = files[g]
  BY DEF Edit, TransferInv, CmdOK
<1>2. ASSUME NEW in, AsRead(in) \/ in.href \in edited PROVE AsRead(in)' \/ in.href \in edited'
  <2>1. CASE in.href = h
    BY <1>1, <2>1
  <2>2. CASE in.href # h
    BY <1>1, <1>2, <2>2 DEF AsRead
  <2>. QED  BY <2>1, <2>2
<1>3. ASSUME NEW in, Unlike(in) PROVE Unlike(in)'
  BY <1>1, <1>3 DEF Unlike, AsRead
<1>. QED  BY <1>1, <1>2, <1>3 DEF SnapshotInv, BatchIsASnapshot

LEMMA SnapshotTx == ASSUME TransferInv, SnapshotInv, TxStep, files' = files, edited' = edited PROVE SnapshotInv'
<1>1. ASSUME Disturbed PROVE SnapshotInv'
  <2>1. /\ cmd'.pc = cmd.pc /\ cmd'.batch = cmd.batch /\ cmd'.names = cmd.names /\ cmd'.i = cmd.i
        /\ cmd'.still = cmd.still
    BY <1>1 DEF Disturbed, TransferInv, CmdOK, NoCmd
  <2>. QED  BY <2>1 DEF SnapshotInv, BatchIsASnapshot, Unlike, AsRead
<1>2. ASSUME cmd' = cmd PROVE SnapshotInv'
  BY <1>2, SnapshotSame
<1>. QED  BY <1>1, <1>2, FinishIdle DEF TxStep, DaemonBegins

LEMMA SnapshotStep == TransferInv /\ SnapshotInv /\ [TransferNext]_vars => SnapshotInv'
<1>. SUFFICES ASSUME TransferInv, SnapshotInv, [TransferNext]_vars PROVE SnapshotInv'
  OBVIOUS
<1>1. CASE BeginImport
  <2>1. cmd.pc = "apply" /\ cmd'.pc = "writing" /\ cmd'.still = cmd.still
    BY <1>1 DEF BeginImport, TransferInv, CmdOK, NoCmd
  <2>. QED  BY <2>1, SnapshotKept
<1>2. CASE RunImport \/ RunConcat \/ Reads \/ Looks
  BY <1>2, SnapshotRuns, SnapshotRead, SnapshotLooks
<1>3. ASSUME NEW h \in Hrefs, Edit(h) PROVE SnapshotInv'
  BY <1>3, SnapshotEdit
<1>4. ASSUME TxStep, files' = files, edited' = edited PROVE SnapshotInv'
  BY <1>4, SnapshotTx
<1>5. CASE UNCHANGED vars
  BY <1>5, SnapshotSame DEF vars, transferVars
<1>. QED  BY <1>1, <1>2, <1>3, <1>4, <1>5 DEF TransferNext, CtlStep, Reads, Looks

\* An import applies the directory as it was at one moment, whatever its files go
\* through while they are listed, looked at, read and verified: for any number of
\* files and edits, as long as nobody changes one of them twice (ctl.go:823).
THEOREM SnapshotOfFiles == TransferSpec => []BatchIsASnapshot
<1>1. TransferInit => TransferInv /\ SnapshotInv
  <2>1. TransferInit => SnapshotInv
    BY DEF TransferInit, NoCmd, SnapshotInv, BatchIsASnapshot
  <2>. QED  BY <2>1, TransferStart
<1>2. TransferInv /\ SnapshotInv /\ [TransferNext]_vars => TransferInv' /\ SnapshotInv'
  BY TransferStep, SnapshotStep
<1>3. SnapshotInv => BatchIsASnapshot
  BY DEF SnapshotInv
<1>. QED  BY <1>1, <1>2, <1>3, PTL DEF TransferSpec
-----------------------------------------------------------------------------
(* What the command reports *)

\* UNIQUE (addressbook_id, uid), of what is committed and of what is in the making.
UidsDiffer(cs) ==
    \A h, g \in Hrefs : cs[h] # NoRow /\ cs[g] # NoRow /\ cs[h].uid = cs[g].uid => h = g
UniqueUids == \A id \in BookIds : UidsDiffer(cards[id]) /\ UidsDiffer(Seen(2)[id])

LEMMA OverwriteDiffers ==
  ASSUME NEW cs \in [Hrefs -> Card \cup {NoRow}], NEW in \in PutInput, UidsDiffer(cs), UidFree(cs, in)
  PROVE  UidsDiffer([cs EXCEPT ![in.href] = CardPut(in)])
<1>1. in.href \in Hrefs
  BY DEF PutInput
<1> DEFINE ds == [cs EXCEPT ![in.href] = CardPut(in)]
<1>2. ds[in.href].uid = in.uid /\ \A h \in Hrefs : h # in.href => ds[h] = cs[h]
  BY <1>1 DEF CardPut
<1>3. UidsDiffer(ds)
  <2>. HIDE DEF ds
  <2>. QED  BY <1>1, <1>2 DEF UidsDiffer, UidFree
<1>. QED  BY <1>3

LEMMA UniqueStart == TransferInit => UniqueUids
<1>. SUFFICES ASSUME TransferInit PROVE UniqueUids
  OBVIOUS
<1>1. cards = [id \in BookIds |-> [h \in Hrefs |-> NoRow]] /\ Seen(2) = cards
  BY SeenWhenFree DEF TransferInit, TxInit, StoreInit, Free, NoTx
<1>. QED  BY <1>1 DEF UniqueUids, UidsDiffer

\* Only a commit, and what needs no transaction, changes what others see.
Commits ==
    \/ Commit /\ (Disturbed \/ Finish("ok", tx.created, Len(tx.batch) - tx.created))
    \/ SingleStatement /\ Disturbed
LEMMA SeenKeeps ==
  ASSUME TransferInv, [TransferNext]_vars
  PROVE  Commits \/ Seen(2)' = Seen(2)
<1>1. UNCHANGED Committed!storeVars => Seen(2)' = Seen(2)
  BY DEF Committed!storeVars
<1>2. TxInv
  BY DEF TransferInv
<1>3. CASE Statement
  BY <1>1, <1>2, <1>3, PutCardRowFlies, DeleteCardRowFlies, BumpFlies, JournalFlies DEF Statement, WriteRow
<1>4. CASE Rollback
  BY <1>1, <1>2, <1>4, RollbackRestores
<1>5. CASE BeginImport \/ DaemonBegins
  <2>1. tx'.old = Tables /\ ~Free' /\ Free
    BY <1>5 DEF BeginImport, DaemonBegins, Begin, Free
  <2>. QED  BY <2>1, SeenWhenFree DEF Seen, Tables
<1>6. ASSUME UNCHANGED storeVars, UNCHANGED tx PROVE Seen(2)' = Seen(2)
  BY <1>6 DEF storeVars, Seen, Free, Tables
<1>7. CASE RunImport \/ RunConcat \/ Reads \/ Looks \/ (\E h \in Hrefs : Edit(h)) \/ UNCHANGED vars
  BY <1>6, <1>7 DEF RunImport, RunConcat, Reads, Stat, ReadFile, VerifyFile, Looks, Classify,
                    ClassifyUid, ApplyNothing, Quit, Edit, vars
<1>. QED  BY <1>3, <1>4, <1>5, <1>7 DEF TransferNext, CtlStep, TxStep, Commits, Reads, Looks

LEMMA UniqueStep == ASSUME TransferInv, UniqueUids, [TransferNext]_vars PROVE UniqueUids'
<1>1. /\ TransferInv' /\ TxInv /\ CommittedOK
      /\ Free => Seen(2) = cards
      /\ Free' => Seen(2)' = cards'
  BY TransferStep, SeenWhenFree, SeenWhenFreeNext DEF TransferInv, TxInv
<1>2. ASSUME \A id \in BookIds : UidsDiffer(cards'[id]), Seen(2)' = Seen(2) \/ Seen(2)' = cards'
      PROVE  UniqueUids'
  BY <1>2 DEF UniqueUids, UidsDiffer
<1>3. Seen(2)' = Seen(2) \/ Seen(2)' = cards'
  BY <1>1, SeenKeeps DEF Commits, Commit, SingleStatement, Between, Free, NoTx
<1>4. cards' = cards => UniqueUids'
  BY <1>2, <1>3 DEF UniqueUids
<1>5. CASE WriteRow
  <2>1. ~Free /\ Flying /\ FlyingShape
    BY <1>1, <1>5, FreeOrFlying DEF WriteRow, Free, Flying
  <2>2. tx.batch[tx.i] \in PutInput /\ tx.id \in BookIds
    BY <1>5, <2>1, ElementOfSeq DEF FlyingShape, WriteRow
  <2>3. cards \in [BookIds -> [Hrefs -> Card \cup {NoRow}]]
    BY <1>1, <2>1, FlyingTypes
  <2> DEFINE in == tx.batch[tx.i]  cs == cards[tx.id]
  <2>4. CASE PutCardRow
    <3>1. UidFree(cs, in) /\ cards' = [cards EXCEPT ![tx.id] = [cs EXCEPT ![in.href] = CardPut(in)]]
      BY <2>4 DEF PutCardRow, CardPut
    <3>2. UidsDiffer([cs EXCEPT ![in.href] = CardPut(in)])
      BY <2>2, <2>3, <3>1, OverwriteDiffers DEF UniqueUids
    <3>. HIDE DEF cs, in
    <3>3. \A id \in BookIds : UidsDiffer(cards'[id])
      BY <2>2, <2>3, <3>1, <3>2 DEF UniqueUids
    <3>. QED  BY <1>2, <1>3, <3>3
  <2>5. CASE DeleteCardRow
    <3>1. cards' = [cards EXCEPT ![tx.id] = [cs EXCEPT ![in.href] = NoRow]]
      BY <2>5 DEF DeleteCardRow
    <3>2. UidsDiffer([cs EXCEPT ![in.href] = NoRow])
      BY <2>2, <2>3 DEF UniqueUids, UidsDiffer, PutInput
    <3>. HIDE DEF cs, in
    <3>3. \A id \in BookIds : UidsDiffer(cards'[id])
      BY <2>2, <2>3, <3>1, <3>2 DEF UniqueUids
    <3>. QED  BY <1>2, <1>3, <3>3
  <2>. QED  BY <1>5, <2>4, <2>5 DEF WriteRow
<1>6. CASE Bump \/ Journal \/ Commit
  BY <1>4, <1>6 DEF Bump, Journal, Commit, storeVars
<1>7. CASE Rollback
  <2>1. cards' = Seen(2)
    BY <1>7 DEF Rollback, Restored, Seen
  <2>. QED  BY <1>2, <1>3, <2>1 DEF UniqueUids
<1>8. CASE SingleStatement
  <2>1. cards' = cards \/ RemoveCollection
    BY <1>8 DEF SingleStatement, MakeCollection, CreateAddressbook, Tick, CreateUser
  <2>2. CASE RemoveCollection
    <3>1. \A id \in BookIds : cards'[id] = cards[id] \/ cards'[id] = [h \in Hrefs |-> NoRow]
      BY <2>2 DEF RemoveCollection, DeleteAddressbook, RemoveBooks
    <3>2. UidsDiffer([h \in Hrefs |-> NoRow])
      BY DEF UidsDiffer
    <3>. QED  BY <1>2, <1>3, <3>1, <3>2 DEF UniqueUids
  <2>. QED  BY <1>4, <2>1, <2>2
<1>9. CASE BeginImport \/ DaemonBegins
  BY <1>4, <1>9 DEF BeginImport, DaemonBegins, Begin, storeVars
<1>10. CASE RunImport \/ RunConcat \/ Reads \/ Looks \/ (\E h \in Hrefs : Edit(h)) \/ UNCHANGED vars
  BY <1>4, <1>10 DEF RunImport, RunConcat, Reads, Stat, ReadFile, VerifyFile, Looks, Classify,
                    ClassifyUid, ApplyNothing, Quit, Edit, vars, storeVars
<1>. QED  BY <1>5, <1>6, <1>7, <1>8, <1>9, <1>10 DEF TransferNext, CtlStep, TxStep, Statement, Reads, Looks

\* Counting the elements of a batch one by one.
LEMMA CountNext ==
  ASSUME NEW i \in Nat, NEW S \in SUBSET (1 .. i - 1)
  PROVE  Cardinality(S) \in Nat /\ Cardinality(S \cup {i}) = Cardinality(S) + 1
<1>1. IsFiniteSet(S)
  <2>1. IsFiniteSet(1 .. i - 1)
    BY FS_Interval
  <2>. QED  BY <2>1, FS_Subset
<1>2. i \notin S
  OBVIOUS
<1>. QED  BY <1>1, <1>2, FS_AddElement, FS_CardinalityType

\* The elements among the first n of b that make a card: written to cs one after the
\* other, and each taken by itself.
New(cs, b, n) == {j \in 1 .. n : After(cs, b, j - 1)[b[j].href] = NoRow}
NewIn(cs, b, n) == {j \in 1 .. n : cs[b[j].href] = NoRow}

LEMMA NewNext ==
  ASSUME NEW cs, NEW b, NEW i \in Nat \ {0}
  PROVE  Cardinality(New(cs, b, i)) = Cardinality(New(cs, b, i - 1)) +
            IF After(cs, b, i - 1)[b[i].href] = NoRow THEN 1 ELSE 0
<1>1. New(cs, b, i - 1) \in SUBSET (1 .. i - 1)
  BY DEF New
<1>2. New(cs, b, i) = IF After(cs, b, i - 1)[b[i].href] = NoRow THEN New(cs, b, i - 1) \cup {i}
                      ELSE New(cs, b, i - 1)
  BY DEF New
<1>. QED  BY <1>1, <1>2, CountNext

LEMMA NewInNext ==
  ASSUME NEW cs, NEW b, NEW i \in Nat \ {0}
  PROVE  Cardinality(NewIn(cs, b, i)) = Cardinality(NewIn(cs, b, i - 1)) +
            IF cs[b[i].href] = NoRow THEN 1 ELSE 0
<1>1. NewIn(cs, b, i - 1) \in SUBSET (1 .. i - 1)
  BY DEF NewIn
<1>2. NewIn(cs, b, i) = IF cs[b[i].href] = NoRow THEN NewIn(cs, b, i - 1) \cup {i}
                        ELSE NewIn(cs, b, i - 1)
  BY DEF NewIn
<1>. QED  BY <1>1, <1>2, CountNext

\* The transaction of the import is that of the command's batch, and has counted the
\* cards that it made.
ImportTold ==
    /\ ~Free /\ tx.op = "put" => tx.created = Cardinality(New(Cards0, tx.batch, CardsDone))
    /\ cmd.pc = "writing" => tx.op = "put" /\ tx.id = cmd.id /\ tx.batch = cmd.batch

LEMMA ImportToldTx ==
  ASSUME TransferInv, ImportTold, Statement, cmd' = cmd
  PROVE  ImportTold'
<1>1. ~Free /\ Flying /\ FlyingShape /\ DOMAIN tx = DOMAIN NoTx
  BY FreeOrFlying DEF TransferInv, TxInv, Statement, WriteRow, Bump, Journal, Free, Flying
<1>2. UNCHANGED Committed!storeVars
  BY PutCardRowFlies, DeleteCardRowFlies, BumpFlies, JournalFlies DEF TransferInv, Statement, WriteRow
<1>3. Seen(2)' = Seen(2)
  BY <1>2 DEF Committed!storeVars
<1>4. tx.i \in Nat \ {0} /\ tx.created \in Nat /\ tx.id \in BookIds
  BY <1>1, LenProperties DEF FlyingShape, CardsDone
<1>5. tx'.op = tx.op /\ tx'.id = tx.id
  BY <1>1 DEF Statement, WriteRow, PutCardRow, DeleteCardRow, Bump, Journal, NoTx
<1>6. Cards0' = Cards0
  BY <1>3, <1>5 DEF Cards0
<1>7. CASE tx.op = "put" /\ WriteRow
  <2> DEFINE in == tx.batch[tx.i]
  <2>1. /\ tx'.batch = tx.batch /\ CardsDone = tx.i - 1 /\ CardsDone' = tx.i
        /\ tx'.created = tx.created + IF cards[tx.id][in.href] = NoRow THEN 1 ELSE 0
    BY <1>1, <1>4, <1>7 DEF WriteRow, PutCardRow, CardsDone, NoTx
  <2>2. cards[tx.id] = After(Cards0, tx.batch, tx.i - 1)
    BY <1>1, <1>4, <1>7, <2>1 DEF Flying, FlyingPut, TransferInv, TxInv, CommittedOK
  <2>3. tx.created = Cardinality(New(Cards0, tx.batch, tx.i - 1))
    BY <1>1, <1>7, <2>1 DEF ImportTold
  <2>4. tx'.created = Cardinality(New(Cards0, tx.batch, tx.i))
    BY <1>4, <2>1, <2>2, <2>3, NewNext
  <2>. QED  BY <1>5, <1>6, <2>1, <2>4 DEF ImportTold
<1>8. CASE tx.op = "delete" /\ WriteRow
  BY <1>5, <1>8 DEF ImportTold
<1>9. CASE Bump \/ Journal
  <2>1. tx'.batch = tx.batch /\ tx'.created = tx.created
    BY <1>1, <1>9 DEF Bump, Journal, NoTx
  <2>2. CASE Bump
    <3>1. tx.stmt = "bump" /\ tx'.stmt = "journal" /\ tx'.i = tx.i
      BY <1>1, <2>2 DEF Bump, NoTx
    <3>. QED  BY <1>1, <1>5, <1>6, <2>1, <3>1 DEF ImportTold, CardsDone
  <2>3. CASE Journal
    <3>1. tx.stmt = "journal" /\ tx'.stmt \in {"commit", "write"} /\ tx'.i = tx.i + 1
      BY <1>1, <2>3 DEF Journal, NoTx
    <3>2. CardsDone' = CardsDone
      BY <1>4, <3>1 DEF CardsDone
    <3>. QED  BY <1>1, <1>5, <1>6, <2>1, <3>2 DEF ImportTold
  <2>. QED  BY <1>9, <2>2, <2>3
<1>. QED  BY <1>7, <1>8, <1>9 DEF Statement, WriteRow

LEMMA ImportToldStep == ASSUME TransferInv, ImportTold, [TransferNext]_vars PROVE ImportTold'
<1>1. /\ TransferInv' /\ CmdOK /\ CmdOK'
      /\ Free => tx.by = "nobody"
      /\ cmd.pc = "writing" => ~Free
  BY TransferStep, FreeOrFlying DEF TransferInv, NoTx, CmdOK
<1>2. CASE Statement /\ cmd' = cmd
  BY <1>2, ImportToldTx
<1>3. CASE Commit \/ Rollback
  <2>1. Free' /\ tx'.by = "nobody"
    BY <1>3 DEF Commit, Rollback, Free, NoTx
  <2>. QED  BY <1>1, <2>1 DEF ImportTold, CmdOK
<1>4. ASSUME NEW by, NEW op \in {"put", "delete"}, NEW id, NEW b, Begin(by, op, id, b, Unconditional),
             by = "ctl" => op = "put" /\ cmd'.id = id /\ cmd'.batch = b
      PROVE  ImportTold'
  <2>1. /\ tx'.by = by /\ tx'.op = op /\ tx'.id = id /\ tx'.batch = b /\ tx'.created = 0
        /\ CardsDone' = 0
    BY <1>4 DEF Begin, CardsDone
  <2>2. New(Cards0, tx.batch, 0)' = {}
    BY DEF New
  <2>3. Cardinality(New(Cards0, tx.batch, CardsDone))' = 0
    BY <2>1, <2>2, FS_EmptySet
  <2>. QED  BY <1>1, <1>4, <2>1, <2>3 DEF ImportTold, CmdOK
<1>5. CASE BeginImport
  <2>1. cmd'.id = cmd.id /\ cmd'.batch = cmd.batch
    BY <1>1, <1>5 DEF BeginImport, CmdOK, NoCmd
  <2>. QED  BY <1>4, <1>5, <2>1 DEF BeginImport
<1>6. CASE DaemonBegins
  BY <1>4, <1>6 DEF DaemonBegins
<1>7. CASE SingleStatement
  BY <1>1, <1>7 DEF SingleStatement, Between, Free, ImportTold, CmdOK
<1>8. ASSUME tx' = tx, Seen(2)' = Seen(2), cmd' = cmd \/ cmd.pc # "writing" PROVE ImportTold'
  <2>1. Cards0' = Cards0 /\ CardsDone' = CardsDone /\ (Free' <=> Free)
    BY <1>8 DEF Cards0, CardsDone, Free
  <2>2. cmd'.pc = "writing" => cmd' = cmd
    BY <1>1, <1>8 DEF CmdOK
  <2>. QED  BY <1>8, <2>1, <2>2 DEF ImportTold
<1>9. CASE RunImport \/ RunConcat \/ Reads \/ Looks \/ (\E h \in Hrefs : Edit(h)) \/ UNCHANGED vars
  <2>1. tx' = tx /\ (cmd' = cmd \/ cmd.pc # "writing") /\ UNCHANGED storeVars
    BY <1>9 DEF RunImport, RunConcat, Reads, Stat, ReadFile, VerifyFile, Looks, Classify,
                    ClassifyUid, ApplyNothing, Quit, Edit, vars, transferVars
  <2>2. Seen(2)' = Seen(2)
    BY <2>1 DEF storeVars, Seen, Free, Tables
  <2>. QED  BY <1>8, <2>1, <2>2
<1>. QED  BY <1>2, <1>3, <1>5, <1>6, <1>7, <1>9 DEF TransferNext, CtlStep, TxStep, Reads, Looks

\* What a dry run c has found out about the cards cs, while they stay as they are.
LookedAt(c, cs) ==
    /\ \A j \in 1 .. c.i - 1 : UidFree(cs, c.batch[j])
    /\ c.created = Cardinality(NewIn(cs, c.batch, c.i - 1))
    /\ c.pc = "list_new" => cs[c.batch[c.i].href] = NoRow
    /\ c.pc = "list_old" => cs[c.batch[c.i].href] # NoRow
DryAt(c, cs) ==
    /\ c.pc = "idle" \/ c.status = "none"
    /\ c.pc \in {"stat", "read", "verify"} => c.created = 0
    /\ c.pc \in {"list_new", "list_old"} => c.batch # <<>>
    /\ c.pc \in {"apply", "list_new", "list_old"} /\ c.batch # <<>> =>
          c.i \in 1 .. Len(c.batch) /\ (c.steady => LookedAt(c, cs))
DryTold == DryAt(cmd, CardsNow)

LEMMA DryIdle == ASSUME NEW c, NEW cs, c.pc = "idle" PROVE DryAt(c, cs)
  BY DEF DryAt

\* A command that has looked at nothing yet.
LEMMA DryFresh ==
  ASSUME NEW c, NEW cs, c.status = "none", c.created = 0, c.batch \in Seq(PutInput),
         c.pc \in {"stat", "read", "verify", "apply"}, c.pc = "apply" => c.i = 1
  PROVE  DryAt(c, cs)
<1>1. c.batch # <<>> => 1 \in 1 .. Len(c.batch)
  BY LenProperties
<1>2. NewIn(cs, c.batch, 0) = {}
  BY DEF NewIn
<1>3. Cardinality(NewIn(cs, c.batch, 0)) = 0
  BY <1>2, FS_EmptySet
<1>4. c.pc = "apply" => LookedAt(c, cs)
  BY <1>3 DEF LookedAt
<1>. QED  BY <1>1, <1>4 DEF DryAt

\* What a look says of the element that is next.
Counts(cs, in, n) == UidFree(cs, in) /\ n = IF cs[in.href] = NoRow THEN 1 ELSE 0
Verdict ==
    LET in == cmd.batch[cmd.i]
        cs == CardsNow
    IN \/ cmd' = [cmd EXCEPT !.pc = "list_new"] /\ cs[in.href] = NoRow
       \/ cmd' = [cmd EXCEPT !.pc = "list_old"] /\ cs[in.href] # NoRow
       \/ \E n \in {0, 1} : Counted(cmd, n) /\ (cmd.steady => Counts(cs, in, n))
       \/ Finish("conflict", 0, 0) /\ (cmd.steady => ~UidFree(cs, in))

LEMMA LooksSay ==
  ASSUME TransferInv, UniqueUids, DryTold, Classify \/ ClassifyUid
  PROVE  Verdict /\ cmd.batch # <<>> /\ cmd.pc \in {"apply", "list_new", "list_old"}
<1>1. /\ cmd.batch # <<>> /\ cmd.pc \in {"apply", "list_new", "list_old"}
      /\ cmd.i \in 1 .. Len(cmd.batch) /\ (cmd.steady => LookedAt(cmd, CardsNow))
  BY DEF DryTold, DryAt, Classify, ClassifyUid
<1>2. PICK in \in PutInput : in = cmd.batch[cmd.i]
  BY <1>1, ElementOfSeq DEF TransferInv, CmdOK
<1>3. PICK cs : cs = CardsNow
  OBVIOUS
<1>4. UidsDiffer(cs) /\ in.href \in Hrefs
  BY <1>1, <1>2, <1>3 DEF UniqueUids, CardsNow, TransferInv, CmdOK, PutInput
<1>5. CASE Classify
  <2>1. IF cs[in.href] = NoRow THEN cmd' = [cmd EXCEPT !.pc = "list_new"]
        ELSE IF cs[in.href].uid = in.uid THEN Counted(cmd, 0)
        ELSE cmd' = [cmd EXCEPT !.pc = "list_old"]
    BY <1>2, <1>3, <1>5 DEF Classify, KeepsUid
  <2>2. cs[in.href] # NoRow /\ cs[in.href].uid = in.uid => UidFree(cs, in)
    BY <1>4 DEF UidsDiffer, UidFree
  <2>. QED  BY <1>1, <1>2, <1>3, <2>1, <2>2 DEF Verdict, Counts
<1>6. CASE ClassifyUid
  <2> DEFINE others == IF cmd.pc = "list_old" THEN Hrefs \ {in.href} ELSE Hrefs
             taken == \E h \in others : cs[h] # NoRow /\ cs[h].uid = in.uid
  <2>1. IF taken THEN Finish("conflict", 0, 0)
        ELSE Counted(cmd, IF cmd.pc = "list_new" THEN 1 ELSE 0)
    BY <1>2, <1>3, <1>6 DEF ClassifyUid
  <2>2. cmd.steady => (cmd.pc = "list_new" <=> cs[in.href] = NoRow)
    BY <1>1, <1>2, <1>3, <1>6 DEF ClassifyUid, LookedAt
  <2>3. cmd.steady => (taken <=> ~UidFree(cs, in))
    BY <1>4, <1>6, <2>2 DEF UidFree, ClassifyUid
  <2>. HIDE DEF taken
  <2>4. taken => Verdict
    BY <1>2, <1>3, <2>1, <2>3 DEF Verdict
  <2>5. ~taken => Verdict
    <3> DEFINE n == IF cmd.pc = "list_new" THEN 1 ELSE 0
    <3>1. n \in {0, 1} /\ (cmd.steady => n = IF cs[in.href] = NoRow THEN 1 ELSE 0)
      BY <2>2
    <3>2. ~taken => Counted(cmd, n)
      BY <2>1
    <3>. HIDE DEF n
    <3>. QED  BY <1>2, <1>3, <2>3, <3>1, <3>2 DEF Verdict, Counts
  <2>. QED  BY <1>1, <2>4, <2>5
<1>. QED  BY <1>1, <1>5, <1>6

\* What the dry run has found out when it comes to an end.
LEMMA CountedSum ==
  ASSUME TransferInv, DryTold, cmd.batch # <<>>, cmd.pc \in {"apply", "list_new", "list_old"},
         cmd.steady, NEW cs, cs = CardsNow, NEW n \in {0, 1},
         Counts(cs, cmd.batch[cmd.i], n)
  PROVE  /\ \A j \in 1 .. cmd.i : UidFree(cs, cmd.batch[j])
         /\ cmd.created + n = Cardinality(NewIn(cs, cmd.batch, cmd.i))
<1>1. cmd.i \in Nat \ {0} /\ LookedAt(cmd, cs)
  BY LenProperties DEF DryTold, DryAt
<1>2. \A j \in 1 .. cmd.i : j \in 1 .. cmd.i - 1 \/ j = cmd.i
  BY <1>1
<1>3. Cardinality(NewIn(cs, cmd.batch, cmd.i)) = Cardinality(NewIn(cs, cmd.batch, cmd.i - 1)) + n
  BY <1>1, NewInNext DEF Counts
<1>. QED  BY <1>1, <1>2, <1>3 DEF LookedAt, Counts

LEMMA DryLooks ==
  ASSUME TransferInv, UniqueUids, DryTold, Classify \/ ClassifyUid, Seen(2)' = Seen(2)
  PROVE  DryTold'
<1>1. /\ Verdict /\ cmd.batch # <<>> /\ cmd.pc \in {"apply", "list_new", "list_old"}
      /\ DOMAIN cmd = DOMAIN NoCmd
  BY LooksSay DEF TransferInv, CmdOK
<1>2. /\ cmd.status = "none" /\ cmd.i \in 1 .. Len(cmd.batch) /\ Len(cmd.batch) \in Nat
      /\ cmd.steady => LookedAt(cmd, CardsNow)
  BY <1>1, LenProperties DEF DryTold, DryAt, TransferInv, CmdOK
<1>3. PICK cs : cs = CardsNow
  OBVIOUS
<1>4. cmd'.id = cmd.id => CardsNow' = cs
  BY <1>3 DEF CardsNow
<1>5. ASSUME NEW pc \in {"list_new", "list_old"}, cmd' = [cmd EXCEPT !.pc = pc],
             pc = "list_new" <=> cs[cmd.batch[cmd.i].href] = NoRow
      PROVE  DryTold'
  <2>1. /\ cmd'.pc = pc /\ cmd'.id = cmd.id /\ cmd'.batch = cmd.batch /\ cmd'.i = cmd.i
        /\ cmd'.status = "none" /\ cmd'.steady = cmd.steady /\ cmd'.created = cmd.created
    BY <1>1, <1>2, <1>5 DEF NoCmd
  <2>2. cmd.steady => LookedAt(cmd', cs)
    BY <1>2, <1>3, <1>5, <2>1 DEF LookedAt
  <2>. QED  BY <1>1, <1>2, <1>4, <2>1, <2>2 DEF DryTold, DryAt
<1>6. ASSUME NEW n \in {0, 1}, Counted(cmd, n),
             cmd.steady => Counts(cs, cmd.batch[cmd.i], n)
      PROVE  DryTold'
  <2>1. CASE cmd.i < Len(cmd.batch)
    <3>1. /\ cmd'.pc = "apply" /\ cmd'.id = cmd.id /\ cmd'.batch = cmd.batch /\ cmd'.i = cmd.i + 1
          /\ cmd'.status = "none" /\ cmd'.steady = cmd.steady /\ cmd'.created = cmd.created + n
      BY <1>1, <1>2, <1>6, <2>1 DEF NoCmd, Counted
    <3>2. cmd'.i \in 1 .. Len(cmd.batch) /\ cmd'.i - 1 = cmd.i
      BY <1>2, <2>1, <3>1
    <3>3. cmd.steady => LookedAt(cmd', cs)
      BY <1>1, <1>3, <1>6, <3>1, <3>2, CountedSum DEF LookedAt
    <3>. QED  BY <1>1, <1>4, <3>1, <3>2, <3>3 DEF DryTold, DryAt
  <2>2. CASE ~(cmd.i < Len(cmd.batch))
    BY <1>6, <2>2, DryIdle DEF Counted, Finish, NoCmd, DryTold
  <2>. QED  BY <2>1, <2>2
<1>7. Finish("conflict", 0, 0) => DryTold'
  BY DryIdle DEF Finish, NoCmd, DryTold
<1>8. CASE \E n \in {0, 1} : Counted(cmd, n) /\ (cmd.steady => Counts(cs, cmd.batch[cmd.i], n))
  BY <1>6, <1>8
<1>9. \/ cmd' = [cmd EXCEPT !.pc = "list_new"] /\ cs[cmd.batch[cmd.i].href] = NoRow
      \/ cmd' = [cmd EXCEPT !.pc = "list_old"] /\ cs[cmd.batch[cmd.i].href] # NoRow
      \/ Finish("conflict", 0, 0)
      \/ \E n \in {0, 1} : Counted(cmd, n) /\ (cmd.steady => Counts(cs, cmd.batch[cmd.i], n))
  BY <1>1, <1>3 DEF Verdict
<1>10. CASE cmd' = [cmd EXCEPT !.pc = "list_new"] /\ cs[cmd.batch[cmd.i].href] = NoRow
  BY <1>5, <1>10
<1>11. CASE cmd' = [cmd EXCEPT !.pc = "list_old"] /\ cs[cmd.batch[cmd.i].href] # NoRow
  BY <1>5, <1>11
<1>. QED  BY <1>7, <1>8, <1>9, <1>10, <1>11

\* The next step of a dry run, and of whoever disturbs it.
LEMMA DryReads == ASSUME TransferInv, DryTold, Reads PROVE DryTold'
<1>1. /\ DOMAIN cmd = DOMAIN NoCmd /\ cmd.pc \in {"stat", "read", "verify"}
      /\ cmd.status = "none" /\ cmd.created = 0
  BY DEF TransferInv, CmdOK, DryTold, DryAt, Reads, Stat, ReadFile, VerifyFile
<1>2. cmd'.batch \in Seq(PutInput)
  <2>1. CmdOK'
    BY TransferStep DEF TransferInv, TransferNext, CtlStep, Reads
  <2>. QED  BY <2>1 DEF CmdOK
<1>3. ASSUME NEW c, NEW n, NEW pc \in {"read", "verify", "apply"}, cmd' = Loop(c, n, pc),
             DOMAIN c = DOMAIN NoCmd, c.pc = cmd.pc, c.status = cmd.status, c.created = cmd.created
      PROVE  DryTold'
  <2>1. /\ cmd'.status = "none" /\ cmd'.created = 0 /\ cmd'.pc \in {"stat", "read", "verify", "apply"}
        /\ cmd'.pc = "apply" => cmd'.i = 1
    BY <1>1, <1>3 DEF Loop, NoCmd
  <2>. QED  BY <1>2, <2>1, DryFresh DEF DryTold
<1>4. CASE Stat
  <2> DEFINE c == [cmd EXCEPT !.stamps[NextName] = files[NextName].stamp]
  <2>1. cmd' = Loop(c, Len(cmd.names), "read")
    BY <1>4 DEF Stat
  <2>2. DOMAIN c = DOMAIN NoCmd /\ c.pc = cmd.pc /\ c.status = cmd.status /\ c.created = cmd.created
    BY <1>1 DEF NoCmd
  <2>. HIDE DEF c
  <2>. QED  BY <1>3, <2>1, <2>2
<1>5. CASE ReadFile
  <2>1. PICK b, still : cmd' = Loop([cmd EXCEPT !.batch = b, !.still = still], Len(cmd.names), "verify")
    BY <1>5 DEF ReadFile
  <2> DEFINE c == [cmd EXCEPT !.batch = b, !.still = still]
  <2>2. DOMAIN c = DOMAIN NoCmd /\ c.pc = cmd.pc /\ c.status = cmd.status /\ c.created = cmd.created
    BY <1>1 DEF NoCmd
  <2>3. cmd' = Loop(c, Len(cmd.names), "verify")
    BY <2>1
  <2>. HIDE DEF c
  <2>. QED  BY <1>3, <2>2, <2>3
<1>6. CASE VerifyFile
  BY <1>1, <1>3, <1>6 DEF VerifyFile
<1>. QED  BY <1>4, <1>5, <1>6 DEF Reads

LEMMA DryRuns == ASSUME TransferInv, RunImport \/ RunConcat PROVE DryTold'
<1>1. cmd'.batch \in Seq(PutInput)
  BY RunsOK DEF CmdOK
<1>2. \A status, n, m : Finish(status, n, m) => cmd'.pc = "idle"
  BY DEF Finish, NoCmd
<1>3. CASE RunImport
  <2>1. \/ Finish("not_found", 0, 0)
        \/ \E dry, id, order :
              cmd' = [NoCmd EXCEPT !.pc = IF order = <<>> THEN "apply" ELSE "stat",
                                   !.dry = dry, !.id = id, !.names = order]
    BY <1>3 DEF RunImport
  <2>2. \/ cmd'.pc = "idle"
        \/ cmd'.status = "none" /\ cmd'.created = 0 /\ cmd'.i = 1 /\ cmd'.pc \in {"stat", "apply"}
    BY <1>2, <2>1 DEF NoCmd
  <2>. QED  BY <1>1, <2>2, DryIdle, DryFresh DEF DryTold
<1>4. CASE RunConcat
  <2>1. \/ Finish("not_found", 0, 0)
        \/ \E dry, id, b :
              cmd' = [NoCmd EXCEPT !.pc = "apply", !.dry = dry, !.id = id, !.batch = b]
    BY <1>4 DEF RunConcat
  <2>2. \/ cmd'.pc = "idle"
        \/ cmd'.status = "none" /\ cmd'.created = 0 /\ cmd'.i = 1 /\ cmd'.pc = "apply"
    BY <1>2, <2>1 DEF NoCmd
  <2>. QED  BY <1>1, <2>2, DryIdle, DryFresh DEF DryTold
<1>. QED  BY <1>3, <1>4

LEMMA DryDisturbed == ASSUME TransferInv, DryTold, Disturbed PROVE DryTold'
<1>1. /\ cmd'.pc = cmd.pc /\ cmd'.batch = cmd.batch /\ cmd'.i = cmd.i /\ cmd'.status = cmd.status
      /\ cmd'.created = cmd.created
      /\ cmd.pc \in {"apply", "list_new", "list_old"} => ~cmd'.steady
  BY DEF Disturbed, TransferInv, CmdOK, NoCmd
<1>. QED  BY <1>1 DEF DryTold, DryAt

LEMMA DryToldStep == ASSUME TransferInv, UniqueUids, DryTold, [TransferNext]_vars PROVE DryTold'
<1>1. \A status, n, m : Finish(status, n, m) => DryTold'
  BY DryIdle DEF Finish, NoCmd, DryTold
<1>2. Commits \/ Seen(2)' = Seen(2)
  BY SeenKeeps
<1>3. cmd' = cmd /\ Seen(2)' = Seen(2) => DryTold'
  BY DEF DryTold, CardsNow
<1>4. CASE Commits
  <2>1. Disturbed \/ Finish("ok", tx.created, Len(tx.batch) - tx.created)
    BY <1>4 DEF Commits
  <2>. QED  BY <1>1, <2>1, DryDisturbed
<1>5. CASE ~Commits /\ TxStep
  <2>1. cmd' = cmd \/ Disturbed \/ \E status, n, m : Finish(status, n, m)
    BY <1>5 DEF TxStep, DaemonBegins
  <2>. QED  BY <1>1, <1>2, <1>3, <1>5, <2>1, DryDisturbed
<1>6. CASE ~Commits /\ (Classify \/ ClassifyUid)
  BY <1>2, <1>6, DryLooks
<1>7. CASE RunImport \/ RunConcat \/ Reads
  BY <1>7, DryRuns, DryReads
<1>8. CASE ApplyNothing \/ Quit
  BY <1>1, <1>8 DEF ApplyNothing, Quit
<1>9. CASE BeginImport
  <2>1. cmd'.pc = "writing" /\ cmd'.status = cmd.status /\ cmd.pc = "apply"
    BY <1>9 DEF BeginImport, TransferInv, CmdOK, NoCmd
  <2>. QED  BY <2>1 DEF DryTold, DryAt
<1>10. CASE ~Commits /\ ((\E h \in Hrefs : Edit(h)) \/ UNCHANGED vars)
  <2>1. cmd' = cmd
    BY <1>10 DEF Edit, vars, transferVars
  <2>. QED  BY <1>2, <1>3, <1>10, <2>1
<1>. QED  BY <1>4, <1>5, <1>6, <1>7, <1>8, <1>9, <1>10 DEF TransferNext, CtlStep, Reads

\* What the import comes to, in these terms.
Comes(cs, b) ==
    IF \E n \in DOMAIN b : ~UidFree(After(cs, b, n - 1), b[n]) THEN [status |-> "conflict", created |-> 0]
    ELSE [status |-> "ok", created |-> Cardinality({n \in DOMAIN b : After(cs, b, n - 1)[b[n].href] = NoRow})]

LEMMA OutcomeIs == ASSUME NEW id, NEW b PROVE Outcome(id, b) = Comes(Seen(2)[id], b)
<1>1. \A n : Committed!CardsAfter(id, b, n - 1) = After(Seen(2)[id], b, n - 1)
  BY Unfold DEF Unfolded
<1>2. (\E n \in DOMAIN b : ~Committed!UidFree(Committed!CardsAfter(id, b, n - 1), b[n]))
        <=> \E n \in DOMAIN b : ~UidFree(After(Seen(2)[id], b, n - 1), b[n])
  BY <1>1 DEF Committed!UidFree, UidFree
<1>3. {n \in DOMAIN b : Committed!CardsAfter(id, b, n - 1)[b[n].href] = NoRow}
        = {n \in DOMAIN b : After(Seen(2)[id], b, n - 1)[b[n].href] = NoRow}
  BY <1>1
<1>. QED  BY <1>1, <1>2, <1>3, Zenon DEF Outcome, Comes

\* Elements that have nothing to do with each other find the cards as they were.
Apart(cs, b) ==
    \A i, j \in DOMAIN b : i # j =>
        /\ b[i].href # b[j].href /\ b[i].uid # b[j].uid
        /\ cs[b[j].href] # NoRow => cs[b[j].href].uid # b[i].uid

LEMMA ApartFinds ==
  ASSUME NEW cs \in [Hrefs -> Card \cup {NoRow}], NEW b \in Seq(PutInput), Apart(cs, b), NEW n \in DOMAIN b
  PROVE  /\ After(cs, b, n - 1)[b[n].href] = cs[b[n].href]
         /\ UidFree(After(cs, b, n - 1), b[n]) <=> UidFree(cs, b[n])
<1>1. n \in 1 .. Len(b) /\ DOMAIN b = 1 .. Len(b) /\ n - 1 \in 0 .. Len(b) /\ Len(b) \in Nat
  BY LenProperties
<1>2. b[n] \in PutInput /\ b[n].href \in Hrefs
  <2>1. b[n] \in PutInput
    BY <1>1, ElementOfSeq
  <2>. QED  BY <2>1 DEF PutInput
<1> DEFINE as == After(cs, b, n - 1)
<1>3. Writes(b, n - 1, b[n].href) = {}
  BY <1>1 DEF Writes, Apart
<1>4. as[b[n].href] = cs[b[n].href]
  BY <1>2, <1>3 DEF After
<1>5. ASSUME NEW h \in Hrefs
      PROVE  \/ as[h] = cs[h]
             \/ \E m \in DOMAIN b : m # n /\ h = b[m].href /\ as[h].uid = b[m].uid /\ as[h] \in Card
  <2>1. CASE Writes(b, n - 1, h) = {}
    BY <2>1 DEF After
  <2>2. CASE Writes(b, n - 1, h) # {}
    <3>1. PICK m : m = Max(Writes(b, n - 1, h))
      OBVIOUS
    <3>2. m \in 1 .. n - 1 /\ b[m].href = h /\ b[m] \in PutInput
      BY <1>1, <2>2, <3>1, LastWrite
    <3>3. as[h] = CardPut(b[m])
      BY <2>2, <3>1 DEF After
    <3>4. as[h] \in Card /\ as[h].uid = b[m].uid
      BY <3>2, <3>3 DEF CardPut, Card, PutInput
    <3>. QED  BY <1>1, <3>2, <3>4
  <2>. QED  BY <2>1, <2>2
<1>. HIDE DEF as
<1>6. UidFree(as, b[n]) => UidFree(cs, b[n])
  <2>. SUFFICES ASSUME UidFree(as, b[n]), NEW h \in Hrefs, h # b[n].href, cs[h] # NoRow
                PROVE  cs[h].uid # b[n].uid
    BY DEF UidFree
  <2>1. as[h] = cs[h] \/ \E m \in DOMAIN b : m # n /\ h = b[m].href
    BY <1>5
  <2>. QED  BY <2>1 DEF UidFree, Apart
<1>7. UidFree(cs, b[n]) => UidFree(as, b[n])
  <2>. SUFFICES ASSUME UidFree(cs, b[n]), NEW h \in Hrefs, h # b[n].href, as[h] # NoRow
                PROVE  as[h].uid # b[n].uid
    BY DEF UidFree
  <2>1. as[h] = cs[h] \/ \E m \in DOMAIN b : m # n /\ as[h].uid = b[m].uid
    BY <1>5
  <2>. QED  BY <2>1 DEF UidFree, Apart
<1>. QED  BY <1>4, <1>6, <1>7 DEF as

\* A dry run that ends with a report, and nobody has committed while it looked.
LEMMA DryReports ==
  ASSUME TransferInv, UniqueUids, DryTold, Classify \/ ClassifyUid \/ ApplyNothing,
         cmd.steady, cmd'.pc = "idle", NEW cs, cs = CardsNow, NEW b, b = cmd.batch, Apart(cs, b)
  PROVE  cmd'.status = Comes(cs, b).status /\ cmd'.created = Comes(cs, b).created
<1>1. /\ b \in Seq(PutInput) /\ DOMAIN b = 1 .. Len(b) /\ Len(b) \in Nat
      /\ cs \in [Hrefs -> Card \cup {NoRow}]
  <2>1. cmd.pc # "idle" /\ CmdOK /\ CommittedOK
    BY DEF TransferInv, TxInv, Classify, ClassifyUid, ApplyNothing
  <2>2. cmd.id \in BookIds /\ cmd.batch \in Seq(PutInput)
    BY <2>1 DEF CmdOK
  <2>. QED  BY <2>1, <2>2, LenProperties DEF CommittedOK, CardsNow
<1>2. \A n \in DOMAIN b : /\ After(cs, b, n - 1)[b[n].href] = cs[b[n].href]
                          /\ UidFree(After(cs, b, n - 1), b[n]) <=> UidFree(cs, b[n])
  <2>. SUFFICES ASSUME NEW n \in DOMAIN b
                PROVE  /\ After(cs, b, n - 1)[b[n].href] = cs[b[n].href]
                       /\ UidFree(After(cs, b, n - 1), b[n]) <=> UidFree(cs, b[n])
    OBVIOUS
  <2>1. b \in Seq(PutInput) /\ cs \in [Hrefs -> Card \cup {NoRow}]
    BY <1>1
  <2>. QED  BY <2>1, ApartFinds, Zenon
<1>3. {n \in DOMAIN b : After(cs, b, n - 1)[b[n].href] = NoRow} = NewIn(cs, b, Len(b))
  BY <1>1, <1>2 DEF NewIn
<1>4. Comes(cs, b) = IF \E n \in DOMAIN b : ~UidFree(cs, b[n]) THEN [status |-> "conflict", created |-> 0]
                     ELSE [status |-> "ok", created |-> Cardinality(NewIn(cs, b, Len(b)))]
  BY <1>2, <1>3 DEF Comes
<1>5. CASE ApplyNothing
  <2>1. b = <<>> /\ cmd'.status = "ok" /\ cmd'.created = 0
    BY <1>5 DEF ApplyNothing, Finish, NoCmd
  <2>2. DOMAIN b = {} /\ NewIn(cs, b, Len(b)) = {}
    BY <2>1 DEF NewIn
  <2>. QED  BY <1>4, <2>1, <2>2, FS_EmptySet
<1>6. CASE Classify \/ ClassifyUid
  <2>1. /\ Verdict /\ b # <<>> /\ cmd.pc \in {"apply", "list_new", "list_old"}
        /\ cmd.i \in DOMAIN b /\ DOMAIN cmd = DOMAIN NoCmd
    BY <1>1, <1>6, LooksSay DEF DryTold, DryAt, TransferInv, CmdOK
  <2>2. \/ \E n \in {0, 1} : Counted(cmd, n) /\ Counts(cs, b[cmd.i], n)
        \/ Finish("conflict", 0, 0) /\ ~UidFree(cs, b[cmd.i])
    BY <2>1 DEF Verdict, NoCmd
  <2>3. CASE Finish("conflict", 0, 0) /\ ~UidFree(cs, b[cmd.i])
    BY <1>4, <2>1, <2>3 DEF Finish, NoCmd
  <2>4. ASSUME NEW n \in {0, 1}, Counted(cmd, n), Counts(cs, b[cmd.i], n)
        PROVE  cmd'.status = Comes(cs, b).status /\ cmd'.created = Comes(cs, b).created
    <3>1. ~(cmd.i < Len(b))
      <4>1. cmd.i < Len(b) => cmd'.pc = "apply"
        BY <2>1, <2>4 DEF Counted, NoCmd
      <4>. QED  BY <4>1
    <3>2. cmd.i = Len(b)
      BY <1>1, <2>1, <3>1
    <3>3. cmd'.status = "ok" /\ cmd'.created = cmd.created + n
      BY <2>4, <3>1 DEF Counted, Finish, NoCmd
    <3>4. /\ \A j \in DOMAIN b : UidFree(cs, b[j])
          /\ cmd.created + n = Cardinality(NewIn(cs, b, Len(b)))
      BY <1>1, <2>1, <2>4, <3>2, CountedSum
    <3>. QED  BY <1>4, <3>3, <3>4
  <2>. QED  BY <2>2, <2>3, <2>4
<1>. QED  BY <1>5, <1>6

\* An import that is committed.
LEMMA ImportReports ==
  ASSUME TransferInv, ImportTold, Commit, cmd.pc = "writing", Finish("ok", tx.created, Len(tx.batch) - tx.created)
  PROVE  /\ cmd'.pc = "idle" /\ cmd'.status = Comes(CardsNow, cmd.batch).status
         /\ cmd'.created = Comes(CardsNow, cmd.batch).created
<1>1. /\ ~Free /\ Flying /\ FlyingShape /\ tx.op = "put" /\ tx.id = cmd.id /\ tx.batch = cmd.batch
      /\ tx.stmt = "commit"
  BY FreeOrFlying DEF TransferInv, Commit, Free, Flying, ImportTold
<1>2. /\ cmd.batch \in Seq(PutInput) /\ Len(cmd.batch) \in Nat /\ DOMAIN cmd.batch = 1 .. Len(cmd.batch)
      /\ tx.i = Len(cmd.batch) + 1 /\ CardsDone = tx.i - 1 /\ Cards0 = CardsNow
  BY <1>1, LenProperties DEF FlyingShape, CardsDone, Cards0, CardsNow
<1>3. CardsDone = Len(cmd.batch)
  BY <1>2
<1>4. \A n \in DOMAIN cmd.batch : UidFree(After(CardsNow, cmd.batch, n - 1), cmd.batch[n])
  BY <1>1, <1>2, <1>3 DEF Flying, FlyingPut
<1>5. tx.created = Cardinality(New(CardsNow, cmd.batch, Len(cmd.batch)))
  BY <1>1, <1>2, <1>3 DEF ImportTold
<1>6. New(CardsNow, cmd.batch, Len(cmd.batch))
        = {n \in DOMAIN cmd.batch : After(CardsNow, cmd.batch, n - 1)[cmd.batch[n].href] = NoRow}
  BY <1>2 DEF New
<1>7. cmd'.pc = "idle" /\ cmd'.status = "ok" /\ cmd'.created = tx.created
  BY DEF Finish, NoCmd
<1>. QED  BY <1>4, <1>5, <1>6, <1>7 DEF Comes

ResultInv == UniqueUids /\ ImportTold /\ DryTold

LEMMA ResultStart == TransferInit => ResultInv
<1>. SUFFICES ASSUME TransferInit PROVE ResultInv
  OBVIOUS
<1>1. Free /\ cmd.pc = "idle"
  BY DEF TransferInit, TxInit, Free, NoTx, NoCmd
<1>. QED  BY <1>1, UniqueStart, DryIdle DEF ResultInv, ImportTold, DryTold

LEMMA ResultStep == TransferInv /\ ResultInv /\ [TransferNext]_vars => ResultInv'
  BY UniqueStep, ImportToldStep, DryToldStep DEF ResultInv

\* The steps that ResultsAreTrue is about.
Report ==
    /\ cmd.dry /\ cmd'.status \in {"ok", "conflict"} /\ cmd.steady /\ cmd.id \in Committed!Live
          /\ cmd'.pc = "idle" /\ cmd.pc # "idle" /\ Separate(cmd.batch)
          => Told(Outcome(cmd.id, cmd.batch).status, Outcome(cmd.id, cmd.batch).created)
    /\ cmd.pc = "writing" /\ cmd'.status = "ok"
          => Told(Outcome(cmd.id, cmd.batch).status, Outcome(cmd.id, cmd.batch).created)

LEMMA ReportStep == TransferInv /\ ResultInv /\ [TransferNext]_vars => Report
<1>. SUFFICES ASSUME TransferInv, ResultInv, [TransferNext]_vars PROVE Report
  OBVIOUS
<1>1. UniqueUids /\ ImportTold /\ DryTold /\ CmdOK
  BY DEF ResultInv, TransferInv
<1>2. cmd.pc = "idle" \/ cmd.status = "none"
  BY <1>1 DEF DryTold, DryAt
<1>3. Outcome(cmd.id, cmd.batch) = Comes(CardsNow, cmd.batch)
  BY OutcomeIs DEF CardsNow
<1>4. Separate(cmd.batch) => Apart(CardsNow, cmd.batch)
  BY DEF Separate, Apart
<1>5. cmd'.status \notin {"ok", "conflict"} => Report
  BY DEF Report
<1>6. cmd.pc = "idle" => Report
  BY DEF Report
<1>7. cmd'.status = cmd.status => Report
  BY <1>2, <1>5, <1>6
<1>8. CASE Classify \/ ClassifyUid \/ ApplyNothing
  <2>1. cmd.pc # "writing"
    BY <1>8 DEF Classify, ClassifyUid, ApplyNothing
  <2>2. cmd.steady /\ cmd'.pc = "idle" /\ Separate(cmd.batch)
          => Told(Comes(CardsNow, cmd.batch).status, Comes(CardsNow, cmd.batch).created)
    BY <1>1, <1>4, <1>8, DryReports DEF Told
  <2>. QED  BY <1>3, <2>1, <2>2 DEF Report
<1>9. CASE Commit /\ tx.by = "ctl" /\ Finish("ok", tx.created, Len(tx.batch) - tx.created)
  <2>1. cmd.pc = "writing"
    BY <1>1, <1>9 DEF CmdOK
  <2>2. Told(Comes(CardsNow, cmd.batch).status, Comes(CardsNow, cmd.batch).created)
    BY <1>1, <1>9, <2>1, ImportReports DEF Told
  <2>. QED  BY <1>3, <2>2 DEF Report
<1>10. CASE Reads
  <2>1. cmd'.status = cmd.status
    BY <1>1, <1>10 DEF Reads, Stat, ReadFile, VerifyFile, Loop, CmdOK, NoCmd
  <2>. QED  BY <1>7, <2>1
<1>11. CASE RunImport \/ RunConcat
  BY <1>6, <1>11 DEF RunImport, RunConcat
<1>12. CASE BeginImport
  <2>1. cmd'.status = cmd.status
    BY <1>1, <1>12 DEF BeginImport, CmdOK, NoCmd
  <2>. QED  BY <1>7, <2>1
<1>13. CASE Quit \/ (Rollback /\ tx.by = "ctl" /\ Finish("failed", 0, 0))
  <2>1. cmd'.status = "failed"
    BY <1>13 DEF Quit, Finish, NoCmd
  <2>. QED  BY <1>5, <2>1
<1>14. CASE Disturbed
  <2>1. cmd'.status = cmd.status
    BY <1>1, <1>14 DEF Disturbed, CmdOK, NoCmd
  <2>. QED  BY <1>7, <2>1
<1>15. CASE cmd' = cmd
  BY <1>7, <1>15
<1>16. CASE (\E h \in Hrefs : Edit(h)) \/ DaemonBegins \/ UNCHANGED vars
  BY <1>15, <1>16 DEF Edit, DaemonBegins, vars, transferVars
<1>. QED  BY <1>8, <1>9, <1>10, <1>11, <1>12, <1>13, <1>14, <1>15, <1>16
          DEF TransferNext, CtlStep, TxStep, Reads

\* What contactctl import reports is true: a dry run, in which nobody commits, says what
\* the import of elements that have nothing to do with each other would come to,
\* a conflict included, and an import what it has done (ctl.go:984).
THEOREM ResultsTrue == TransferSpec => ResultsAreTrue
<1>1. TransferInit => TransferInv /\ ResultInv
  BY TransferStart, ResultStart
<1>2. TransferInv /\ ResultInv /\ [TransferNext]_vars => TransferInv' /\ ResultInv'
  BY TransferStep, ResultStep
<1>3. TransferInv /\ ResultInv /\ [TransferNext]_vars => Report
  BY ReportStep
<1>4. TransferSpec => [][Report]_vars
  BY <1>1, <1>2, <1>3, PTL DEF TransferSpec
<1>. QED  BY <1>4, PTL DEF ResultsAreTrue, Report
=============================================================================
