------------------------------ MODULE StoreTx ------------------------------
(***************************************************************************)
(* The write transaction of the store, statement by statement              *)
(* (withImmediateTx in src/internal/db/store.go).  The rows are changed in *)
(* place, one element of the batch after the other:                        *)
(*     Begin -> (WriteRow -> Bump -> Journal) ... -> Commit                *)
(* tx.i is the element of tx.batch that is next.                           *)
(* A statement may fail, or the process die, at any of them; then ROLLBACK *)
(* or recovery brings back what tx.old has kept.  Everybody else reads     *)
(* what is committed, and writers wait for the lock.                       *)
(*                                                                         *)
(* Store.tla has the whole of it in one step.  Implements says that this   *)
(* is what others see.                                                     *)
(***************************************************************************)
EXTENDS Collection

VARIABLE tx \* the transaction that holds the write lock

NoTx == [stmt |-> "none", by |-> "nobody", op |-> "none", id |-> 0, batch |-> <<>>, i |-> 1,
         cond |-> Unconditional, now |-> 0, created |-> 0, old |-> <<>>]

Free == tx.stmt = "none"
Tables == <<books, cards, changes, last>>

\* What a connection outside the transaction reads.
Seen(i) == IF Free THEN Tables[i] ELSE tx.old[i]
Committed == INSTANCE Store WITH books <- Seen(1), cards <- Seen(2), changes <- Seen(3), last <- Seen(4)

-----------------------------------------------------------------------------
(* Mutations of the definitions below, each a plausible bug *)

BumpedOncePerBatch(r) == IF tx.i = 1 THEN r + 1 ELSE r
BumpedByBatch(r) == r + Len(tx.batch)                        \* the whole batch, each time
OldRows == Tables                                         \* nothing to go back to

-----------------------------------------------------------------------------
\* BEGIN IMMEDIATE.  deleteCard has read the clock before it got the lock.
Begin(by, op, id, b, cond) ==
    /\ Free
    /\ id \in Live => books[id].revision + Len(b) <= MaxRev         \* bound
    /\ \E now \in {t \in 0 .. clock : clock - t <= IF op = "delete" THEN LockWait ELSE 0} :
         tx' = [stmt |-> "write", by |-> by, op |-> op, id |-> id, batch |-> b, i |-> 1,
                cond |-> cond, now |-> now, created |-> 0, old |-> Tables]
    /\ UNCHANGED storeVars

\* INSERT or UPDATE of the card, after the SELECT that tests the precondition.  An
\* INSERT needs the book (foreign_keys), either needs the uid to be free.
PutCardRow ==
    LET in == tx.batch[tx.i]
        old == cards[tx.id][in.href]
    IN
    /\ Holds(tx.cond, old)
    /\ old = NoRow => tx.id \in Live
    /\ UidFree(cards[tx.id], in)
    /\ cards' = [cards EXCEPT ![tx.id][in.href] = [uid |-> in.uid, etag |-> in.etag]]
    /\ tx' = [tx EXCEPT !.stmt = "bump", !.created = @ + IF old = NoRow THEN 1 ELSE 0]

DeleteCardRow ==
    LET in == tx.batch[tx.i]
        old == cards[tx.id][in.href]
    IN
    /\ old # NoRow /\ Holds(tx.cond, old)
    /\ cards' = [cards EXCEPT ![tx.id][in.href] = NoRow]
    /\ tx' = [tx EXCEPT !.stmt = "bump", !.batch[tx.i].etag = old.etag]

WriteRow ==
    /\ tx.stmt = "write"
    /\ \/ tx.op = "put" /\ PutCardRow
       \/ tx.op = "delete" /\ DeleteCardRow
    /\ UNCHANGED <<users, books, changes, seq, clock, last>>

\* UPDATE addressbooks SET revision = revision + 1, and the SELECT that finds no row
\* when the book is gone.
NextRevision(r) == r + 1
Bump ==
    /\ tx.stmt = "bump"
    /\ tx.id \in Live
    /\ books' = [books EXCEPT ![tx.id].revision = NextRevision(@)]
    /\ tx' = [tx EXCEPT !.stmt = "journal"]
    /\ UNCHANGED <<users, cards, changes, seq, clock, last>>

\* INSERT INTO card_changes
Journal ==
    LET in == tx.batch[tx.i]
        row == [book |-> tx.id, href |-> in.href, etag |-> in.etag, deleted |-> tx.op = "delete",
                rev |-> books[tx.id].revision, at |-> tx.now]
    IN
    /\ tx.stmt = "journal"
    /\ changes' = changes \cup {row}
    /\ last' = [last EXCEPT ![tx.id][in.href] = row.rev]
    /\ tx' = [tx EXCEPT !.i = @ + 1, !.stmt = IF tx.i = Len(tx.batch) THEN "commit" ELSE "write"]
    /\ UNCHANGED <<users, books, cards, seq, clock>>

Commit ==
    /\ tx.stmt = "commit"
    /\ tx' = NoTx
    /\ UNCHANGED storeVars

Restored == tx.old
Rollback ==
    /\ ~Free
    /\ books' = Restored[1] /\ cards' = Restored[2]
    /\ changes' = Restored[3] /\ last' = Restored[4]
    /\ tx' = NoTx
    /\ UNCHANGED <<users, seq, clock>>

Statement == WriteRow \/ Bump \/ Journal

\* What needs the lock for one statement, and time, which a transaction is too short
\* to see pass (bound).
Between == Free /\ UNCHANGED tx
SingleStatement ==
    /\ Between
    /\ \/ RemoveCollection \/ MakeCollection \/ Tick
       \/ \E p \in Hashes : CreateUser(Username, p)

TxInit == StoreInit /\ tx = NoTx

-----------------------------------------------------------------------------
(* Properties *)

TxTypeOK ==
    /\ users \in [UserIds -> UserRow \cup {NoRow}]
    /\ books \in [BookIds -> BookRow \cup {NoRow}]
    /\ cards \in [BookIds -> [Hrefs -> Card \cup {NoRow}]]
    /\ tx.stmt \in {"none", "write", "bump", "journal", "commit"}
    /\ tx.id \in 0 .. MaxBooks /\ tx.batch \in Seq(PutInput)
    /\ tx.i \in 1 .. Len(tx.batch) + 1 /\ tx.created \in 0 .. Len(tx.batch)

\* Statement by statement, a batch with failures and crashes anywhere is to everybody
\* else one of the steps of Store.tla or nothing at all: PutCards' closed form
\* says what the loop over the elements leaves behind.
Implements == Committed!StoreSpec

\* What Implements needs to be inductive: the elements whose card, revision and
\* journal row are written, and what is then left of what was committed.
CardsDone == IF tx.stmt \in {"bump", "journal"} THEN tx.i ELSE tx.i - 1
BumpsDone == IF tx.stmt = "journal" THEN tx.i ELSE tx.i - 1
RowsDone == tx.i - 1

BooksSoFar == books = IF BumpsDone = 0 THEN Seen(1) ELSE Committed!Bumped(tx.id, BumpsDone)
PutSoFar ==
    /\ cards = [Seen(2) EXCEPT ![tx.id] = Committed!CardsAfter(tx.id, tx.batch, CardsDone)]
    /\ changes = Seen(3) \cup {Committed!PutRow(tx.id, tx.batch, j) : j \in 1 .. RowsDone}
    /\ last = [Seen(4) EXCEPT ![tx.id] =
                 [h \in Hrefs |-> IF Writes(tx.batch, RowsDone, h) = {} THEN Seen(4)[tx.id][h]
                                  ELSE Seen(1)[tx.id].revision + Max(Writes(tx.batch, RowsDone, h))]]
    /\ \A j \in 1 .. CardsDone : UidFree(Committed!CardsAfter(tx.id, tx.batch, j - 1), tx.batch[j])
    /\ tx.now = clock
DeleteSoFar ==
    LET h == tx.batch[1].href IN
    /\ Len(tx.batch) = 1
    /\ clock - tx.now <= LockWait
    /\ cards = IF CardsDone = 0 THEN Seen(2) ELSE [Seen(2) EXCEPT ![tx.id][h] = NoRow]
    /\ CardsDone = 1 => Seen(2)[tx.id][h] # NoRow /\ tx.batch[1].etag = Seen(2)[tx.id][h].etag
    /\ changes = Seen(3) \cup IF RowsDone = 0 THEN {} ELSE {Committed!DeleteRow(tx.id, h, tx.now)}
    /\ last = IF RowsDone = 0 THEN Seen(4)
              ELSE [Seen(4) EXCEPT ![tx.id][h] = Seen(1)[tx.id].revision + 1]

InFlight ==
    /\ tx.id \in BookIds /\ tx.op \in {"put", "delete"}
    /\ tx.batch \in Seq(PutInput) /\ Len(tx.batch) \in {1} \cup 1 .. MaxBatch
    /\ \/ tx.stmt = "commit" /\ tx.i = Len(tx.batch) + 1
       \/ tx.stmt \in {"write", "bump", "journal"} /\ tx.i \in 1 .. Len(tx.batch)
    /\ tx.cond = Unconditional /\ tx.now \in 0 .. clock /\ tx.created \in 0 .. CardsDone
    /\ tx.id \in Committed!Live => Seen(1)[tx.id].revision + Len(tx.batch) <= MaxRev
    /\ BumpsDone > 0 => tx.id \in Committed!Live
    /\ BooksSoFar
    /\ tx.op = "put" => PutSoFar
    /\ tx.op = "delete" => DeleteSoFar

CommittedOK ==
    /\ users \in [UserIds -> UserRow \cup {NoRow}]
    /\ Seen(1) \in [BookIds -> BookRow \cup {NoRow}]
    /\ Seen(2) \in [BookIds -> [Hrefs -> Card \cup {NoRow}]]
    /\ Seen(4) \in [BookIds -> [Hrefs -> Nat]]
    /\ seq \in [users : Nat, books : Nat] /\ clock \in Nat
    /\ \A u \in UserIds : users[u] # NoRow => u <= seq.users

TxInv == CommittedOK /\ DOMAIN tx = DOMAIN NoTx /\ (tx = NoTx \/ InFlight)
=============================================================================
