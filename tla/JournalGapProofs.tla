-------------------------- MODULE JournalGapProofs -------------------------
(***************************************************************************)
(* From a retained row on, the journal of a live book has no gap, and no   *)
(* step opens one but an age prune whose cutoff lies within LockWait of    *)
(* the row's time.                                                         *)
(***************************************************************************)
EXTENDS StoreProofs

\* Rows that leave, none that come, no book that moves: TimesInOrder survives.
LEMMA FewerRowsInOrder ==
    ASSUME TimesInOrder, TypeOK, clock' \in Nat, clock <= clock',
           \A c \in LiveChanges' : c \in LiveChanges
    PROVE  TimesInOrder'
<1>1. \A c \in LiveChanges : c.at \in Nat /\ clock \in Nat
  BY BoundsAssumption DEF TypeOK, LiveChanges, Change
<1>2. \A c \in LiveChanges : c.at <= clock'
  BY <1>1 DEF TimesInOrder
<1>. QED  BY <1>2 DEF TimesInOrder

\* A book that keeps its revision and every row it had has no new gap.
LEMMA SameRowsKeepTails ==
    ASSUME \A c \in LiveChanges' : /\ c \in LiveChanges
                                  /\ books'[c.book].revision = books[c.book].revision
                                  /\ \A d \in LiveChanges : d.book = c.book => d \in LiveChanges'
    PROVE  TailsKept
<1>. SUFFICES ASSUME NEW c \in LiveChanges', WholeFrom(c), NEW r \in c.rev .. books'[c.book].revision
              PROVE  \E d \in LiveChanges' : d.book = c.book /\ d.rev = r
  BY DEF TailsKept, WholeFrom
<1>1. \E d \in LiveChanges : d.book = c.book /\ d.rev = r
  BY DEF WholeFrom
<1>. QED  BY <1>1

LEMMA RowTypes ==
    ASSUME TypeOK
    PROVE  \A c \in LiveChanges :
              /\ c.book \in Live /\ c.book \in BookIds /\ books[c.book] # NoRow
              /\ c.href \in Hrefs
              /\ c.rev \in Nat /\ c.at \in Nat /\ clock \in Nat /\ books[c.book].revision \in Nat
  BY BoundsAssumption DEF TypeOK, LiveChanges, Live, Change, BookRow

\* Every retained row is at or below its book's revision.
LEMMA RowsWithinRevision ==
    ASSUME JournalInv
    PROVE  \A c \in LiveChanges : c.rev <= books[c.book].revision
<1>1. \A c \in LiveChanges : last[c.book][c.href] \in Nat
  BY RowTypes, BoundsAssumption DEF JournalInv, TypeOK
<1>. QED  BY <1>1, RowTypes DEF JournalInv, JournalAgrees

\* A step that adds rows to one book: it gives them the revisions that follow
\* the book's own, one each, and a time that is LockWait old at most.
LEMMA AppendedRows ==
    ASSUME OrderInv, NEW id \in Live, NEW n \in Nat, NEW rows,
           books'[id].revision = books[id].revision + n,
           \A o \in Live \ {id} : books'[o] = books[o],
           clock' = clock,
           LiveChanges' = LiveChanges \cup rows,
           \A c \in rows : /\ c.book = id /\ c.at \in 0 .. clock /\ clock - c.at <= LockWait
                          /\ c.rev \in books[id].revision + 1 .. books[id].revision + n,
           \A c, d \in rows : c.at = d.at,
           \A r \in books[id].revision + 1 .. books[id].revision + n :
              \E c \in rows : c.rev = r
    PROVE  TimesInOrder' /\ TailsKept
<1> DEFINE rev == books[id].revision
<1>1. rev \in Nat /\ clock \in Nat /\ LockWait \in Nat
  BY BoundsAssumption DEF OrderInv, JournalInv, TypeOK, Live, BookRow
<1>2. \A c \in LiveChanges : /\ c.book \in Live /\ c.rev \in Nat /\ c.at \in Nat
                            /\ c.rev <= books[c.book].revision /\ c.at <= clock
  BY RowTypes, RowsWithinRevision DEF OrderInv, JournalInv, TimesInOrder
<1>3. TimesInOrder'
  <2>1. ASSUME NEW c \in LiveChanges' PROVE c.at <= clock' /\ c.at \in Nat
    BY <1>1, <1>2, <2>1
  <2>2. ASSUME NEW c \in LiveChanges', NEW d \in LiveChanges', c.book = d.book, c.rev < d.rev
        PROVE  c.at <= d.at + LockWait
    <3>1. CASE c \in LiveChanges /\ d \in LiveChanges
      BY <2>2, <3>1 DEF OrderInv, TimesInOrder
    <3>2. CASE d \in rows
      <4>1. c.at <= clock /\ clock - d.at <= LockWait /\ d.at \in Nat /\ c.at \in Nat
        BY <2>1, <3>2
      <4>. QED  BY <1>1, <4>1
    <3>3. CASE c \in rows /\ d \in LiveChanges
      BY <1>1, <1>2, <2>2, <3>3
    <3>. QED  BY <3>1, <3>2, <3>3
  <2>. QED  BY <2>1, <2>2 DEF TimesInOrder
<1>4. ASSUME NEW c \in LiveChanges', c \in LiveChanges => WholeFrom(c),
             NEW r \in c.rev .. books'[c.book].revision
      PROVE  \E d \in LiveChanges' : d.book = c.book /\ d.rev = r
  <2>1. CASE c.book # id
    <3>1. c \in LiveChanges /\ books'[c.book] = books[c.book]
      BY <1>2, <2>1
    <3>. QED  BY <1>4, <3>1 DEF WholeFrom
  <2>2. CASE c.book = id /\ r > rev
    <3>1. c.rev \in Int
      BY <1>1, <1>2
    <3>2. r \in rev + 1 .. rev + n
      BY <1>1, <2>2, <3>1
    <3>. QED  BY <2>2, <3>2
  <2>3. CASE c.book = id /\ ~(r > rev)
    <3>1. c \in LiveChanges
      BY <1>1, <2>3
    <3>2. r \in c.rev .. books[c.book].revision
      BY <1>1, <1>2, <2>3, <3>1
    <3>. QED  BY <1>4, <3>1, <3>2 DEF WholeFrom
  <2>. QED  BY <2>1, <2>2, <2>3
<1>. QED  BY <1>3, <1>4 DEF TailsKept, WholeFrom

LEMMA PutCardsTails ==
    ASSUME OrderInv, NEW id \in BookIds, NEW b \in Seq(PutInput), Len(b) > 0, NEW cond,
           PutCards(id, b, cond)
    PROVE  OrderInv' /\ TailsKept
<1>1. JournalInv /\ JournalInv' /\ TypeOK /\ TypeOK'
  BY PutCardsJournal DEF OrderInv, JournalInv
<1>2. /\ books[id].revision \in Nat /\ books'[id].revision = books[id].revision + Len(b)
      /\ Live' = Live /\ id \in Live
      /\ \A o \in BookIds \ {id} : books'[o] = books[o]
  BY <1>1, PutCardsFrame
<1>3. Len(b) \in Nat
  BY LenProperties
<1>4. PICK rows : rows = {PutRow(id, b, i) : i \in 1 .. Len(b)}
  OBVIOUS
<1>5. changes' = changes \cup rows /\ clock' = clock
  BY <1>4 DEF PutCards
<1>6. \A i \in 1 .. Len(b) : /\ PutRow(id, b, i).book = id /\ PutRow(id, b, i).at = clock
                            /\ PutRow(id, b, i).rev = books[id].revision + i
  BY DEF PutRow, RevisionOf
<1>7. /\ \A c \in rows : /\ c.book = id /\ c.at \in 0 .. clock /\ clock - c.at <= LockWait
                        /\ c.rev \in books[id].revision + 1 .. books[id].revision + Len(b)
      /\ \A r \in books[id].revision + 1 .. books[id].revision + Len(b) :
            \E c \in rows : c.rev = r
      /\ \A c, d \in rows : c.at = d.at
  <2>0. clock \in 0 .. clock /\ clock - clock <= LockWait
    BY <1>1, BoundsAssumption DEF TypeOK
  <2>1. ASSUME NEW i \in 1 .. Len(b)
        PROVE  books[id].revision + i \in books[id].revision + 1 .. books[id].revision + Len(b)
    BY <1>2, <1>3
  <2>2. ASSUME NEW r \in books[id].revision + 1 .. books[id].revision + Len(b)
        PROVE  \E c \in rows : c.rev = r
    <3>1. r - books[id].revision \in 1 .. Len(b) /\ books[id].revision + (r - books[id].revision) = r
      BY <1>2, <1>3
    <3>. QED  BY <1>4, <1>6, <3>1
  <2>. QED  BY <1>4, <1>6, <2>0, <2>1, <2>2
<1>8. LiveChanges' = LiveChanges \cup rows
  <2>1. \A c \in changes : books'[c.book] # NoRow <=> books[c.book] # NoRow
    BY <1>1, <1>2 DEF TypeOK, Change, Live
  <2>2. \A c \in rows : books'[c.book] # NoRow
    BY <1>2, <1>7 DEF Live
  <2>. QED  BY <1>5, <2>1, <2>2 DEF LiveChanges
<1>9. \A o \in Live \ {id} : books'[o] = books[o]
  BY <1>2 DEF Live
<1>10. TimesInOrder' /\ TailsKept
  BY <1>2, <1>3, <1>5, <1>7, <1>8, <1>9, AppendedRows
<1>. QED  BY <1>1, <1>10 DEF OrderInv

LEMMA DeleteCardTails ==
    ASSUME OrderInv, NEW id \in BookIds, NEW h \in Hrefs, NEW cond,
           DeleteCard(id, h, cond)
    PROVE  OrderInv' /\ TailsKept
<1>1. JournalInv /\ JournalInv' /\ TypeOK /\ TypeOK'
  BY DeleteCardJournal DEF OrderInv, JournalInv
<1>2. /\ books[id].revision \in Nat /\ books'[id].revision = books[id].revision + 1
      /\ Live' = Live /\ id \in Live
      /\ \A o \in BookIds \ {id} : books'[o] = books[o]
  BY <1>1, DeleteCardFrame
<1>3. PICK now \in {t \in 0 .. clock : clock - t <= LockWait} :
        changes' = changes \cup {DeleteRow(id, h, now)}
  BY DEF DeleteCard
<1>3a. PICK new : new = DeleteRow(id, h, now)
  OBVIOUS
<1>4. new.book = id /\ new.at = now /\ new.rev = books[id].revision + 1
  BY <1>3a DEF DeleteRow, RevisionOf
<1>5. LiveChanges' = LiveChanges \cup {new}
  <2>1. \A c \in changes : books'[c.book] # NoRow <=> books[c.book] # NoRow
    BY <1>1, <1>2 DEF TypeOK, Change, Live
  <2>2. books'[new.book] # NoRow
    BY <1>2, <1>4 DEF Live
  <2>. QED  BY <1>3, <1>3a, <2>1, <2>2 DEF LiveChanges
<1>6. \A o \in Live \ {id} : books'[o] = books[o]
  BY <1>2 DEF Live
<1>7. clock' = clock
  BY DEF DeleteCard
<1>8a. PICK rows : rows = {new}
  OBVIOUS
<1>8b. PICK n \in Nat : n = 1
  OBVIOUS
<1>9. /\ \A c \in rows : /\ c.book = id /\ c.at \in 0 .. clock /\ clock - c.at <= LockWait
                        /\ c.rev \in books[id].revision + 1 .. books[id].revision + n
      /\ \A r \in books[id].revision + 1 .. books[id].revision + n : \E c \in rows : c.rev = r
      /\ \A c, d \in rows : c.at = d.at
  BY <1>2, <1>3, <1>4, <1>8a, <1>8b
<1>10. LiveChanges' = LiveChanges \cup rows /\ books'[id].revision = books[id].revision + n
  BY <1>2, <1>5, <1>8a, <1>8b
<1>11. TimesInOrder' /\ TailsKept
  BY <1>2, <1>6, <1>7, <1>9, <1>10, AppendedRows
<1>. QED  BY <1>1, <1>11 DEF OrderInv

\* A prune that keeps a row keeps those of higher revisions, a prune by age but for
\* what was recorded before the cutoff by a clock that was LockWait late.
LEMMA PruneTails ==
    ASSUME OrderInv, PruneStep
    PROVE  TimesInOrder' /\ TailsKept
<1>1. TypeOK /\ JournalInv /\ LockWait \in Nat
  BY BoundsAssumption DEF OrderInv, JournalInv
<1>2. UNCHANGED <<books, cards, seq, clock, last>> /\ changes' \subseteq changes
  BY DEF PruneStep, PruneCardChangesByAge, PruneCardChangesByMaxRevisions
<1>3. \A c \in LiveChanges' : c \in LiveChanges
  BY <1>2 DEF LiveChanges
<1>4. TimesInOrder'
  BY <1>1, <1>2, <1>3, FewerRowsInOrder DEF OrderInv, TypeOK
<1>5. ASSUME NEW c \in LiveChanges', NEW d \in LiveChanges, d.book = c.book, d.rev >= c.rev,
             ~\E cutoff \in 1 .. clock : PruneCardChangesByAge(cutoff) /\ c.at < cutoff + LockWait
      PROVE  d \in LiveChanges'
  <2>1. /\ c \in changes' /\ d \in changes /\ books[d.book] # NoRow
        /\ c.rev \in Nat /\ d.rev \in Nat /\ c.at \in Nat /\ d.at \in Nat
        /\ books[d.book].revision \in Nat
    BY <1>1, <1>3, <1>5, RowTypes DEF LiveChanges
  <2>2. c.at <= d.at + LockWait
    <3>1. CASE c.rev < d.rev
      BY <1>3, <1>5, <3>1 DEF OrderInv, TimesInOrder
    <3>2. CASE c.rev = d.rev
      <4>1. c = d
        BY <1>1, <1>3, <1>5, <3>2 DEF JournalInv, JournalAgrees
      <4>. QED  BY <1>1, <2>1, <4>1
    <3>. QED  BY <1>5, <2>1, <3>1, <3>2
  <2>3. ASSUME NEW cutoff \in 1 .. clock, PruneCardChangesByAge(cutoff) PROVE d \in changes'
    <3>1. ~(c.at < cutoff + LockWait) /\ cutoff \in Int
      BY <1>5, <2>3
    <3>2. ~(d.at < cutoff)
      BY <1>1, <2>1, <2>2, <3>1
    <3>. QED  BY <2>1, <2>3, <3>2 DEF PruneCardChangesByAge
  <2>4. ASSUME NEW keep \in 1 .. MaxRev, PruneCardChangesByMaxRevisions(keep) PROVE d \in changes'
    <3>1. ~(c.rev <= books[d.book].revision - keep) /\ keep \in Int
      BY <1>5, <2>1, <2>4 DEF PruneCardChangesByMaxRevisions, PrunedByRevision
    <3>2. ~(d.rev <= books[d.book].revision - keep)
      BY <1>5, <2>1, <3>1
    <3>. QED  BY <2>1, <2>4, <3>2 DEF PruneCardChangesByMaxRevisions, PrunedByRevision
  <2>. QED  BY <1>2, <2>1, <2>3, <2>4 DEF PruneStep, LiveChanges
<1>6. ASSUME NEW c \in LiveChanges', WholeFrom(c), NEW r \in c.rev .. books'[c.book].revision,
             ~\E cutoff \in 1 .. clock : PruneCardChangesByAge(cutoff) /\ c.at < cutoff + LockWait
      PROVE  \E d \in LiveChanges' : d.book = c.book /\ d.rev = r
  <2>1. PICK d \in LiveChanges : d.book = c.book /\ d.rev = r
    BY <1>2, <1>6 DEF WholeFrom
  <2>2. d.rev >= c.rev
    BY <1>1, <1>3, <2>1, RowTypes
  <2>. QED  BY <1>5, <1>6, <2>1, <2>2
<1>7. TailsKept
  <2>. SUFFICES ASSUME NEW c \in LiveChanges', c \in LiveChanges => WholeFrom(c),
                       ~\E cutoff \in 1 .. clock : PruneCardChangesByAge(cutoff) /\ c.at < cutoff + LockWait
                PROVE  \A r \in c.rev .. books'[c.book].revision :
                          \E d \in LiveChanges' : d.book = c.book /\ d.rev = r
    BY DEF TailsKept, WholeFrom
  <2>. QED  BY <1>3, <1>6
<1>. QED  BY <1>4, <1>7

\* Every other step keeps all rows of the books that survive it.
LEMMA OtherTails ==
    ASSUME OrderInv, UserStep \/ BookStep \/ Tick \/ UNCHANGED storeVars
    PROVE  TimesInOrder' /\ TailsKept
<1>1. TypeOK /\ JournalInv
  BY DEF OrderInv, JournalInv
<1>2. clock \in Nat /\ clock' \in Nat /\ clock <= clock'
  <2>1. clock \in Nat
    BY <1>1, BoundsAssumption DEF TypeOK
  <2>2. clock' = clock \/ clock' = clock + 1
    <3>1. CASE UserStep
      BY <3>1 DEF UserStep, CreateUser, SetUserPasswordHash, DeleteUser
    <3>2. CASE BookStep
      BY <3>2 DEF BookStep, CreateAddressbook, UpdateAddressbookMetadata, DeleteAddressbook
    <3>3. CASE Tick \/ UNCHANGED storeVars
      BY <3>3 DEF Tick, storeVars
    <3>. QED  BY <3>1, <3>2, <3>3
  <2>. QED  BY <2>1, <2>2
<1>3. \A c \in LiveChanges' : /\ c \in LiveChanges
                             /\ books'[c.book].revision = books[c.book].revision
                             /\ \A d \in LiveChanges : d.book = c.book => d \in LiveChanges'
  <2> DEFINE Kept == \A c \in LiveChanges' :
                         /\ c \in LiveChanges
                         /\ books'[c.book].revision = books[c.book].revision
                         /\ \A d \in LiveChanges : d.book = c.book => d \in LiveChanges'
  <2>1. ASSUME NEW ids, NEW fk, RemoveBooks(ids, fk) PROVE Kept
    BY <1>1, <2>1 DEF RemoveBooks, LiveChanges, TypeOK, Change
  <2>2. ASSUME books' = books, changes' = changes PROVE Kept
    BY <2>2 DEF LiveChanges
  <2>3. ASSUME NEW u, NEW s, NEW n, NEW fk, CreateAddressbook(u, s, n, fk) PROVE Kept
    <3>1. /\ changes' = changes /\ NewBookId > seq.books
          /\ \A o \in BookIds \ {NewBookId} : books'[o] = books[o]
      BY <1>1, <2>3 DEF CreateAddressbook, NewBookId, TypeOK
    <3>2. \A c \in changes : c.book \in BookIds \ {NewBookId}
      BY <1>1, <2>3, <3>1
         DEF JournalInv, UnusedIdsAreBlank, TypeOK, Change, CreateAddressbook
    <3>. QED  BY <3>1, <3>2 DEF LiveChanges
  <2>4. ASSUME NEW n \in Usernames, NEW s \in Slugs, NEW name \in Names,
               UpdateAddressbookMetadata(n, s, name)
        PROVE  Kept
    <3>1. Live' = Live /\ \A id \in Live : books'[id].revision = books[id].revision
      BY <1>1, <2>4, UpdateMetadataJournal, TypeStep DEF StoreNext, BookStep, OrderInv
    <3>2. changes' = changes
      BY <2>4 DEF UpdateAddressbookMetadata
    <3>3. \A c \in changes : c.book \in BookIds
      BY <1>1 DEF TypeOK, Change
    <3>4. LiveChanges' = LiveChanges /\ \A c \in LiveChanges : c.book \in Live
      BY <3>1, <3>2, <3>3 DEF LiveChanges, Live
    <3>. QED  BY <3>1, <3>4
  <2>. QED  BY <2>1, <2>2, <2>3, <2>4 DEF UserStep, BookStep, Tick, storeVars, CreateUser,
               SetUserPasswordHash, DeleteUser, DeleteAddressbook
<1>. QED  BY <1>1, <1>2, <1>3, FewerRowsInOrder, SameRowsKeepTails DEF OrderInv

LEMMA OrderInit == StoreInit => OrderInv
<1>. SUFFICES ASSUME StoreInit PROVE OrderInv
  OBVIOUS
<1>1. JournalInv
  BY JournalInit
<1>2. LiveChanges = {}
  BY DEF StoreInit, LiveChanges
<1>. QED  BY <1>1, <1>2 DEF OrderInv, TimesInOrder

LEMMA TailsStep == OrderInv /\ [StoreNext]_storeVars => OrderInv' /\ TailsKept
<1>. SUFFICES ASSUME OrderInv, [StoreNext]_storeVars PROVE OrderInv' /\ TailsKept
  OBVIOUS
<1>1. JournalInv'
  BY JournalStep DEF OrderInv
<1>2. CASE CardStep
  <2>1. PICK id \in BookIds :
          \/ \E in \in PutInput, cond \in {Unconditional, NoRow} \cup ETags : PutCards(id, <<in>>, cond)
          \/ \E n \in 2 .. MaxBatch : \E b \in [1 .. n -> PutInput] : PutCards(id, b, Unconditional)
          \/ \E h \in Hrefs, cond \in {Unconditional} \cup ETags : DeleteCard(id, h, cond)
    BY <1>2 DEF CardStep
  <2>2. ASSUME NEW in \in PutInput, NEW cond, PutCards(id, <<in>>, cond) PROVE OrderInv' /\ TailsKept
    <3>1. <<in>> \in Seq(PutInput) /\ Len(<<in>>) > 0
      BY Batches
    <3>. QED  BY <2>2, <3>1, PutCardsTails
  <2>3. ASSUME NEW n \in 2 .. MaxBatch, NEW b \in [1 .. n -> PutInput],
               PutCards(id, b, Unconditional)
        PROVE  OrderInv' /\ TailsKept
    <3>1. b \in Seq(PutInput) /\ Len(b) > 0
      BY Batches
    <3>. QED  BY <2>3, <3>1, PutCardsTails
  <2>4. ASSUME NEW h \in Hrefs, NEW cond, DeleteCard(id, h, cond) PROVE OrderInv' /\ TailsKept
    BY <2>4, DeleteCardTails
  <2>. QED  BY <2>1, <2>2, <2>3, <2>4
<1>3. CASE PruneStep
  BY <1>1, <1>3, PruneTails DEF OrderInv
<1>4. CASE UserStep \/ BookStep \/ Tick \/ UNCHANGED storeVars
  BY <1>1, <1>4, OtherTails DEF OrderInv
<1>. QED  BY <1>2, <1>3, <1>4 DEF StoreNext

\* However many writes, batches, deletes of cards and books and prunes of either kind,
\* and however long a delete waits for the lock after it read the clock (store.go:794):
\* the journal of a live book goes on without a gap from every row that it keeps, except
\* that an age prune may open one behind rows no younger than its cutoff by that wait.
THEOREM Tails == StoreSpec => TailsStayWhole
<1>1. StoreInit => OrderInv
  BY OrderInit
<1>2. OrderInv /\ [StoreNext]_storeVars => OrderInv' /\ [TailsKept]_storeVars
  BY TailsStep
<1>. QED  BY <1>1, <1>2, PTL DEF StoreSpec, TailsStayWhole

\* Where no delete waits (LockWait = 0) or no prune by age is made, no step opens a gap.
LEMMA NoNewGap ==
    ASSUME OrderInv, [StoreNext]_storeVars, \A c \in LiveChanges : WholeFrom(c),
           LockWait = 0 \/ \A cutoff \in 1 .. clock : ~PruneCardChangesByAge(cutoff)
    PROVE  \A c \in LiveChanges' : WholeFrom(c)'
<1>. SUFFICES ASSUME NEW c \in LiveChanges', NEW cutoff \in 1 .. clock, LockWait = 0,
                     PruneCardChangesByAge(cutoff), c.at < cutoff + LockWait
              PROVE  FALSE
  BY TailsStep DEF TailsKept
<1>1. c \in changes /\ ~(c.at < cutoff)
  BY DEF PruneCardChangesByAge, LiveChanges
<1>2. c.at \in Nat
  BY <1>1, BoundsAssumption DEF OrderInv, JournalInv, TypeOK, Change
<1>. QED  BY <1>1, <1>2
=============================================================================
