---------------------------- MODULE ReportsProofs ---------------------------
(* Proofs about Reports.tla, for every value of its constants. *)
EXTENDS Reports, StoreProofs, FunctionTheorems, FiniteSetTheorems

-----------------------------------------------------------------------------
(* What a request asks for *)

\* A set of naturals without 0, and without n + 1 where it is without n, is empty.
LEMMA NoFirst ==
  ASSUME NEW T \in SUBSET Nat, 0 \notin T, \A n \in Nat : n \notin T => n + 1 \notin T
  PROVE  T = {}
<1>. SUFFICES ASSUME T # {} PROVE FALSE
  OBVIOUS
<1>1. PICK x \in T : \A y \in T : ~(<<y, x>> \in OpToRel(<, Nat))
  BY WFMin, NatLessThanWellFounded
<1>2. \A y \in T : ~(y < x)
  BY <1>1 DEF OpToRel
<1>3. x \in Nat /\ x # 0 /\ x - 1 \in Nat /\ x - 1 \notin T
  BY <1>2
<1>4. (x - 1) + 1 = x
  BY <1>3
<1>. QED  BY <1>3, <1>4

LEMMA SameInterval == ASSUME NEW a \in Nat, NEW b \in Nat, 1 .. a = 1 .. b PROVE a = b
<1>1. ASSUME NEW i \in Nat, NEW j \in Nat, i < j PROVE 1 .. i # 1 .. j
  <2>1. j \in 1 .. j /\ j \notin 1 .. i
    BY <1>1
  <2>. QED  BY <2>1
<1>2. ~(a < b) /\ ~(b < a)
  BY <1>1
<1>. QED  BY <1>2

\* d has each of the first n elements of s once, in the order of their first places.
Firsts(s, n, d) ==
    /\ Len(d) <= n
    /\ \A i \in 1 .. Len(d) : \E k \in 1 .. n : s[k] = d[i]
    /\ \A k \in 1 .. n : \E i \in 1 .. Len(d) : d[i] = s[k]
    /\ \A i, j \in 1 .. Len(d) : i < j => \E k \in 1 .. n : s[k] = d[i] /\ \A m \in 1 .. k : s[m] # d[j]

LEMMA FirstsExist ==
  ASSUME NEW S, NEW s \in Seq(S)
  PROVE  \A n \in 0 .. Len(s) : \E d \in Seq(S) : Firsts(s, n, d)
<1> DEFINE T == {n \in 0 .. Len(s) : ~\E d \in Seq(S) : Firsts(s, n, d)}
<1>1. Len(s) \in Nat /\ \A k \in 1 .. Len(s) : s[k] \in S
  BY LenProperties, ElementOfSeq
<1>2. 0 \notin T
  <2>1. <<>> \in Seq(S) /\ Len(<<>>) = 0
    OBVIOUS
  <2>2. Firsts(s, 0, <<>>)
    BY <2>1 DEF Firsts
  <2>. QED  BY <2>1, <2>2
<1>3. ASSUME NEW n \in Nat, n \notin T PROVE n + 1 \notin T
  <2>. SUFFICES ASSUME n + 1 \in 0 .. Len(s) PROVE \E d \in Seq(S) : Firsts(s, n + 1, d)
    OBVIOUS
  <2>1. n \in 0 .. Len(s) /\ s[n + 1] \in S
    BY <1>1
  <2>2. PICK d \in Seq(S) : Firsts(s, n, d)
    BY <1>3, <2>1
  <2>3. Len(d) \in Nat
    BY LenProperties
  <2>4. CASE \E i \in 1 .. Len(d) : d[i] = s[n + 1]
    <3>1. \A k \in 1 .. n + 1 : k \in 1 .. n \/ k = n + 1
      OBVIOUS
    <3>2. \A k \in 1 .. n : k \in 1 .. n + 1
      OBVIOUS
    <3>3. Len(d) <= n + 1
      BY <2>2, <2>3 DEF Firsts
    <3>4. \A k \in 1 .. n + 1 : \E i \in 1 .. Len(d) : d[i] = s[k]
      BY <2>2, <2>4, <3>1 DEF Firsts
    <3>5. \A i \in 1 .. Len(d) : \E k \in 1 .. n + 1 : s[k] = d[i]
      BY <2>2, <3>2 DEF Firsts
    <3>6. \A i, j \in 1 .. Len(d) : i < j => \E k \in 1 .. n + 1 : s[k] = d[i] /\ \A m \in 1 .. k : s[m] # d[j]
      BY <2>2, <3>2 DEF Firsts
    <3>. QED  BY <3>3, <3>4, <3>5, <3>6 DEF Firsts
  <2>5. CASE ~\E i \in 1 .. Len(d) : d[i] = s[n + 1]
    <3> DEFINE e == Append(d, s[n + 1])
    <3>1. /\ e \in Seq(S) /\ Len(e) = Len(d) + 1 /\ e[Len(d) + 1] = s[n + 1]
          /\ \A i \in 1 .. Len(d) : e[i] = d[i]
      BY <2>1, <2>3
    <3>. HIDE DEF e
    <3>2. \A k \in 1 .. n : s[k] # s[n + 1]
      BY <2>2, <2>5 DEF Firsts
    <3>3. \A i \in 1 .. Len(e) : i \in 1 .. Len(d) \/ i = Len(d) + 1
      BY <2>3, <3>1
    <3>4. Len(e) <= n + 1
      BY <2>2, <2>3, <3>1 DEF Firsts
    <3>5. \A i \in 1 .. Len(e) : \E k \in 1 .. n + 1 : s[k] = e[i]
      <4>1. \A k \in 1 .. n : k \in 1 .. n + 1
        OBVIOUS
      <4>2. n + 1 \in 1 .. n + 1
        OBVIOUS
      <4>3. \A i \in 1 .. Len(d) : \E k \in 1 .. n : s[k] = d[i]
        BY <2>2 DEF Firsts
      <4>. QED  BY <3>1, <3>3, <4>1, <4>2, <4>3
    <3>6. \A k \in 1 .. n + 1 : \E i \in 1 .. Len(e) : e[i] = s[k]
      <4>1. ASSUME NEW k \in 1 .. n PROVE \E i \in 1 .. Len(e) : e[i] = s[k]
        <5>1. PICK i \in 1 .. Len(d) : d[i] = s[k]
          BY <2>2 DEF Firsts
        <5>. QED  BY <2>3, <3>1, <5>1
      <4>2. Len(d) + 1 \in 1 .. Len(e)
        BY <2>3, <3>1
      <4>. QED  BY <3>1, <4>1, <4>2
    <3>7. ASSUME NEW i \in 1 .. Len(e), NEW j \in 1 .. Len(e), i < j
          PROVE  \E k \in 1 .. n + 1 : s[k] = e[i] /\ \A m \in 1 .. k : s[m] # e[j]
      <4>1. i \in 1 .. Len(d)
        BY <2>3, <3>1, <3>7
      <4>2. CASE j \in 1 .. Len(d)
        <5>1. PICK k \in 1 .. n : s[k] = d[i] /\ \A m \in 1 .. k : s[m] # d[j]
          BY <2>2, <3>7, <4>1, <4>2 DEF Firsts
        <5>. QED  BY <3>1, <4>1, <4>2, <5>1
      <4>3. CASE j = Len(d) + 1
        <5>1. PICK k \in 1 .. n : s[k] = d[i]
          BY <2>2, <4>1 DEF Firsts
        <5>2. \A m \in 1 .. k : m \in 1 .. n
          OBVIOUS
        <5>. QED  BY <3>1, <3>2, <4>1, <4>3, <5>1, <5>2
      <4>. QED  BY <3>3, <4>2, <4>3
    <3>8. Firsts(s, n + 1, e)
      BY <3>4, <3>5, <3>6, <3>7 DEF Firsts
    <3>. QED  BY <3>1, <3>8
  <2>. QED  BY <2>4, <2>5
<1>4. T \in SUBSET Nat
  BY <1>1
<1>5. T = {}
  <2>. HIDE DEF T
  <2>. QED  BY <1>2, <1>3, <1>4, NoFirst
<1>. QED  BY <1>5

\* A multiget reads the hrefs it names and no others.
LEMMA DistinctHrefs ==
  ASSUME NEW S, NEW s \in Lists(S)
  PROVE  /\ Distinct(s) \in Seq(S) /\ Distinct(s) # <<>>
         /\ \A h : (\E i \in DOMAIN s : s[i] = h) <=> \E i \in 1 .. Len(Distinct(s)) : Distinct(s)[i] = h
<1>1. PICK n \in 1 .. MaxOps : s \in [1 .. n -> S]
  BY DEF Lists
<1>2. n \in Nat /\ n > 0 /\ MaxOps \in Nat /\ n <= MaxOps
  BY ReportAssumption
<1>3. s \in [1 .. n -> Range(s)]
  BY <1>1 DEF Range
<1>4. s \in Seq(Range(s)) /\ Len(s) = n /\ DOMAIN s = 1 .. n
  <2>1. s \in UNION {[1 .. k -> Range(s)] : k \in Nat}
    BY <1>2, <1>3
  <2>2. s \in Seq(Range(s))
    BY <2>1, SeqDef, Zenon
  <2>3. Len(s) \in Nat /\ DOMAIN s = 1 .. Len(s) /\ DOMAIN s = 1 .. n
    BY <1>1, <2>2, LenProperties
  <2>4. Len(s) = n
    BY <1>2, <2>3, SameInterval, Zenon
  <2>. QED  BY <2>2, <2>3, <2>4
<1> DEFINE Each(d) ==
             /\ Range(d) = Range(s)
             /\ \A i, j \in DOMAIN d : i < j =>
                   \E k \in DOMAIN s : s[k] = d[i] /\ \A m \in 1 .. k : s[m] # d[j]
<1>5. PICK e \in Seq(Range(s)) : Firsts(s, n, e)
  BY <1>2, <1>4, FirstsExist
<1>6. Len(e) \in Nat /\ DOMAIN e = 1 .. Len(e) /\ Len(e) <= n
  BY <1>5, LenProperties DEF Firsts
<1>7. Len(e) > 0
  BY <1>2, <1>5, <1>6 DEF Firsts
<1>8. e \in [1 .. Len(e) -> Range(s)]
  <2>1. \A i \in 1 .. Len(e) : e[i] \in Range(s)
    BY <1>5, ElementOfSeq
  <2>2. e = [i \in 1 .. Len(e) |-> e[i]]
    BY <1>5, <1>6, LenProperties
  <2>. QED  BY <2>1, <2>2
<1>9. e \in Lists(Range(s))
  <2>1. Len(e) \in 1 .. MaxOps
    BY <1>2, <1>6, <1>7
  <2>. QED  BY <1>8, <2>1 DEF Lists
<1>10. Each(e)
  <2>1. /\ \A i \in 1 .. Len(e) : \E k \in 1 .. n : s[k] = e[i]
        /\ \A k \in 1 .. n : \E i \in 1 .. Len(e) : e[i] = s[k]
        /\ \A i, j \in 1 .. Len(e) : i < j => \E k \in 1 .. n : s[k] = e[i] /\ \A m \in 1 .. k : s[m] # e[j]
    BY <1>5 DEF Firsts
  <2>2. /\ \A x : x \in Range(e) <=> \E i \in 1 .. Len(e) : e[i] = x
        /\ \A x : x \in Range(s) <=> \E k \in 1 .. n : s[k] = x
    BY <1>4, <1>6 DEF Range
  <2>3. Range(e) = Range(s)
    <3>1. ASSUME NEW x \in Range(e) PROVE x \in Range(s)
      BY <2>1, <2>2
    <3>2. ASSUME NEW x \in Range(s) PROVE x \in Range(e)
      BY <2>1, <2>2
    <3>. QED  BY <3>1, <3>2
  <2>4. \A i, j \in DOMAIN e : i < j => \E k \in DOMAIN s : s[k] = e[i] /\ \A m \in 1 .. k : s[m] # e[j]
    <3>. SUFFICES ASSUME NEW i \in DOMAIN e, NEW j \in DOMAIN e, i < j
                  PROVE  \E k \in DOMAIN s : s[k] = e[i] /\ \A m \in 1 .. k : s[m] # e[j]
      OBVIOUS
    <3>1. i \in 1 .. Len(e) /\ j \in 1 .. Len(e)
      BY <1>6
    <3>2. PICK k \in 1 .. n : s[k] = e[i] /\ \A m \in 1 .. k : s[m] # e[j]
      BY <2>1, <3>1
    <3>3. k \in DOMAIN s
      BY <1>4
    <3>. QED  BY <3>2, <3>3
  <2>. QED  BY <2>3, <2>4, Zenon
<1>11. Distinct(s) \in Lists(Range(s)) /\ Each(Distinct(s))
  <2>1. Distinct(s) = CHOOSE d \in Lists(Range(s)) : Each(d)
    BY DEF Distinct
  <2>. HIDE DEF Each
  <2>. QED  BY <1>9, <1>10, <2>1
<1>12. PICK k \in 1 .. MaxOps : Distinct(s) \in [1 .. k -> Range(s)]
  BY <1>11 DEF Lists
<1>13. k \in Nat /\ k > 0
  BY ReportAssumption
<1>14. Range(s) \in SUBSET S
  BY <1>1 DEF Range
<1>15. Distinct(s) \in Seq(S) /\ Len(Distinct(s)) = k /\ DOMAIN Distinct(s) = 1 .. k
  <2>1. Distinct(s) \in [1 .. k -> S]
    BY <1>12, <1>14
  <2>2. Distinct(s) \in UNION {[1 .. m -> S] : m \in Nat}
    BY <1>13, <2>1
  <2>3. Distinct(s) \in Seq(S)
    BY <2>2, SeqDef, Zenon
  <2>4. Len(Distinct(s)) \in Nat /\ DOMAIN Distinct(s) = 1 .. Len(Distinct(s)) /\ DOMAIN Distinct(s) = 1 .. k
    BY <1>12, <2>3, LenProperties
  <2>5. Len(Distinct(s)) = k
    BY <1>13, <2>4, SameInterval, Zenon
  <2>. QED  BY <2>3, <2>4, <2>5
<1>16. Range(Distinct(s)) = Range(s)
  BY <1>11
<1>17. ASSUME NEW h PROVE (\E i \in DOMAIN s : s[i] = h) <=> \E i \in 1 .. k : Distinct(s)[i] = h
  <2>1. h \in Range(s) <=> \E i \in DOMAIN s : s[i] = h
    BY DEF Range
  <2>2. h \in Range(Distinct(s)) <=> \E i \in 1 .. k : Distinct(s)[i] = h
    BY <1>15 DEF Range
  <2>. QED  BY <1>16, <2>1, <2>2
<1>18. Distinct(s) # <<>>
  <2>1. Len(<<>>) = 0
    OBVIOUS
  <2>. QED  BY <1>13, <1>15, <2>1
<1>. QED  BY <1>15, <1>17, <1>18

\* A PROPPATCH leaves the names a collection may have.
LEMMA PatchedName ==
  ASSUME NEW name \in Names, NEW ops \in Lists(PatchOp)
  PROVE  Patched(name, ops) \in Names
<1>1. PICK n \in 1 .. MaxOps : ops \in [1 .. n -> PatchOp]
  BY DEF Lists
<1>2. n \in Nat
  BY ReportAssumption
<1>3. Names = [display : Displays, desc : Descs]
  BY ReportAssumption
<1>4. DOMAIN name = {"display", "desc"} /\ name.display \in Displays /\ name.desc \in Descs
  BY <1>3
<1> DEFINE On(p) == {i \in DOMAIN ops : ops[i].prop = p}
<1>5. ASSUME NEW p, On(p) # {} PROVE ops[Max(On(p))] \in PatchOp /\ ops[Max(On(p))].prop = p
  <2>1. On(p) \subseteq 1 .. n
    BY <1>1
  <2>2. Max(On(p)) \in On(p)
    <3>. HIDE DEF On
    <3>. QED  BY <1>2, <1>5, <2>1, MaxBounded
  <2>. QED  BY <1>1, <2>2
<1>6. \A op \in PatchOp : /\ op.prop = "display" => op.value \in Displays
                          /\ op.prop = "desc" => op.value \in Descs
  BY DEF PatchOp
<1>7. Patched(name, ops) = [p \in {"display", "desc"} |-> IF On(p) = {} THEN name[p] ELSE ops[Max(On(p))].value]
  BY <1>4 DEF Patched
<1>8. Patched(name, ops)["display"] \in Displays
  BY <1>4, <1>5, <1>6, <1>7
<1>. HIDE DEF On
<1>9. Patched(name, ops)["desc"] \in Descs
  <2>1. Patched(name, ops)["desc"] = IF On("desc") = {} THEN name.desc ELSE ops[Max(On("desc"))].value
    BY <1>7
  <2>. QED  BY <1>4, <1>5, <1>6, <2>1
<1>10. Patched(name, ops) \in [display : Displays, desc : Descs]
  BY <1>7, <1>8, <1>9
<1>. QED  BY <1>3, <1>10

LEMMA DescribedName ==
  ASSUME NEW name \in Names, NEW display \in Displays \cup {NoRow}, NEW desc \in Descs \cup {NoRow},
         NEW q, q.display = display, q.desc = desc
  PROVE  Described(name, q) \in Names
  BY ReportAssumption DEF Described
-----------------------------------------------------------------------------
(* The collection, and what a step may do to it *)

\* There is one user and at most one collection, the one made last.
OneCollection ==
    /\ \A u \in UserIds : users[u] # NoRow => u = 1
    /\ users[1] # NoRow /\ users[1].name = Username /\ seq.users >= 1
    /\ \A id \in Live : id = seq.books /\ books[id].owner = 1 /\ books[id].slug = Slug

EtagOf(card) == IF card = NoRow THEN NoRow ELSE card.etag

\* What others, MKCOL and PROPPATCH do.
Move ==
    \/ WriteCard \/ EraseCard \/ RemoveCollection
    \/ \E n \in Names : UpdateAddressbookMetadata(Username, Slug, n)
    \/ \E u \in UserIds, n \in Names, fk \in ForeignKeys :
          users[u] # NoRow /\ CreateAddressbook(u, Slug, n, fk)
    \/ UNCHANGED storeVars

LEMMA FoundIsLive == ASSUME TypeOK, OneCollection PROVE Found = Live
<1>1. 1 \in UserIds
  BY BoundsAssumption, CollectionAssumption DEF UserIds
<1>. QED  BY <1>1 DEF Found, AddressbookOf, OneCollection

LEMMA EtagNowIs ==
  ASSUME TypeOK, OneCollection, NEW h \in Hrefs
  PROVE  /\ \A id \in Live : EtagNow(h) = EtagOf(cards[id][h])
         /\ Live = {} => EtagNow(h) = NoRow
         /\ EtagNow(h) \in ETags \cup {NoRow}
<1>1. Found = Live
  BY FoundIsLive
<1>2. \A id \in Live : EtagNow(h) = EtagOf(cards[id][h])
  <2>. SUFFICES ASSUME NEW id \in Live PROVE EtagNow(h) = EtagOf(cards[id][h])
    OBVIOUS
  <2>1. \A j \in Found : j = id
    BY <1>1 DEF OneCollection
  <2>2. (CHOOSE j \in Found : TRUE) = id
    BY <1>1, <2>1
  <2>. QED  BY <1>1, <2>1, <2>2 DEF EtagNow, EtagOf
<1>3. Live = {} => EtagNow(h) = NoRow
  BY <1>1 DEF EtagNow
<1>4. \A id \in Live : EtagOf(cards[id][h]) \in ETags \cup {NoRow}
  BY DEF TypeOK, Live, EtagOf, Card
<1>. QED  BY <1>2, <1>3, <1>4

\* The same without an assumption, to be used of the next state.
CollectionShows ==
    \A h \in Hrefs : /\ \A id \in Live : EtagNow(h) = EtagOf(cards[id][h])
                     /\ Live = {} => EtagNow(h) = NoRow
                     /\ EtagNow(h) \in ETags \cup {NoRow}
LEMMA CollectionShown == TypeOK /\ OneCollection => CollectionShows
  BY EtagNowIs DEF CollectionShows

LEMMA MoveStores == ASSUME TypeOK, OneCollection, Move PROVE [StoreNext]_storeVars
<1>1. Username \in Usernames /\ Slug \in Slugs /\ Written \subseteq PutInput
  BY CollectionAssumption
<1>2. ASSUME WriteCard PROVE CardStep
  BY <1>1, <1>2 DEF WriteCard, CardStep, Live
<1>3. ASSUME EraseCard PROVE CardStep
  BY <1>3 DEF EraseCard, CardStep, Live
<1>4. ASSUME RemoveCollection PROVE BookStep
  BY <1>1, <1>4 DEF RemoveCollection, BookStep
<1>5. ASSUME NEW n \in Names, UpdateAddressbookMetadata(Username, Slug, n) PROVE BookStep
  BY <1>1, <1>5 DEF BookStep
<1>6. ASSUME NEW u \in UserIds, NEW n \in Names, NEW fk \in ForeignKeys, users[u] # NoRow,
             CreateAddressbook(u, Slug, n, fk)
      PROVE  BookStep
  <2>1. u \in 1 .. seq.users
    BY <1>6 DEF OneCollection, TypeOK
  <2>. QED  BY <1>1, <1>6, <2>1 DEF BookStep
<1>. QED  BY <1>2, <1>3, <1>4, <1>5, <1>6 DEF Move, StoreNext

LEMMA OneCollectionStart == CollectionInit => JournalInv /\ OneCollection
<1>. SUFFICES ASSUME CollectionInit PROVE JournalInv /\ OneCollection
  OBVIOUS
<1>1. /\ MaxUsers \in Nat /\ MaxBooks \in Nat /\ MaxRev \in Nat /\ MaxClock \in Nat
      /\ MaxUsers >= 1 /\ MaxBooks >= 1 /\ 1 \in UserIds /\ 1 \in BookIds
  BY BoundsAssumption, CollectionAssumption DEF UserIds, BookIds
<1>2. (CHOOSE p \in Hashes : TRUE) \in Hashes
  BY CollectionAssumption
<1> DEFINE user == [name |-> Username, hash |-> CHOOSE p \in Hashes : TRUE]
           book == [owner |-> 1, slug |-> Slug, revision |-> 0, name |-> FirstName]
<1>3. user \in UserRow /\ book \in BookRow /\ user # NoRow /\ user.name = Username
      /\ book.owner = 1 /\ book.slug = Slug /\ book.revision = 0
  BY <1>1, <1>2, CollectionAssumption, NoRowAssumption DEF UserRow, BookRow
<1>. HIDE DEF user, book
<1>4. /\ users = [u \in UserIds |-> IF u = 1 THEN user ELSE NoRow]
      /\ books = [id \in BookIds |-> IF id = 1 THEN book ELSE NoRow]
      /\ cards = [id \in BookIds |-> [h \in Hrefs |-> NoRow]]
      /\ changes = {} /\ seq = [users |-> 1, books |-> 1] /\ clock = 0
      /\ last = [id \in BookIds |-> [h \in Hrefs |-> 0]]
  BY DEF CollectionInit, user, book
<1>5. TypeOK
  BY <1>1, <1>3, <1>4 DEF TypeOK
<1>6. UnusedIdsAreBlank /\ LastWithinRevision /\ JournalAgrees
  <2>1. Live \subseteq {1}
    BY <1>4 DEF Live
  <2>2. \A id \in Live : books[id].revision = 0
    BY <1>1, <1>3, <1>4, <2>1
  <2>. QED  BY <1>1, <1>4, <2>1, <2>2 DEF UnusedIdsAreBlank, LastWithinRevision, JournalAgrees, LiveChanges, Live
<1>7. OneCollection
  BY <1>1, <1>3, <1>4 DEF OneCollection, Live
<1>. QED  BY <1>5, <1>6, <1>7 DEF JournalInv

\* A collection that is there keeps its id and its revision does not go back; and
\* whatever changes its cards shows.
Onward ==
    /\ seq.books <= seq'.books
    /\ \A id \in Live' : id <= seq.books => id \in Live /\ books[id].revision <= books'[id].revision
Shown(id) ==
    \/ \A h \in Hrefs : cards'[id][h] = cards[id][h]
    \/ \A h \in Hrefs : EtagNow(h)' = EtagOf(cards'[id][h])

LEMMA MoveKeeps ==
  ASSUME TypeOK, TypeOK', OneCollection, Move
  PROVE  OneCollection' /\ Onward /\ \A id \in BookIds : Shown(id)
<1>1. /\ seq.books \in Nat /\ MaxBooks \in Nat /\ MaxRev \in Nat /\ 1 \in UserIds
      /\ \A id \in Live : id \in BookIds /\ books[id].revision \in 0 .. MaxRev
      /\ \A id \in BookIds : id \in Nat
  BY BoundsAssumption, CollectionAssumption DEF TypeOK, Live, BookRow, BookIds, UserIds
<1>2. ASSUME OneCollection', NEW id \in Live' PROVE Shown(id)
  <2>1. (TypeOK /\ OneCollection => CollectionShows)'
    BY CollectionShown, PTL
  <2>. QED  BY <1>2, <2>1 DEF Shown, CollectionShows
<1>3. ASSUME Live' = {}, OneCollection' PROVE \A h \in Hrefs : EtagNow(h)' = NoRow
  <2>1. (TypeOK /\ OneCollection => CollectionShows)'
    BY CollectionShown, PTL
  <2>. QED  BY <1>3, <2>1 DEF CollectionShows
<1>4. ASSUME NEW id \in Live, NEW n \in Nat, books' = Bumped(id, n), books[id].revision + n <= MaxRev,
             users' = users, seq' = seq,
             \A j \in BookIds : j # id => cards'[j] = cards[j]
      PROVE  OneCollection' /\ Onward /\ \A j \in BookIds : Shown(j)
  <2>1. /\ \A j \in BookIds : j # id => books'[j] = books[j]
        /\ books'[id] = [books[id] EXCEPT !.revision = books[id].revision + n]
    BY <1>1, <1>4 DEF Bumped, TypeOK
  <2>2. books[id] \in BookRow /\ books[id] # NoRow
    BY DEF Live, TypeOK
  <2>3. /\ books'[id].revision = books[id].revision + n
        /\ books'[id].owner = books[id].owner /\ books'[id].slug = books[id].slug
    BY <2>1, <2>2 DEF BookRow
  <2>4. Live' \subseteq Live
    BY <2>1 DEF Live
  <2>5. id \in Live'
    <3>1. books[id].revision + n \in 0 .. MaxRev
      BY <1>1, <1>4
    <3>2. books'[id] \in BookRow
      BY <2>1, <2>2, <3>1, BookFields
    <3>. QED  BY <1>1, <3>2, NoRowAssumption DEF Live
  <2>6. OneCollection'
    BY <1>4, <2>1, <2>3, <2>4 DEF OneCollection
  <2>7. Onward
    <3>1. \A j \in Live : j # id => books'[j].revision = books[j].revision
      BY <1>1, <2>1
    <3>2. \A j \in Live : books[j].revision <= books'[j].revision
      BY <1>1, <2>3, <3>1
    <3>. QED  BY <1>1, <1>4, <2>4, <3>2 DEF Onward
  <2>. QED  BY <1>2, <1>4, <2>5, <2>6, <2>7 DEF Shown
<1>5. CASE WriteCard
  <2>1. PICK id \in Live, in \in Written : PutCards(id, <<in>>, Unconditional)
    BY <1>5 DEF WriteCard
  <2>2. Len(<<in>>) = 1
    OBVIOUS
  <2>. QED  BY <1>1, <1>4, <2>1, <2>2 DEF PutCards, TypeOK
<1>6. CASE EraseCard
  <2>1. PICK id \in Live, h \in Hrefs : DeleteCard(id, h, Unconditional)
    BY <1>6 DEF EraseCard
  <2>. QED  BY <1>1, <1>4, <2>1 DEF DeleteCard, TypeOK
<1>7. CASE RemoveCollection
  <2>1. PICK fk \in ForeignKeys : RemoveBooks(Found, fk) /\ UNCHANGED <<users, seq, clock, last>>
    BY <1>7 DEF RemoveCollection, DeleteAddressbook, Found
  <2>2. Live' = {}
    BY <2>1, FoundIsLive DEF RemoveBooks, Live
  <2>3. OneCollection' /\ Onward
    BY <1>1, <2>1, <2>2 DEF OneCollection, Onward
  <2>4. \A id \in BookIds : (\A h \in Hrefs : cards'[id][h] = NoRow) \/ cards'[id] = cards[id]
    BY <2>1 DEF RemoveBooks
  <2>. QED  BY <1>3, <2>2, <2>3, <2>4 DEF Shown, EtagOf
<1>8. ASSUME NEW n \in Names, UpdateAddressbookMetadata(Username, Slug, n)
      PROVE  OneCollection' /\ Onward /\ \A j \in BookIds : Shown(j)
  <2>1. PICK id \in Live : books' = [books EXCEPT ![id].name = n] /\ UNCHANGED <<users, cards, changes, seq, clock, last>>
    BY <1>8 DEF UpdateAddressbookMetadata, AddressbookOf
  <2>2. /\ \A j \in BookIds : j # id => books'[j] = books[j]
        /\ books'[id] = [books[id] EXCEPT !.name = n]
    BY <1>1, <2>1 DEF TypeOK
  <2>3. books[id] \in BookRow
    BY DEF Live, TypeOK
  <2>4. /\ books'[id].revision = books[id].revision
        /\ books'[id].owner = books[id].owner /\ books'[id].slug = books[id].slug
    BY <2>2, <2>3 DEF BookRow
  <2>5. Live' \subseteq Live
    BY <2>2 DEF Live
  <2>6. OneCollection'
    BY <2>1, <2>2, <2>4, <2>5 DEF OneCollection
  <2>7. Onward
    BY <1>1, <2>1, <2>2, <2>4, <2>5 DEF Onward
  <2>. QED  BY <2>1, <2>6, <2>7 DEF Shown
<1>9. ASSUME NEW u \in UserIds, NEW n \in Names, NEW fk \in ForeignKeys, users[u] # NoRow,
             CreateAddressbook(u, Slug, n, fk)
      PROVE  OneCollection' /\ Onward /\ \A j \in BookIds : Shown(j)
  <2>1. u = 1
    BY <1>9 DEF OneCollection
  <2>2. Live = {}
    BY <1>9, <2>1 DEF CreateAddressbook, OneCollection
  <2>3. /\ NewBookId \in BookIds /\ seq' = [seq EXCEPT !.books = NewBookId] /\ NewBookId = seq.books + 1
        /\ books' = [books EXCEPT ![NewBookId] = [owner |-> u, slug |-> Slug, name |-> n, revision |-> 0]]
        /\ UNCHANGED <<users, cards>>
    BY <1>9 DEF CreateAddressbook, NewBookId
  <2>4. seq'.books = seq.books + 1 /\ seq'.users = seq.users
    BY <2>3 DEF TypeOK
  <2>5. \A id \in Live' : id = NewBookId /\ books'[id].owner = 1 /\ books'[id].slug = Slug
    BY <2>1, <2>2, <2>3 DEF Live, TypeOK
  <2>6. OneCollection'
    BY <2>3, <2>4, <2>5 DEF OneCollection
  <2>7. Onward
    BY <1>1, <2>3, <2>4, <2>5 DEF Onward
  <2>. QED  BY <2>3, <2>6, <2>7 DEF Shown
<1>10. CASE UNCHANGED storeVars
  <2>1. /\ users' = users /\ books' = books /\ seq' = seq /\ cards' = cards
    BY <1>10 DEF storeVars
  <2>. QED  BY <1>1, <2>1 DEF OneCollection, Onward, Shown, Live
<1>. QED  BY <1>5, <1>6, <1>7, <1>8, <1>9, <1>10 DEF Move
\* A collection has finitely many cards, however many hrefs there are.
CardsFinite == \A id \in BookIds : IsFiniteSet({h \in Hrefs : cards[id][h] # NoRow})

LEMMA MoveFinite == ASSUME TypeOK, CardsFinite, Move PROVE CardsFinite'
<1>1. ASSUME NEW id \in BookIds, NEW x, \A h \in Hrefs : cards'[id][h] # NoRow => h = x \/ cards[id][h] # NoRow
      PROVE  IsFiniteSet({h \in Hrefs : cards'[id][h] # NoRow})
  <2> DEFINE S == {h \in Hrefs : cards[id][h] # NoRow}
             T == {h \in Hrefs : cards'[id][h] # NoRow}
  <2>1. IsFiniteSet(S \cup {x})
    <3>1. IsFiniteSet(S)
      BY DEF CardsFinite
    <3>. QED  BY <3>1, FS_AddElement
  <2>2. T \in SUBSET (S \cup {x})
    BY <1>1
  <2>. HIDE DEF S, T
  <2>3. IsFiniteSet(T)
    BY <2>1, <2>2, FS_Subset
  <2>. QED  BY <2>3 DEF T
<1>2. \A id \in BookIds : \E x : \A h \in Hrefs : cards'[id][h] # NoRow => h = x \/ cards[id][h] # NoRow
  <2>1. CASE WriteCard
    <3>1. PICK id \in Live, in \in Written : PutCards(id, <<in>>, Unconditional)
      BY <2>1 DEF WriteCard
    <3>2. /\ \A j \in BookIds : j # id => cards'[j] = cards[j]
          /\ id \in BookIds => cards'[id] = CardsAfter(id, <<in>>, 1)
      BY <3>1 DEF PutCards, TypeOK
    <3>3. \A h \in Hrefs : h # in.href => CardsAfter(id, <<in>>, 1)[h] = cards[id][h]
      BY DEF CardsAfter, Writes
    <3>4. ASSUME NEW j \in BookIds
          PROVE  \A h \in Hrefs : cards'[j][h] # NoRow => h = in.href \/ cards[j][h] # NoRow
      BY <3>2, <3>3
    <3>. QED  BY <3>4
  <2>2. CASE EraseCard
    <3>1. PICK id \in Live, h \in Hrefs : DeleteCard(id, h, Unconditional)
      BY <2>2 DEF EraseCard
    <3>2. ASSUME NEW j \in BookIds
          PROVE  \A g \in Hrefs : cards'[j][g] # NoRow => g = h \/ cards[j][g] # NoRow
      BY <3>1 DEF DeleteCard, TypeOK
    <3>. QED  BY <3>2
  <2>3. CASE RemoveCollection
    BY <2>3 DEF RemoveCollection, DeleteAddressbook, RemoveBooks
  <2>4. ASSUME UNCHANGED cards
        PROVE  \A id \in BookIds : \E x : \A h \in Hrefs : cards'[id][h] # NoRow => h = x \/ cards[id][h] # NoRow
    BY <2>4
  <2>5. WriteCard \/ EraseCard \/ RemoveCollection \/ UNCHANGED cards
    BY DEF Move, UpdateAddressbookMetadata, CreateAddressbook, storeVars
  <2>. QED  BY <2>1, <2>2, <2>3, <2>4, <2>5
<1>. QED  BY <1>1, <1>2 DEF CardsFinite

-----------------------------------------------------------------------------
(* The requests *)

Works == {"token", "ctag", "cards"} \cup Hrefs
Requests ==
    [pc : {"idle", "next", "rows", "row", "insert", "describe"},
     status : {"none", "ok", "missing", "exists", "created", "patched", "error"},
     q : Queries \cup {NoRow}, id : 0 .. MaxBooks,
     todo : Seq({"token", "ctag", "cards"} \cup Hrefs),
     state : [token : State \cup {NoRow}, ctag : State \cup {NoRow}],
     out : [Hrefs -> [etag : ETags \cup {NoRow}, data : ETags \cup {NoRow}]]]

\* From place n on, a PROPFIND has properties and then its cards left, and what is
\* not left it has read.
Left(a, n) ==
    /\ \A i \in n .. Len(a.todo) :
          \/ a.todo[i] \in {"token", "ctag"}
          \/ a.todo[i] = "cards" /\ i = Len(a.todo) /\ a.q.op = "propfind"
    /\ a.q.op = "propfind" /\ a.q.depth = 1 => a.todo[Len(a.todo)] = "cards"
    /\ a.state.token # NoRow \/ \E i \in n .. Len(a.todo) : a.todo[i] = "token"
    /\ a.state.ctag # NoRow \/ \E i \in n .. Len(a.todo) : a.todo[i] = "ctag"

\* What a request in each of its steps looks like.
Reading(a) ==
    /\ a.q \in Queries /\ a.todo # <<>> /\ a.q.op \in {"propfind", "home", "query", "multiget"}
    /\ a.q.op \in {"propfind", "home"} => Left(a, 1) /\ a.pc # "row"
    /\ a.q.op = "multiget" => a.todo \in Seq(Hrefs) /\ a.pc # "rows"
    /\ a.q.op = "query" => IF a.pc = "rows" THEN TRUE ELSE a.todo \in Seq(Hrefs)
    /\ a.pc = "rows" => Head(a.todo) = "cards" /\ Len(a.todo) = 1
    /\ a.pc # "next" => a.id \in BookIds
Shaped(a) ==
    /\ a.pc \in {"next", "rows", "row"} => Reading(a)
    /\ a.pc \in {"insert", "describe"} => a.q \in Queries /\ a.q.op = "mkcol"
    /\ a.pc = "insert" => a.id = 0

LEMMA QueryFields ==
  ASSUME NEW q \in Queries
  PROVE  /\ q.op \in {"propfind", "home", "query", "multiget", "mkcol", "proppatch"}
         /\ q.op = "propfind" => q.depth \in {0, 1} /\ q.props \in {<<"token", "ctag">>, <<"ctag", "token">>}
         /\ q.op = "home" => q.props \in {<<"token", "ctag">>, <<"ctag", "token">>}
         /\ q.op = "multiget" => q.hrefs \in Lists(Hrefs)
         /\ q.op = "mkcol" => q.display \in Displays \cup {NoRow} /\ q.desc \in Descs \cup {NoRow}
         /\ q.op = "proppatch" => q.ops \in Lists(PatchOp)
  BY DEF Queries

LEMMA QuietIsRequest ==
  /\ Quiet \in Requests /\ Quiet.pc = "idle" /\ Quiet.id = 0 /\ Quiet.todo = <<>>
  /\ Quiet.state.token = NoRow /\ Quiet.state.ctag = NoRow
  /\ \A h \in Hrefs : Quiet.out[h].etag = NoRow /\ Quiet.out[h].data = NoRow
<1>1. /\ NoRow \in State \cup {NoRow} /\ NoRow \in Queries \cup {NoRow} /\ 0 \in 0 .. MaxBooks
      /\ <<>> \in Seq({"token", "ctag", "cards"} \cup Hrefs)
      /\ NoResponse \in [etag : ETags \cup {NoRow}, data : ETags \cup {NoRow}]
  BY BoundsAssumption DEF NoResponse
<1>. QED  BY <1>1 DEF Quiet, Requests, NoResponse

\* What is left when the first piece of work is done.
LEMMA DoneIs ==
  ASSUME NEW a \in Requests, a.todo # <<>>
  PROVE  /\ Done(a) \in Requests /\ Len(a.todo) \in Nat /\ Len(a.todo) > 0
         /\ Done(a).state = a.state /\ Done(a).out = a.out /\ Done(a).id = a.id
         /\ Len(a.todo) = 1 => Done(a).pc = "idle" /\ Done(a).status = "ok"
         /\ Len(a.todo) # 1 => /\ Done(a).pc = "next" /\ Done(a).q = a.q
                               /\ Done(a).todo = Tail(a.todo) /\ Len(Tail(a.todo)) = Len(a.todo) - 1
                               /\ \A i \in 1 .. Len(Tail(a.todo)) : Tail(a.todo)[i] = a.todo[i + 1]
<1>1. a.todo \in Seq(Works)
  BY DEF Requests, Works
<1>2. Len(a.todo) \in Nat /\ Len(a.todo) > 0
  BY <1>1, EmptySeq, LenProperties
<1>3. /\ Tail(a.todo) \in Seq(Works) /\ Len(Tail(a.todo)) = Len(a.todo) - 1
      /\ \A i \in 1 .. Len(Tail(a.todo)) : Tail(a.todo)[i] = a.todo[i + 1]
  BY <1>1, HeadTailProperties
<1>4. CASE Len(a.todo) = 1
  <2>1. Done(a) = [a EXCEPT !.pc = "idle", !.status = "ok", !.q = NoRow, !.todo = <<>>]
    BY <1>4 DEF Done
  <2>2. <<>> \in Seq({"token", "ctag", "cards"} \cup Hrefs)
    OBVIOUS
  <2>. QED  BY <1>2, <1>4, <2>1, <2>2 DEF Requests
<1>5. CASE Len(a.todo) # 1
  <2>1. Done(a) = [a EXCEPT !.pc = "next", !.todo = Tail(a.todo)]
    <3>1. ~(Len(a.todo) <= 1)
      <4>1. \A n \in Nat : n > 0 /\ n # 1 => ~(n <= 1)
        OBVIOUS
      <4>. QED  BY <1>2, <1>5, <4>1, Zenon
    <3>2. Done(a) = [a EXCEPT !.pc = "next", !.todo = Tail(@)]
      BY <3>1, Zenon DEF Done
    <3>. QED  BY <3>2 DEF Requests
  <2>. QED  BY <1>2, <1>3, <1>5, <2>1 DEF Requests, Works
<1>. QED  BY <1>4, <1>5

LEMMA DoneShaped ==
  ASSUME NEW a \in Requests, a.q \in Queries, a.todo # <<>>,
         a.q.op \in {"propfind", "home", "query", "multiget"},
         a.q.op \in {"propfind", "home"} => Left(a, 2),
         a.q.op \in {"query", "multiget"} => Len(a.todo) = 1 \/ a.todo \in Seq(Hrefs)
  PROVE  Done(a) \in Requests /\ Shaped(Done(a))
<1> DEFINE b == Done(a)
<1>1. b \in Requests /\ Len(a.todo) \in Nat /\ Len(a.todo) > 0 /\ b.state = a.state
  BY DoneIs
<1>2. CASE Len(a.todo) = 1
  BY <1>1, <1>2, DoneIs DEF Shaped
<1>3. CASE Len(a.todo) # 1
  <2>1. /\ b.pc = "next" /\ b.q = a.q /\ b.todo = Tail(a.todo) /\ Len(b.todo) = Len(a.todo) - 1
        /\ \A i \in 1 .. Len(b.todo) : b.todo[i] = a.todo[i + 1]
    <3>1. /\ Done(a).pc = "next" /\ Done(a).q = a.q
          /\ Done(a).todo = Tail(a.todo) /\ Len(Tail(a.todo)) = Len(a.todo) - 1
          /\ \A i \in 1 .. Len(Tail(a.todo)) : Tail(a.todo)[i] = a.todo[i + 1]
      BY <1>3, DoneIs
    <3>. QED  BY <3>1
  <2>. HIDE DEF b
  <2>2. b.todo # <<>>
    <3>1. Len(<<>>) = 0
      OBVIOUS
    <3>2. Len(b.todo) # 0
      BY <1>1, <1>3, <2>1
    <3>. QED  BY <3>1, <3>2
  <2>3. a.q.op \in {"query", "multiget"} => b.todo \in Seq(Hrefs)
    BY <1>3, <2>1, HeadTailProperties
  <2>4. ASSUME Left(a, 2) PROVE Left(b, 1)
    <3>1. \A i \in 1 .. Len(b.todo) : i + 1 \in 2 .. Len(a.todo) /\ b.todo[i] = a.todo[i + 1]
      BY <1>1, <2>1
    <3>2. \A i \in 2 .. Len(a.todo) : i - 1 \in 1 .. Len(b.todo) /\ b.todo[i - 1] = a.todo[i]
      BY <1>1, <2>1
    <3>3. b.todo[Len(b.todo)] = a.todo[Len(a.todo)]
      <4>1. \A n \in Nat : n > 0 /\ n # 1 => n - 1 \in 1 .. n - 1 /\ (n - 1) + 1 = n
        OBVIOUS
      <4>2. Len(b.todo) \in 1 .. Len(b.todo) /\ Len(b.todo) + 1 = Len(a.todo)
        BY <1>1, <1>3, <2>1, <4>1, Zenon
      <4>. QED  BY <3>1, <4>2
    <3>4. \A i \in 1 .. Len(b.todo) : i + 1 = Len(a.todo) => i = Len(b.todo)
      BY <1>1, <2>1
    <3>5. \A i \in 1 .. Len(b.todo) :
            \/ b.todo[i] \in {"token", "ctag"}
            \/ b.todo[i] = "cards" /\ i = Len(b.todo) /\ b.q.op = "propfind"
      BY <2>1, <2>4, <3>1, <3>4 DEF Left
    <3>6. /\ b.state.token # NoRow \/ \E i \in 1 .. Len(b.todo) : b.todo[i] = "token"
          /\ b.state.ctag # NoRow \/ \E i \in 1 .. Len(b.todo) : b.todo[i] = "ctag"
      BY <1>1, <2>4, <3>2 DEF Left
    <3>. QED  BY <2>1, <2>4, <3>3, <3>5, <3>6 DEF Left
  <2>. QED  BY <1>1, <2>1, <2>2, <2>3, <2>4 DEF Shaped, Reading, b
<1>. QED  BY <1>2, <1>3

\* What a client was told of the collection's state is not ahead of it, and its ctag
\* is not ahead of its token.
Behind(s) == s # NoRow => s.id <= seq.books /\ (s.id \in Live => s.rev <= books[s.id].revision)
NotAhead(s) ==
    s.token # NoRow /\ s.ctag # NoRow =>
        \/ s.ctag.id < s.token.id
        \/ s.ctag.id = s.token.id /\ s.ctag.rev <= s.token.rev
\* A PROPFIND lists the collection that its state is of, or a later one.
Known(a) ==
    /\ a.id <= seq.books /\ Behind(a.state.token) /\ Behind(a.state.ctag) /\ NotAhead(a.state)
    /\ a.pc = "rows" /\ a.q.op = "propfind" =>
         /\ a.state.token # NoRow => a.state.token.id <= a.id
         /\ a.state.ctag # NoRow => a.state.ctag.id <= a.id
-----------------------------------------------------------------------------
(* What a step does to its own request *)

\* An answer without content.
Bare(a, status) ==
    /\ a.pc = "idle" /\ a.status = status
    /\ a.state.token = NoRow /\ a.state.ctag = NoRow

LEMMA Replied ==
  ASSUME TypeOK, NEW c \in Readers,
         NEW status \in {"ok", "missing", "exists", "created", "patched", "error"}, Reply(c, status)
  PROVE  \E a \in Requests :
            ask' = [ask EXCEPT ![c] = a] /\ Shaped(a) /\ Known(a) /\ Bare(a, status)
<1> DEFINE a == [Quiet EXCEPT !.status = status]
<1>1. a \in Requests
  BY QuietIsRequest DEF Requests
<1>2. /\ a.pc = "idle" /\ a.id = 0 /\ a.status = status
      /\ a.state.token = NoRow /\ a.state.ctag = NoRow
  BY DEF Quiet
<1>3. ask' = [ask EXCEPT ![c] = a]
  BY DEF Reply, Set
<1>. HIDE DEF a
<1>4. 0 <= seq.books
  BY BoundsAssumption DEF TypeOK
<1>5. Shaped(a) /\ Known(a)
  BY <1>2, <1>4 DEF Shaped, Known, Behind, NotAhead
<1>. QED  BY <1>1, <1>2, <1>3, <1>5 DEF Bare

\* A step that only reads leaves its request in order.
Served(c) == \E a \in Requests : ask' = [ask EXCEPT ![c] = a] /\ Shaped(a) /\ Known(a)

LEMMA FoundId ==
  ASSUME TypeOK, OneCollection, NEW id \in Found
  PROVE  id \in Live /\ id \in BookIds /\ id \in 0 .. MaxBooks /\ id = seq.books /\ books[id].revision \in 0 .. MaxRev
<1>1. id \in Live
  BY FoundIsLive
<1>2. id \in BookIds /\ books[id] \in BookRow
  BY <1>1 DEF Live, TypeOK
<1>. QED  BY <1>1, <1>2, BoundsAssumption DEF OneCollection, BookRow, BookIds

LEMMA AppendToTwo == ASSUME NEW x, NEW y, NEW z PROVE Append(<<x, y>>, z) = <<x, y, z>>
<1> DEFINE S == {x, y, z}  s == <<x, y>>  t == <<x, y, z>>
<1>1. s \in Seq(S) /\ Len(s) = 2 /\ s[1] = x /\ s[2] = y /\ z \in S
  OBVIOUS
<1>2. t \in Seq(S) /\ Len(t) = 3 /\ t[1] = x /\ t[2] = y /\ t[3] = z
  OBVIOUS
<1>. HIDE DEF S, s, t
<1>3. /\ Append(s, z) \in Seq(S) /\ Len(Append(s, z)) = 3
      /\ \A i \in 1 .. 2 : Append(s, z)[i] = s[i]
      /\ Append(s, z)[3] = z
  <2>1. /\ Append(s, z) \in Seq(S)
        /\ Append(s, z) # <<>>
        /\ Len(Append(s, z)) = Len(s) + 1
        /\ \A i \in 1 .. Len(s) : Append(s, z)[i] = s[i]
        /\ Append(s, z)[Len(s) + 1] = z
    BY <1>1, AppendProperties, Zenon
  <2>2. 2 + 1 = 3
    OBVIOUS
  <2>. QED  BY <1>1, <2>1, <2>2
<1>4. \A i \in 1 .. 3 : i = 1 \/ i = 2 \/ i = 3
  OBVIOUS
<1>5. Append(s, z)[1] = x /\ Append(s, z)[2] = y
  BY <1>1, <1>3
<1>6. \A i \in 1 .. 3 : Append(s, z)[i] = t[i]
  BY <1>2, <1>3, <1>4, <1>5
<1>7. Append(s, z) = t
  BY <1>2, <1>3, <1>6, SeqEqual
<1>. QED  BY <1>7 DEF s, t

LEMMA WorkIs ==
  ASSUME NEW q \in Queries
  PROVE  /\ q.op = "propfind" /\ q.depth = 1 =>
               Work(q) \in {<<"token", "ctag", "cards">>, <<"ctag", "token", "cards">>}
         /\ q.op = "propfind" /\ q.depth # 1 => Work(q) \in {<<"token", "ctag">>, <<"ctag", "token">>}
<1>1. q.op = "propfind" => q.props \in {<<"token", "ctag">>, <<"ctag", "token">>}
  BY QueryFields
<1>2. /\ Append(<<"token", "ctag">>, "cards") = <<"token", "ctag", "cards">>
      /\ Append(<<"ctag", "token">>, "cards") = <<"ctag", "token", "cards">>
  BY AppendToTwo
<1>3. q.depth = 1 => Work(q) = Append(q.props, "cards")
  BY DEF Work
<1>4. q.depth # 1 => Work(q) = q.props
  BY DEF Work
<1>5. ASSUME q.op = "propfind", q.depth = 1
      PROVE  Work(q) \in {<<"token", "ctag", "cards">>, <<"ctag", "token", "cards">>}
  <2>1. CASE q.props = <<"token", "ctag">>
    BY <1>2, <1>3, <1>5, <2>1, Zenon
  <2>2. CASE q.props = <<"ctag", "token">>
    BY <1>2, <1>3, <1>5, <2>2, Zenon
  <2>. QED  BY <1>1, <1>5, <2>1, <2>2
<1>. QED  BY <1>1, <1>4, <1>5

LEMMA Tuples ==
  \A s \in {<<"token", "ctag", "cards">>, <<"ctag", "token", "cards">>, <<"token", "ctag">>, <<"ctag", "token">>} :
     s \in Seq(Works) /\ s # <<>>
<1>1. "token" \in Works /\ "ctag" \in Works /\ "cards" \in Works
  BY DEF Works
<1>2. \A x, y \in Works : <<x, y>> \in Seq(Works) /\ <<x, y>> # <<>>
  OBVIOUS
<1>3. \A x, y, z \in Works : <<x, y, z>> \in Seq(Works) /\ <<x, y, z>> # <<>>
  OBVIOUS
<1>. QED  BY <1>1, <1>2, <1>3

LEMMA WorkLeft ==
  ASSUME NEW q \in Queries, NEW a \in Requests, a.q = q
  PROVE  /\ q.op = "propfind" /\ a.todo = Work(q) => a.todo # <<>> /\ Left(a, 1)
         /\ q.op = "home" /\ a.todo = q.props => a.todo # <<>> /\ Left(a, 1)
<1>1. /\ q.op \in {"propfind", "home"} => q.props \in {<<"token", "ctag">>, <<"ctag", "token">>}
      /\ q.op = "propfind" => q.depth \in {0, 1}
  BY QueryFields
<1>3. /\ q.op = "propfind" /\ a.todo = Work(q) /\ q.depth = 1 =>
            a.todo \in {<<"token", "ctag", "cards">>, <<"ctag", "token", "cards">>}
      /\ q.op = "propfind" /\ a.todo = Work(q) /\ q.depth # 1 =>
            a.todo \in {<<"token", "ctag">>, <<"ctag", "token">>}
  BY <1>1, WorkIs
<1>4. ASSUME q.op \in {"propfind", "home"}, q.op = "propfind" => q.depth # 1,
             a.todo \in {<<"token", "ctag">>, <<"ctag", "token">>}
      PROVE  a.todo # <<>> /\ Left(a, 1)
  <2>1. /\ Len(a.todo) = 2 /\ a.todo[1] \in {"token", "ctag"} /\ a.todo[2] \in {"token", "ctag"}
        /\ a.todo[1] = "token" \/ a.todo[2] = "token"
        /\ a.todo[1] = "ctag" \/ a.todo[2] = "ctag"
    BY <1>4
  <2>2. a.todo # <<>>
    BY <1>4
  <2>3. \A i \in 1 .. 2 : i = 1 \/ i = 2
    OBVIOUS
  <2>. QED  BY <1>4, <2>1, <2>2, <2>3 DEF Left
<1>5. ASSUME q.op = "propfind", a.todo \in {<<"token", "ctag", "cards">>, <<"ctag", "token", "cards">>}
      PROVE  a.todo # <<>> /\ Left(a, 1)
  <2>1. /\ Len(a.todo) = 3 /\ a.todo[1] \in {"token", "ctag"} /\ a.todo[2] \in {"token", "ctag"}
        /\ a.todo[3] = "cards"
        /\ a.todo[1] = "token" \/ a.todo[2] = "token"
        /\ a.todo[1] = "ctag" \/ a.todo[2] = "ctag"
    BY <1>5
  <2>2. a.todo # <<>>
    BY <1>5
  <2>3. \A i \in 1 .. 3 : i = 1 \/ i = 2 \/ i = 3
    OBVIOUS
  <2>. QED  BY <1>5, <2>1, <2>2, <2>3 DEF Left
<1>. QED  BY <1>1, <1>3, <1>4, <1>5

LEMMA BeginServed ==
  ASSUME TypeOK, OneCollection, NEW c \in Readers, NEW q \in Queries, Begin(c, q)
  PROVE  Served(c)
<1>1. CASE Found = {}
  <2>1. \E status \in {"ok", "missing"} : Reply(c, status)
    BY <1>1 DEF Begin
  <2>. QED  BY <2>1, Replied DEF Served
<1>2. CASE Found # {}
  <2> DEFINE a == [Quiet EXCEPT !.q = q]
  <2>1. /\ a \in Requests /\ a.q = q /\ a.id = 0 /\ a.state.token = NoRow /\ a.state.ctag = NoRow
    BY QuietIsRequest DEF Requests, Quiet
  <2>2. 0 <= seq.books /\ seq.books \in Nat
    BY BoundsAssumption DEF TypeOK
  <2>. HIDE DEF a
  <2>3. ASSUME NEW todo \in Seq(Works), Set(c, [a EXCEPT !.pc = "next", !.todo = todo]), todo # <<>>,
               \/ q.op = "propfind" /\ todo = Work(q)
               \/ q.op = "home" /\ todo = q.props
               \/ q.op = "multiget" /\ todo \in Seq(Hrefs)
        PROVE  Served(c)
    <3> DEFINE b == [a EXCEPT !.pc = "next", !.todo = todo]
    <3>1. /\ b \in Requests /\ b.pc = "next" /\ b.todo = todo /\ b.q = q /\ b.id = 0
          /\ b.state.token = NoRow /\ b.state.ctag = NoRow
      BY <2>1, <2>3 DEF Requests, Works
    <3>2. ask' = [ask EXCEPT ![c] = b]
      BY <2>3 DEF Set
    <3>. HIDE DEF b
    <3>3. q.op \in {"propfind", "home"} => Left(b, 1)
      BY <2>3, <3>1, WorkLeft
    <3>4. Shaped(b)
      BY <2>3, <3>1, <3>3 DEF Shaped, Reading
    <3>5. Known(b)
      BY <2>2, <3>1 DEF Known, Behind, NotAhead
    <3>. QED  BY <3>1, <3>2, <3>4, <3>5 DEF Served
  <2>4. CASE q.op = "propfind" /\ Set(c, [a EXCEPT !.pc = "next", !.todo = Work(q)])
    <3>1. Work(q) \in Seq(Works) /\ Work(q) # <<>>
      BY <2>4, WorkIs, Tuples
    <3>. QED  BY <2>3, <2>4, <3>1
  <2>5. CASE q.op = "home" /\ Set(c, [a EXCEPT !.pc = "next", !.todo = q.props])
    <3>1. q.props \in Seq(Works) /\ q.props # <<>>
      BY <2>5, QueryFields, Tuples
    <3>. QED  BY <2>3, <2>5, <3>1
  <2>6. CASE q.op = "multiget" /\ Set(c, [a EXCEPT !.pc = "next", !.todo = Distinct(q.hrefs)])
    <3>1. Distinct(q.hrefs) \in Seq(Hrefs) /\ Distinct(q.hrefs) # <<>>
      BY <2>6, QueryFields, DistinctHrefs
    <3>2. Distinct(q.hrefs) \in Seq(Works)
      BY <3>1 DEF Works
    <3>. QED  BY <2>3, <2>6, <3>1, <3>2
  <2>7. CASE q.op = "query" /\ \E id \in Found : Set(c, [a EXCEPT !.pc = "rows", !.id = id, !.todo = <<"cards">>])
    <3>1. PICK id \in Found : Set(c, [a EXCEPT !.pc = "rows", !.id = id, !.todo = <<"cards">>])
      BY <2>7
    <3> DEFINE b == [a EXCEPT !.pc = "rows", !.id = id, !.todo = <<"cards">>]
    <3>2. id \in BookIds /\ id \in 0 .. MaxBooks /\ id = seq.books
      BY FoundId
    <3>3. <<"cards">> \in Seq({"token", "ctag", "cards"} \cup Hrefs)
      OBVIOUS
    <3>4. /\ b \in Requests /\ b.pc = "rows" /\ b.todo = <<"cards">> /\ b.q = q /\ b.id = id
          /\ b.state.token = NoRow /\ b.state.ctag = NoRow
      BY <2>1, <3>2, <3>3 DEF Requests
    <3>5. ask' = [ask EXCEPT ![c] = b]
      BY <3>1 DEF Set
    <3>. HIDE DEF b
    <3>6. b.todo # <<>> /\ Head(b.todo) = "cards" /\ Len(b.todo) = 1
      BY <3>4
    <3>7. Shaped(b)
      BY <2>7, <3>2, <3>4, <3>6 DEF Shaped, Reading
    <3>8. Known(b)
      BY <2>2, <3>2, <3>4 DEF Known, Behind, NotAhead
    <3>. QED  BY <3>4, <3>5, <3>7, <3>8 DEF Served
  <2>. QED  BY <1>2, <2>4, <2>5, <2>6, <2>7 DEF Begin, a
<1>. QED  BY <1>1, <1>2

\* The request c is at is in order.
InOrder(c) == ask[c] \in Requests /\ Shaped(ask[c]) /\ Known(ask[c])

LEMMA TodoIs ==
  ASSUME NEW a \in Requests, a.todo # <<>>
  PROVE  Len(a.todo) \in Nat /\ Len(a.todo) > 0 /\ Head(a.todo) = a.todo[1] /\ Head(a.todo) \in Works
<1>1. a.todo \in Seq(Works)
  BY DEF Requests, Works
<1>2. Len(a.todo) \in Nat /\ Len(a.todo) > 0
  BY <1>1, EmptySeq, LenProperties
<1>3. Head(a.todo) = a.todo[1]
  BY <1>1 DEF Head
<1>4. 1 \in 1 .. Len(a.todo)
  BY <1>2
<1>5. a.todo[1] \in Works
  BY <1>1, <1>4, ElementOfSeq
<1>. QED  BY <1>2, <1>3, <1>5

\* The first property of a PROPFIND has been read.
LEMMA OneLess ==
  ASSUME NEW a \in Requests, NEW b, a.todo # <<>>, Left(a, 1), b.todo = a.todo, b.q = a.q,
         Head(a.todo) = "token" => b.state.token # NoRow /\ b.state.ctag = a.state.ctag,
         Head(a.todo) = "ctag" => b.state.ctag # NoRow /\ b.state.token = a.state.token,
         Head(a.todo) \notin {"token", "ctag"} => b.state = a.state
  PROVE  Left(b, 2)
<1>1. Len(a.todo) \in Nat /\ Len(a.todo) > 0 /\ Head(a.todo) = a.todo[1]
  BY TodoIs
<1>2. \A i \in 1 .. Len(a.todo) : i = 1 \/ i \in 2 .. Len(a.todo)
  BY <1>1
<1>3. \A i \in 2 .. Len(a.todo) : i \in 1 .. Len(a.todo)
  BY <1>1
<1>4. \A i \in 2 .. Len(b.todo) :
         \/ b.todo[i] \in {"token", "ctag"}
         \/ b.todo[i] = "cards" /\ i = Len(b.todo) /\ b.q.op = "propfind"
  BY <1>3 DEF Left
<1>5. b.state.token # NoRow \/ \E i \in 2 .. Len(b.todo) : b.todo[i] = "token"
  BY <1>1, <1>2 DEF Left
<1>6. b.state.ctag # NoRow \/ \E i \in 2 .. Len(b.todo) : b.todo[i] = "ctag"
  BY <1>1, <1>2 DEF Left
<1>. QED  BY <1>4, <1>5, <1>6 DEF Left

LEMMA ReadStateServed ==
  ASSUME TypeOK, OneCollection, NEW c \in Readers, InOrder(c), ReadState(c)
  PROVE  Served(c)
<1> DEFINE a == ask[c]
<1>1. /\ a \in Requests /\ Known(a) /\ Reading(a) /\ a.pc = "next" /\ Head(a.todo) \in {"token", "ctag"}
      /\ a.todo # <<>>
  BY DEF InOrder, Shaped, Reading, ReadState
<1>2. a.q.op \in {"propfind", "home"} /\ Left(a, 1) /\ a.q \in Queries
  <2>1. a.q.op \in {"query", "multiget"} => Head(a.todo) \in Hrefs
    BY <1>1, HeadTailProperties DEF Reading
  <2>2. Head(a.todo) \notin Hrefs
    BY <1>1, ReportAssumption
  <2>. QED  BY <1>1, <2>1, <2>2 DEF Reading
<1>3. a.id \in 0 .. MaxBooks /\ a.state.token \in State \cup {NoRow} /\ a.state.ctag \in State \cup {NoRow}
  BY <1>1 DEF Requests
<1>4. seq.books \in Nat
  BY BoundsAssumption DEF TypeOK
<1>. HIDE DEF a
<1>5. ASSUME NEW b \in Requests, b.todo = a.todo, b.q = a.q, b.id = a.id, b.pc = "next",
             Behind(b.state.token), Behind(b.state.ctag), NotAhead(b.state), Left(b, 2),
             ask' = [ask EXCEPT ![c] = Done(b)]
      PROVE  Served(c)
  <2>1. Done(b) \in Requests /\ Shaped(Done(b))
    BY <1>1, <1>2, <1>5, DoneShaped
  <2>2. Done(b).state = b.state /\ Done(b).id = b.id /\ Done(b).pc \in {"idle", "next"}
    BY <1>1, <1>5, DoneIs
  <2>3. Known(Done(b))
    BY <1>1, <1>5, <2>2 DEF Known
  <2>. QED  BY <1>5, <2>1, <2>3 DEF Served
<1>6. CASE Reuses(a)
  <2> DEFINE b == [a EXCEPT !.state.ctag = a.state.token]
  <2>1. /\ b \in Requests /\ b.todo = a.todo /\ b.q = a.q /\ b.id = a.id /\ b.pc = "next"
        /\ b.state.token = a.state.token /\ b.state.ctag = a.state.token
    BY <1>1, <1>3 DEF Requests
  <2>2. ask' = [ask EXCEPT ![c] = Done(b)]
    BY <1>6 DEF ReadState, Set, a
  <2>. HIDE DEF b
  <2>3. a.state.token # NoRow /\ Head(a.todo) = "ctag"
    BY <1>6 DEF Reuses
  <2>4. Left(b, 2)
    BY <1>1, <1>2, <2>1, <2>3, OneLess
  <2>5. Behind(b.state.token) /\ Behind(b.state.ctag)
    BY <1>1, <2>1 DEF Known
  <2>6. NotAhead(b.state)
    BY <1>3, <2>1, BoundsAssumption DEF NotAhead, State, BookIds
  <2>. QED  BY <1>5, <2>1, <2>2, <2>4, <2>5, <2>6
<1>7. CASE ~Reuses(a) /\ Found = {}
  <2>1. Reply(c, "error")
    BY <1>7 DEF ReadState, a
  <2>. QED  BY <2>1, Replied DEF Served
<1>8. CASE ~Reuses(a) /\ Found # {}
  <2>1. PICK id \in Found :
          Set(c, Done([a EXCEPT !.state[Head(a.todo)] = [id |-> id, rev |-> books[id].revision]]))
    BY <1>8 DEF ReadState, a
  <2>2. id \in Live /\ id \in BookIds /\ id = seq.books /\ books[id].revision \in 0 .. MaxRev
    BY FoundId
  <2> DEFINE s == [id |-> id, rev |-> books[id].revision]
             b == [a EXCEPT !.state[Head(a.todo)] = s]
  <2>3. s \in State /\ s.id = id /\ s.rev = books[id].revision
    BY <2>2 DEF State
  <2>4. s # NoRow
    BY <2>3, ReportAssumption
  <2>5. Behind(s)
    BY <1>4, <2>2, <2>3, BoundsAssumption DEF Behind
  <2>6. ask' = [ask EXCEPT ![c] = Done(b)]
    BY <2>1 DEF Set
  <2>. HIDE DEF s
  <2>7. CASE Head(a.todo) = "token"
    <3>1. /\ b \in Requests /\ b.todo = a.todo /\ b.q = a.q /\ b.id = a.id /\ b.pc = "next"
          /\ b.state.token = s /\ b.state.ctag = a.state.ctag
      BY <1>1, <1>3, <2>3, <2>7 DEF Requests
    <3>. HIDE DEF b
    <3>2. Left(b, 2)
      BY <1>1, <1>2, <2>4, <2>7, <3>1, OneLess
    <3>3. Behind(b.state.token) /\ Behind(b.state.ctag)
      BY <1>1, <2>5, <3>1 DEF Known
    <3>4. NotAhead(b.state)
      <4>. SUFFICES ASSUME a.state.ctag # NoRow
                    PROVE  \/ a.state.ctag.id < s.id
                           \/ a.state.ctag.id = s.id /\ a.state.ctag.rev <= s.rev
        BY <3>1 DEF NotAhead
      <4>1. a.state.ctag.id \in Nat /\ a.state.ctag.id <= seq.books
        BY <1>1, <1>3, BoundsAssumption DEF Known, Behind, State, BookIds
      <4>2. a.state.ctag.id = id => a.state.ctag.rev <= books[id].revision
        BY <1>1, <2>2 DEF Known, Behind
      <4>. QED  BY <1>4, <2>2, <2>3, <4>1, <4>2
    <3>. QED  BY <1>5, <2>6, <3>1, <3>2, <3>3, <3>4
  <2>8. CASE Head(a.todo) = "ctag"
    <3>1. /\ b \in Requests /\ b.todo = a.todo /\ b.q = a.q /\ b.id = a.id /\ b.pc = "next"
          /\ b.state.ctag = s /\ b.state.token = a.state.token
      BY <1>1, <1>3, <2>3, <2>8 DEF Requests
    <3>. HIDE DEF b
    <3>2. Left(b, 2)
      BY <1>1, <1>2, <2>4, <2>8, <3>1, OneLess
    <3>3. Behind(b.state.token) /\ Behind(b.state.ctag)
      BY <1>1, <2>5, <3>1 DEF Known
    <3>4. NotAhead(b.state)
      BY <1>8, <2>8, <3>1 DEF NotAhead, Reuses
    <3>. QED  BY <1>5, <2>6, <3>1, <3>2, <3>3, <3>4
  <2>. QED  BY <1>1, <2>7, <2>8
<1>. QED  BY <1>6, <1>7, <1>8

LEMMA FindAnewServed ==
  ASSUME TypeOK, OneCollection, NEW c \in Readers, InOrder(c), FindAnew(c)
  PROVE  Served(c)
<1> DEFINE a == ask[c]
<1>1. /\ a \in Requests /\ Known(a) /\ Reading(a) /\ a.pc = "next" /\ a.todo # <<>> /\ a.q \in Queries
      /\ Head(a.todo) \notin {"token", "ctag"}
  BY DEF InOrder, Shaped, Reading, FindAnew
<1>2. seq.books \in Nat
  BY BoundsAssumption DEF TypeOK
<1>3. /\ Len(a.todo) \in Nat /\ Len(a.todo) > 0 /\ Head(a.todo) = a.todo[1]
  BY <1>1, TodoIs
<1>4. CASE Found # {}
  <2> DEFINE pc == IF Head(a.todo) = "cards" THEN "rows" ELSE "row"
  <2>1. PICK id \in Found : Set(c, [a EXCEPT !.id = id, !.pc = pc])
    BY <1>4 DEF FindAnew, a
  <2>2. id \in BookIds /\ id \in 0 .. MaxBooks /\ id = seq.books
    BY FoundId
  <2> DEFINE b == [a EXCEPT !.id = id, !.pc = pc]
  <2>3. /\ b \in Requests /\ b.todo = a.todo /\ b.q = a.q /\ b.id = id /\ b.pc = pc /\ b.state = a.state
    BY <1>1, <2>2 DEF Requests
  <2>4. ask' = [ask EXCEPT ![c] = b]
    BY <2>1 DEF Set
  <2>. HIDE DEF a, b
  <2>5. a.q.op \in {"propfind", "home"} => Left(a, 1)
    BY <1>1 DEF Reading
  <2>6. CASE Head(a.todo) = "cards"
    <3>1. Head(a.todo) \notin Hrefs
      BY <2>6, ReportAssumption
    <3>2. a.todo \notin Seq(Hrefs)
      BY <1>1, <3>1, HeadTailProperties
    <3>3. a.q.op \in {"propfind", "home"} /\ Left(a, 1)
      BY <1>1, <2>5, <3>2 DEF Reading
    <3>4. a.q.op = "propfind" /\ Len(a.todo) = 1
      <4>1. 1 \in 1 .. Len(a.todo)
        BY <1>3
      <4>2. \/ a.todo[1] \in {"token", "ctag"}
            \/ a.todo[1] = "cards" /\ 1 = Len(a.todo) /\ a.q.op = "propfind"
        BY <3>3, <4>1 DEF Left
      <4>. QED  BY <1>1, <1>3, <4>2
    <3>5. Left(b, 1)
      BY <2>3, <3>3 DEF Left
    <3>6. Shaped(b)
      BY <1>1, <2>2, <2>3, <2>6, <3>4, <3>5 DEF Shaped, Reading
    <3>7. Known(b)
      BY <1>1, <1>2, <2>2, <2>3, <2>6 DEF Known, Behind
    <3>. QED  BY <2>3, <2>4, <3>6, <3>7 DEF Served
  <2>7. CASE Head(a.todo) # "cards"
    <3>1. a.q.op \notin {"propfind", "home"}
      BY <1>1, <1>3, <2>5, <2>7 DEF Left
    <3>2. Shaped(b)
      BY <1>1, <2>2, <2>3, <2>7, <3>1 DEF Shaped, Reading
    <3>3. Known(b)
      BY <1>1, <1>2, <2>2, <2>3, <2>7 DEF Known
    <3>. QED  BY <2>3, <2>4, <3>2, <3>3 DEF Served
  <2>. QED  BY <2>6, <2>7
<1>5. CASE Found = {} /\ a.q.op = "multiget"
  <2>1. ask' = [ask EXCEPT ![c] = Done(a)]
    BY <1>5 DEF FindAnew, Set, a
  <2>. HIDE DEF a
  <2>2. Done(a) \in Requests /\ Shaped(Done(a))
    BY <1>1, <1>5, DoneShaped DEF Reading
  <2>3. Done(a).state = a.state /\ Done(a).id = a.id /\ Done(a).pc \in {"idle", "next"}
    BY <1>1, DoneIs
  <2>4. Known(Done(a))
    BY <1>1, <2>3 DEF Known
  <2>. QED  BY <2>1, <2>2, <2>4 DEF Served
<1>6. CASE Found = {} /\ a.q.op # "multiget"
  <2>1. Reply(c, "missing")
    BY <1>6 DEF FindAnew, a
  <2>. QED  BY <2>1, Replied DEF Served
<1>. QED  BY <1>4, <1>5, <1>6

\* The rows of a listing.
RowsOf(id) ==
    [h \in Hrefs |-> IF cards[id][h] # NoRow THEN [NoResponse EXCEPT !.etag = cards[id][h].etag]
                     ELSE NoResponse]

LEMMA RowsAre ==
  ASSUME TypeOK, NEW id \in BookIds
  PROVE  /\ RowsOf(id) \in [Hrefs -> [etag : ETags \cup {NoRow}, data : ETags \cup {NoRow}]]
         /\ \A h \in Hrefs : RowsOf(id)[h].etag = EtagOf(cards[id][h]) /\ RowsOf(id)[h].data = NoRow
<1>1. ASSUME NEW h \in Hrefs
      PROVE  /\ RowsOf(id)[h] \in [etag : ETags \cup {NoRow}, data : ETags \cup {NoRow}]
             /\ RowsOf(id)[h].etag = EtagOf(cards[id][h]) /\ RowsOf(id)[h].data = NoRow
  <2>1. cards[id][h] \in Card \cup {NoRow}
    BY DEF TypeOK
  <2>. QED  BY <2>1 DEF RowsOf, NoResponse, EtagOf, Card
<1>. QED  BY <1>1 DEF RowsOf

\* A query reads the cards that were listed, each of them.
LEMMA OrderIs ==
  ASSUME NEW S \in SUBSET Hrefs, IsFiniteSet(S), S # {}, NEW order \in SetToSeqs(S)
  PROVE  /\ order \in Seq(Hrefs) /\ order # <<>>
         /\ \A h \in S : \E i \in 1 .. Len(order) : order[i] = h
<1> DEFINE n == Cardinality(S)
<1>1. n \in Nat /\ n # 0 /\ IsFiniteSet(1 .. n) /\ Cardinality(1 .. n) = n
  <2>1. n \in Nat /\ n # 0
    BY FS_CardinalityType, FS_EmptySet
  <2>. QED  BY <2>1, FS_Interval
<1>2. order \in Injection(1 .. n, S)
  BY DEF SetToSeqs, Injection, IsInjective
<1>. HIDE DEF n
<1>3. order \in Surjection(1 .. n, S)
  <2>1. n = Cardinality(S)
    BY DEF n
  <2>. QED  BY <1>1, <1>2, <2>1, FS_Injection
<1>4. order \in [1 .. n -> S]
  BY <1>2 DEF Injection
<1>5. order \in Seq(S)
  <2>1. order \in UNION {[1 .. k -> S] : k \in Nat}
    BY <1>1, <1>4
  <2>. QED  BY <2>1, SeqDef, Zenon
<1>6. Len(order) \in Nat /\ DOMAIN order = 1 .. Len(order) /\ DOMAIN order = 1 .. n
  BY <1>4, <1>5, LenProperties
<1>7. Len(order) = n
  BY <1>1, <1>6, SameInterval, Zenon
<1>8. order # <<>>
  <2>1. Len(<<>>) = 0
    OBVIOUS
  <2>. QED  BY <1>1, <1>7, <2>1
<1>9. order \in Seq(Hrefs)
  BY <1>5
<1>. QED  BY <1>3, <1>7, <1>8, <1>9 DEF Surjection

LEMMA ListingOp ==
  ASSUME NEW a \in Requests, Reading(a), a.pc = "rows"
  PROVE  a.q.op \in {"propfind", "query"}
<1>1. /\ a.todo # <<>> /\ Len(a.todo) = 1 /\ Head(a.todo) = "cards"
      /\ a.q.op \in {"propfind", "home"} => Left(a, 1)
      /\ a.q.op \in {"propfind", "home", "query"}
  BY DEF Reading
<1>2. a.todo[1] = "cards" /\ 1 \in 1 .. Len(a.todo)
  BY <1>1, TodoIs
<1>3. Left(a, 1) => a.q.op = "propfind"
  BY <1>2 DEF Left
<1>. QED  BY <1>1, <1>3

LEMMA ListRowsServed ==
  ASSUME TypeOK, CardsFinite, NEW c \in Readers, InOrder(c), ListRows(c)
  PROVE  Served(c)
<1> DEFINE a == ask[c]
           there == {h \in Hrefs : cards[a.id][h] # NoRow}
<1>1. /\ a \in Requests /\ Known(a) /\ Reading(a) /\ a.pc = "rows" /\ a.todo # <<>> /\ a.q \in Queries
      /\ Len(a.todo) = 1 /\ Head(a.todo) = "cards" /\ a.id \in BookIds
      /\ a.q.op \in {"propfind", "query"}
  BY ListingOp DEF InOrder, Shaped, Reading, ListRows
<1>2. RowsOf(a.id) \in [Hrefs -> [etag : ETags \cup {NoRow}, data : ETags \cup {NoRow}]]
  BY <1>1, RowsAre
<1>3. CASE a.q.op = "query" /\ there # {}
  <2>1. PICK order \in SetToSeqs(there) :
          Set(c, [a EXCEPT !.out = RowsOf(a.id), !.pc = "next", !.todo = order])
    BY <1>3 DEF ListRows, RowsOf
  <2>2. IsFiniteSet(there)
    BY <1>1 DEF CardsFinite
  <2>3. order \in Seq(Hrefs) /\ order # <<>>
    BY <1>3, <2>2, OrderIs
  <2>4. order \in Seq({"token", "ctag", "cards"} \cup Hrefs)
    BY <2>3
  <2> DEFINE b == [a EXCEPT !.out = RowsOf(a.id), !.pc = "next", !.todo = order]
  <2>5. /\ b \in Requests /\ b.pc = "next" /\ b.todo = order /\ b.q = a.q /\ b.id = a.id /\ b.state = a.state
    BY <1>1, <1>2, <2>4 DEF Requests
  <2>6. ask' = [ask EXCEPT ![c] = b]
    BY <2>1 DEF Set
  <2>. HIDE DEF a, b
  <2>7. Shaped(b)
    BY <1>1, <1>3, <2>3, <2>5 DEF Shaped, Reading
  <2>8. Known(b)
    BY <1>1, <2>5 DEF Known
  <2>. QED  BY <2>5, <2>6, <2>7, <2>8 DEF Served
<1>4. CASE ~(a.q.op = "query" /\ there # {})
  <2> DEFINE b == [a EXCEPT !.out = RowsOf(a.id)]
  <2>1. ask' = [ask EXCEPT ![c] = Done(b)]
    BY <1>4 DEF ListRows, RowsOf, Set
  <2>2. b \in Requests /\ b.todo = a.todo /\ b.q = a.q /\ b.id = a.id /\ b.state = a.state
    BY <1>1, <1>2 DEF Requests
  <2>. HIDE DEF a, b
  <2>3. /\ Done(b) \in Requests /\ Done(b).state = a.state /\ Done(b).id = a.id /\ Done(b).pc = "idle"
    BY <1>1, <2>2, DoneIs
  <2>4. Shaped(Done(b)) /\ Known(Done(b))
    BY <1>1, <2>3 DEF Shaped, Known
  <2>. QED  BY <2>1, <2>3, <2>4 DEF Served
<1>. QED  BY <1>3, <1>4

LEMMA GetRowServed ==
  ASSUME TypeOK, NEW c \in Readers, InOrder(c), GetRow(c)
  PROVE  Served(c)
<1> DEFINE a == ask[c]
           h == Head(a.todo)
           card == cards[a.id][h]
<1>1. /\ a \in Requests /\ Known(a) /\ Reading(a) /\ a.pc = "row" /\ a.todo # <<>> /\ a.q \in Queries
      /\ a.q.op \in {"query", "multiget"} /\ a.todo \in Seq(Hrefs) /\ a.id \in BookIds
  BY DEF InOrder, Shaped, Reading, GetRow
<1>2. h \in Hrefs
  BY <1>1, HeadTailProperties
<1>3. card # NoRow => card.etag \in ETags
  BY <1>1, <1>2 DEF TypeOK, Card
<1>4. ASSUME NEW b \in Requests, b.todo = a.todo, b.q = a.q, b.id = a.id, b.state = a.state,
             ask' = [ask EXCEPT ![c] = Done(b)]
      PROVE  Served(c)
  <2>1. Done(b) \in Requests /\ Shaped(Done(b))
    BY <1>1, <1>4, DoneShaped
  <2>2. Done(b).state = a.state /\ Done(b).id = a.id /\ Done(b).pc \in {"idle", "next"}
    BY <1>1, <1>4, DoneIs
  <2>. HIDE DEF a
  <2>3. Known(Done(b))
    BY <1>1, <2>2 DEF Known
  <2>. QED  BY <1>4, <2>1, <2>3 DEF Served
<1>5. CASE card = NoRow /\ a.q.op = "multiget"
  BY <1>1, <1>4, <1>5 DEF GetRow, Set, Wanted
<1>6. CASE card = NoRow /\ a.q.op # "multiget"
  <2>1. Reply(c, "missing")
    BY <1>6 DEF GetRow, Wanted
  <2>. QED  BY <2>1, Replied DEF Served
<1>7. CASE card # NoRow /\ a.q.op = "multiget"
  <2> DEFINE b == [a EXCEPT !.out[h] = [etag |-> card.etag, data |-> card.etag]]
  <2>1. b \in Requests /\ b.todo = a.todo /\ b.q = a.q /\ b.id = a.id /\ b.state = a.state
    BY <1>1, <1>2, <1>3, <1>7 DEF Requests
  <2>2. ask' = [ask EXCEPT ![c] = Done(b)]
    BY <1>7 DEF GetRow, Set, Wanted
  <2>. QED  BY <1>4, <2>1, <2>2
<1>8. CASE card # NoRow /\ a.q.op # "multiget"
  <2> DEFINE b == [a EXCEPT !.out[h].data = card.etag]
  <2>1. b \in Requests /\ b.todo = a.todo /\ b.q = a.q /\ b.id = a.id /\ b.state = a.state
    <3> DEFINE R == [etag : ETags \cup {NoRow}, data : ETags \cup {NoRow}]
               row == [a.out[h] EXCEPT !.data = card.etag]
               out == [a.out EXCEPT ![h] = row]
    <3>1. a.out \in [Hrefs -> R]
      BY <1>1 DEF Requests
    <3>2. row \in R
      BY <1>2, <1>3, <1>8, <3>1
    <3>3. out \in [Hrefs -> R] /\ b = [a EXCEPT !.out = out]
      BY <1>2, <3>1, <3>2
    <3>. HIDE DEF b, out
    <3>. QED  BY <1>1, <3>3 DEF Requests
  <2>2. ask' = [ask EXCEPT ![c] = Done(b)]
    BY <1>8 DEF GetRow, Set, Wanted
  <2>. QED  BY <1>4, <2>1, <2>2
<1>. QED  BY <1>5, <1>6, <1>7, <1>8

\* The same of a step that writes.
ServedNow(c) == \E a \in Requests : ask' = [ask EXCEPT ![c] = a] /\ Shaped(a) /\ Known(a)'

LEMMA KnownKept ==
  ASSUME TypeOK, TypeOK', Onward, NEW a \in Requests, Known(a)
  PROVE  Known(a)'
<1>1. /\ seq.books \in Nat /\ seq'.books \in Nat /\ seq.books <= seq'.books
      /\ \A id \in Live' : id <= seq.books => id \in Live /\ books[id].revision <= books'[id].revision
  BY BoundsAssumption DEF TypeOK, Onward
<1>2. /\ \A id \in Live : id \in Nat /\ books[id].revision \in Nat
      /\ \A id \in Live' : id \in Nat /\ books'[id].revision \in Nat
  BY BoundsAssumption DEF TypeOK, Live, BookRow, BookIds
<1>3. a.id \in Nat /\ a.state.token \in State \cup {NoRow} /\ a.state.ctag \in State \cup {NoRow}
  BY BoundsAssumption DEF Requests
<1>4. ASSUME NEW s \in State, Behind(s) PROVE Behind(s)'
  <2>1. s.id \in Nat /\ s.rev \in Nat
    BY BoundsAssumption DEF State, BookIds
  <2>. QED  BY <1>1, <1>2, <1>4, <2>1, ReportAssumption DEF Behind
<1>5. Behind(a.state.token)' /\ Behind(a.state.ctag)'
  <2>1. \A s : s = NoRow => Behind(s)'
    BY DEF Behind
  <2>. QED  BY <1>3, <1>4, <2>1 DEF Known
<1>6. a.id <= seq'.books
  BY <1>1, <1>3 DEF Known
<1>. QED  BY <1>5, <1>6 DEF Known

LEMMA MkcolServed ==
  ASSUME TypeOK, NEW c \in Readers, NEW q \in Queries, q.op = "mkcol", BeginMkcol(c, q)
  PROVE  Served(c)
<1>1. CASE Found # {}
  <2>1. Reply(c, "exists")
    BY <1>1 DEF BeginMkcol
  <2>. QED  BY <2>1, Replied DEF Served
<1>2. CASE Found = {}
  <2> DEFINE a == [Quiet EXCEPT !.q = q, !.pc = "insert"]
  <2>1. /\ a \in Requests /\ a.q = q /\ a.id = 0 /\ a.pc = "insert"
        /\ a.state.token = NoRow /\ a.state.ctag = NoRow
    BY QuietIsRequest DEF Requests, Quiet
  <2>2. ask' = [ask EXCEPT ![c] = a]
    BY <1>2 DEF BeginMkcol, Set
  <2>3. 0 <= seq.books
    BY BoundsAssumption DEF TypeOK
  <2>. HIDE DEF a
  <2>4. Shaped(a) /\ Known(a)
    BY <2>1, <2>3 DEF Shaped, Known, Behind, NotAhead
  <2>. QED  BY <2>1, <2>2, <2>4 DEF Served
<1>. QED  BY <1>1, <1>2

LEMMA ProppatchServed ==
  ASSUME TypeOK, OneCollection, NEW c \in Readers, NEW q \in Queries, q.op = "proppatch", Proppatch(c, q)
  PROVE  Served(c) /\ Move
<1>1. \E status \in {"patched", "missing"} : Reply(c, status)
  BY DEF Proppatch
<1>2. q.ops \in Lists(PatchOp)
  BY QueryFields
<1>3. ASSUME NEW id \in Found PROVE Patched(books[id].name, q.ops) \in Names
  <2>1. books[id] \in BookRow
    BY FoundId DEF TypeOK, Live
  <2>2. books[id].name \in Names
    BY <2>1 DEF BookRow
  <2>. QED  BY <1>2, <2>2, PatchedName
<1>4. Move
  BY <1>3 DEF Proppatch, Move
<1>. QED  BY <1>1, <1>4, Replied DEF Served

LEMMA RepliedNow ==
  ASSUME TypeOK', NEW c \in Readers,
         NEW status \in {"ok", "missing", "exists", "created", "patched", "error"}, Reply(c, status)
  PROVE  ServedNow(c)
<1> DEFINE a == [Quiet EXCEPT !.status = status]
<1>1. a \in Requests
  BY QuietIsRequest DEF Requests
<1>2. /\ a.pc = "idle" /\ a.id = 0 /\ a.status = status
      /\ a.state.token = NoRow /\ a.state.ctag = NoRow
  BY DEF Quiet
<1>3. ask' = [ask EXCEPT ![c] = a]
  BY DEF Reply, Set
<1>. HIDE DEF a
<1>4. 0 <= seq'.books
  BY BoundsAssumption DEF TypeOK
<1>5. Shaped(a) /\ Known(a)'
  BY <1>2, <1>4 DEF Shaped, Known, Behind, NotAhead
<1>. QED  BY <1>1, <1>3, <1>5 DEF ServedNow

LEMMA InsertMoves ==
  ASSUME TypeOK, OneCollection, NEW c \in Readers, InOrder(c), InsertBook(c)
  PROVE  Move
<1> DEFINE q == ask[c].q
           name == [display |-> IF q.display = NoRow THEN SlugName ELSE q.display, desc |-> Blank]
<1>1. q \in Queries /\ q.op = "mkcol"
  BY DEF InOrder, Shaped, InsertBook
<1>2. name \in Names
  BY <1>1, QueryFields, ReportAssumption
<1>. QED  BY <1>2 DEF InsertBook, Move

LEMMA InsertServed ==
  ASSUME TypeOK, TypeOK', OneCollection, NEW c \in Readers, InOrder(c), InsertBook(c), Move
  PROVE  ServedNow(c)
<1> DEFINE q == ask[c].q
           name == [display |-> IF q.display = NoRow THEN SlugName ELSE q.display, desc |-> Blank]
<1>1. ask[c] \in Requests /\ Known(ask[c]) /\ q \in Queries /\ q.op = "mkcol"
  BY DEF InOrder, Shaped, InsertBook
<1>2. CASE Found # {}
  BY <1>2, RepliedNow DEF InsertBook
<1>3. CASE Found = {}
  <2>1. PICK u \in UserIds, fk \in ForeignKeys : users[u] # NoRow /\ CreateAddressbook(u, Slug, name, fk)
    BY <1>3 DEF InsertBook
  <2>2. NewBookId \in 0 .. MaxBooks /\ seq'.books = NewBookId
    BY <2>1, BoundsAssumption DEF CreateAddressbook, TypeOK, BookIds
  <2>3. CASE q.display = NoRow /\ q.desc = NoRow
    BY <1>3, <2>3, RepliedNow DEF InsertBook
  <2>4. CASE ~(q.display = NoRow /\ q.desc = NoRow)
    <3>1. PICK a \in Requests : a = ask[c]
      BY <1>1
    <3> DEFINE b == [a EXCEPT !.pc = "describe", !.id = NewBookId]
    <3>2. ask' = [ask EXCEPT ![c] = b]
      BY <1>3, <2>4, <3>1 DEF InsertBook, Set
    <3>3. PICK new \in 0 .. MaxBooks : new = NewBookId
      BY <2>2
    <3> DEFINE d == [a EXCEPT !.pc = "describe", !.id = new]
    <3>4. d \in Requests /\ d.pc = "describe" /\ d.id = new /\ d.q = a.q /\ d.state = a.state
      BY DEF Requests
    <3>5. Known(a)'
      <4>1. Onward
        BY MoveKeeps
      <4>2. Known(a)
        BY <1>1, <3>1
      <4>. QED  BY <4>1, <4>2, KnownKept
    <3>6. new <= seq'.books
      BY <2>2, <3>3, BoundsAssumption
    <3>7. ask' = [ask EXCEPT ![c] = d]
      BY <3>2, <3>3
    <3>. HIDE DEF d
    <3>8. Known(d)'
      BY <3>4, <3>5, <3>6 DEF Known
    <3>9. Shaped(d)
      BY <1>1, <3>1, <3>4 DEF Shaped
    <3>. QED  BY <3>4, <3>7, <3>8, <3>9 DEF ServedNow
  <2>. QED  BY <2>3, <2>4
<1>. QED  BY <1>2, <1>3

LEMMA DescribeMoves ==
  ASSUME TypeOK, OneCollection, NEW c \in Readers, InOrder(c), DescribeBook(c)
  PROVE  Move
<1>1. ask[c].q \in Queries /\ ask[c].q.op = "mkcol"
  BY DEF InOrder, Shaped, DescribeBook
<1>2. ASSUME NEW id \in Found PROVE Described(books[id].name, ask[c].q) \in Names
  <2>1. books[id] \in BookRow
    BY FoundId DEF TypeOK, Live
  <2>2. books[id].name \in Names
    BY <2>1 DEF BookRow
  <2>. QED  BY <1>1, <2>2, QueryFields, DescribedName
<1>. QED  BY <1>2 DEF DescribeBook, Move

LEMMA DescribeServed == ASSUME TypeOK', NEW c \in Readers, DescribeBook(c) PROVE ServedNow(c)
<1>1. \E status \in {"created", "missing"} : Reply(c, status)
  BY DEF DescribeBook
<1>. QED  BY <1>1, RepliedNow

\* Whatever a reader does to the store is one transaction on the collection.
LEMMA ReaderMoves ==
  ASSUME TypeOK, OneCollection, NEW c \in Readers, InOrder(c), ReaderStep(c)
  PROVE  Move
<1>1. ASSUME NEW q \in Queries, Ask(c, q) PROVE Move
  BY <1>1, ProppatchServed DEF Ask, BeginMkcol, Begin, Move
<1>2. CASE ReadState(c) \/ FindAnew(c) \/ ListRows(c) \/ GetRow(c)
  BY <1>2 DEF ReadState, FindAnew, ListRows, GetRow, Move
<1>3. CASE InsertBook(c)
  BY <1>3, InsertMoves
<1>4. CASE DescribeBook(c)
  BY <1>4, DescribeMoves
<1>5. CASE Fail(c)
  BY <1>5 DEF Fail, Move
<1>. QED  BY <1>1, <1>2, <1>3, <1>4, <1>5 DEF ReaderStep

LEMMA ReaderServed ==
  ASSUME TypeOK, TypeOK', OneCollection, CardsFinite, NEW c \in Readers, InOrder(c), ReaderStep(c)
  PROVE  ServedNow(c)
<1>1. Move /\ Onward
  BY ReaderMoves, MoveKeeps
<1>2. ASSUME Served(c) PROVE ServedNow(c)
  <2>1. PICK a \in Requests : ask' = [ask EXCEPT ![c] = a] /\ Shaped(a) /\ Known(a)
    BY <1>2 DEF Served
  <2>2. Known(a)'
    BY <1>1, <2>1, KnownKept
  <2>. QED  BY <2>1, <2>2 DEF ServedNow
<1>3. ASSUME NEW q \in Queries, Ask(c, q) PROVE Served(c)
  <2>1. CASE q.op = "mkcol"
    BY <1>3, <2>1, MkcolServed DEF Ask
  <2>2. CASE q.op = "proppatch"
    BY <1>3, <2>2, ProppatchServed DEF Ask
  <2>3. CASE q.op \notin {"mkcol", "proppatch"}
    BY <1>3, <2>3, BeginServed DEF Ask
  <2>. QED  BY <2>1, <2>2, <2>3
<1>4. CASE ReadState(c)
  BY <1>2, <1>4, ReadStateServed
<1>5. CASE FindAnew(c)
  BY <1>2, <1>5, FindAnewServed
<1>6. CASE ListRows(c)
  BY <1>2, <1>6, ListRowsServed
<1>7. CASE GetRow(c)
  BY <1>2, <1>7, GetRowServed
<1>8. CASE InsertBook(c)
  BY <1>1, <1>8, InsertServed
<1>9. CASE DescribeBook(c)
  BY <1>9, DescribeServed
<1>10. CASE Fail(c)
  BY <1>10, RepliedNow DEF Fail, FailStatus
<1>. QED  BY <1>2, <1>3, <1>4, <1>5, <1>6, <1>7, <1>8, <1>9, <1>10 DEF ReaderStep

-----------------------------------------------------------------------------
(* The invariant *)

ReportsInv ==
    /\ JournalInv /\ OneCollection /\ CardsFinite
    /\ ask \in [Readers -> Requests]
    /\ been \in [Readers -> [Hrefs -> SUBSET (ETags \cup {NoRow})]]
    /\ \A c \in Readers : Shaped(ask[c]) /\ Known(ask[c])

LEMMA ReportsStart == ReportsInit => ReportsInv
<1>. SUFFICES ASSUME ReportsInit PROVE ReportsInv
  OBVIOUS
<1>1. JournalInv /\ OneCollection
  BY OneCollectionStart DEF ReportsInit
<1>2. CardsFinite
  <2>1. ASSUME NEW id \in BookIds PROVE {h \in Hrefs : cards[id][h] # NoRow} = {}
    BY DEF ReportsInit, CollectionInit
  <2>. QED  BY <2>1, FS_EmptySet DEF CardsFinite
<1>3. ask \in [Readers -> Requests] /\ been \in [Readers -> [Hrefs -> SUBSET (ETags \cup {NoRow})]]
  BY QuietIsRequest DEF ReportsInit
<1>4. ASSUME NEW c \in Readers PROVE Shaped(ask[c]) /\ Known(ask[c])
  <2>1. /\ ask[c].pc = "idle" /\ ask[c].id = 0
        /\ ask[c].state.token = NoRow /\ ask[c].state.ctag = NoRow
    BY QuietIsRequest DEF ReportsInit
  <2>2. 0 <= seq.books
    BY <1>1, BoundsAssumption DEF JournalInv, TypeOK
  <2>. QED  BY <2>1, <2>2 DEF Shaped, Known, Behind, NotAhead
<1>. QED  BY <1>1, <1>2, <1>3, <1>4 DEF ReportsInv

\* What a step is, to the collection and to the requests.
StepOf ==
    /\ Move /\ JournalInv' /\ OneCollection' /\ CardsFinite' /\ Onward /\ \A id \in BookIds : Shown(id)
    /\ \/ ask' = ask
       \/ \E c \in Readers : ReaderStep(c) /\ ServedNow(c)
    /\ (been' = been /\ ask' = ask) \/ WatchCards

LEMMA StepIs == ASSUME ReportsInv, [ReportsNext]_vars PROVE StepOf
<1>1. TypeOK /\ OneCollection /\ CardsFinite /\ \A c \in Readers : InOrder(c)
  BY DEF ReportsInv, JournalInv, InOrder
<1>3. ASSUME Move PROVE JournalInv' /\ TypeOK' /\ OneCollection' /\ CardsFinite' /\ Onward /\ \A id \in BookIds : Shown(id)
  <2>1. JournalInv'
    BY <1>1, <1>3, MoveStores, JournalStep DEF ReportsInv
  <2>2. TypeOK'
    BY <2>1 DEF JournalInv
  <2>. QED  BY <1>1, <1>3, <2>1, <2>2, MoveKeeps, MoveFinite
<1>4. CASE UNCHANGED vars
  <2>1. Move
    BY <1>4 DEF vars, Move
  <2>. QED  BY <1>3, <1>4, <2>1 DEF StepOf, vars, reportVars
<1>5. CASE Others /\ UNCHANGED ask /\ WatchCards
  <2>1. Move
    BY <1>5, CollectionAssumption DEF Others, MakeCollection, Move
  <2>. QED  BY <1>3, <1>5, <2>1 DEF StepOf
<1>6. ASSUME NEW c \in Readers, ReaderStep(c), WatchCards PROVE StepOf
  <2>1. Move
    BY <1>1, <1>6, ReaderMoves
  <2>2. ServedNow(c)
    BY <1>1, <1>3, <1>6, <2>1, ReaderServed
  <2>. QED  BY <1>3, <1>6, <2>1, <2>2 DEF StepOf
<1>. QED  BY <1>4, <1>5, <1>6 DEF ReportsNext

LEMMA ReportsStep == ReportsInv /\ [ReportsNext]_vars => ReportsInv'
<1>. SUFFICES ASSUME ReportsInv, [ReportsNext]_vars PROVE ReportsInv'
  OBVIOUS
<1>1. StepOf
  BY StepIs
<1>2. JournalInv' /\ OneCollection' /\ CardsFinite' /\ TypeOK /\ TypeOK' /\ Onward
  BY <1>1 DEF StepOf, ReportsInv, JournalInv
<1>3. ASSUME NEW a \in Requests, Known(a) PROVE Known(a)'
  BY <1>2, <1>3, KnownKept
<1>4. /\ ask' \in [Readers -> Requests]
      /\ \A c \in Readers : Shaped(ask'[c]) /\ \A a \in Requests : a = ask'[c] => Known(a)'
  <2>1. CASE ask' = ask
    BY <1>3, <2>1 DEF ReportsInv
  <2>2. ASSUME NEW c \in Readers, ServedNow(c)
        PROVE  /\ ask' \in [Readers -> Requests]
               /\ \A r \in Readers : Shaped(ask'[r]) /\ \A a \in Requests : a = ask'[r] => Known(a)'
    <3>1. PICK a \in Requests : ask' = [ask EXCEPT ![c] = a] /\ Shaped(a) /\ Known(a)'
      BY <2>2 DEF ServedNow
    <3>2. ask' \in [Readers -> Requests]
      BY <3>1 DEF ReportsInv
    <3>3. ASSUME NEW r \in Readers PROVE Shaped(ask'[r]) /\ \A b \in Requests : b = ask'[r] => Known(b)'
      <4>1. CASE r = c
        BY <3>1, <4>1 DEF ReportsInv
      <4>2. CASE r # c
        <5>1. ask'[r] = ask[r]
          BY <3>1, <4>2 DEF ReportsInv
        <5>. QED  BY <1>3, <5>1 DEF ReportsInv
      <4>. QED  BY <4>1, <4>2
    <3>. QED  BY <3>2, <3>3
  <2>. QED  BY <1>1, <2>1, <2>2 DEF StepOf
<1>5. \A c \in Readers : Shaped(ask[c])' /\ Known(ask[c])'
  <2>1. ASSUME NEW c \in Readers PROVE Known(ask[c])'
    <3>1. PICK a \in Requests : a = ask'[c]
      BY <1>4
    <3>2. Known(a)'
      BY <1>4, <3>1
    <3>. QED  BY <3>1, <3>2 DEF Known
  <2>. QED  BY <1>4, <2>1
<1>6. been' \in [Readers -> [Hrefs -> SUBSET (ETags \cup {NoRow})]]
  <2>1. CASE been' = been
    BY <2>1 DEF ReportsInv
  <2>2. CASE WatchCards
    <3>1. CollectionShows
      BY CollectionShown DEF ReportsInv, JournalInv
    <3>2. CollectionShows'
      <4>1. (TypeOK /\ OneCollection => CollectionShows)'
        BY CollectionShown, PTL
      <4>. QED  BY <1>2, <4>1
    <3>3. \A h \in Hrefs : EtagNow(h) \in ETags \cup {NoRow} /\ EtagNow(h)' \in ETags \cup {NoRow}
      BY <3>1, <3>2 DEF CollectionShows
    <3>. QED  BY <2>2, <3>3 DEF WatchCards, BeenNow, ReportsInv
  <2>. QED  BY <1>1, <2>1, <2>2 DEF StepOf
<1>. QED  BY <1>2, <1>4, <1>5, <1>6 DEF ReportsInv

LEMMA ReportsInvariant == ReportsSpec => []ReportsInv
<1>1. ReportsInit => ReportsInv
  BY ReportsStart
<1>2. ReportsInv /\ [ReportsNext]_vars => ReportsInv'
  BY ReportsStep
<1>. QED  BY <1>1, <1>2, PTL DEF ReportsSpec

\* Type correctness of the reports: whatever else is written to the collection between
\* their steps, every request has one of the shapes that handler.go's code goes on with.
THEOREM ReportsTypeCorrect == ReportsSpec => []ReportsTypeOK
<1>1. ReportsInv => ReportsTypeOK
  BY DEF ReportsInv, ReportsTypeOK, Requests, JournalInv
<1>. QED  BY <1>1, ReportsInvariant, PTL

-----------------------------------------------------------------------------
(* Answers *)

\* The steps that may answer a request.
LEMMA Answering ==
  ASSUME ReportsInv, [ReportsNext]_vars, NEW c \in Readers, Answered(c)
  PROVE  \/ ReadState(c) \/ FindAnew(c) \/ ListRows(c) \/ GetRow(c) \/ InsertBook(c) \/ DescribeBook(c)
         \/ Fail(c)
<1>1. StepOf
  BY StepIs
<1>2. ask' # ask
  BY DEF Answered
<1>3. PICK r \in Readers : ReaderStep(r) /\ ServedNow(r)
  BY <1>1, <1>2 DEF StepOf
<1>4. r = c
  <2>1. PICK a \in Requests : ask' = [ask EXCEPT ![r] = a]
    BY <1>3 DEF ServedNow
  <2>. QED  BY <2>1 DEF Answered, ReportsInv
<1>. QED  BY <1>3, <1>4 DEF ReaderStep, Answered, Ask

\* The getctag of an answer is never newer than its sync-token, for every interleaving of
\* propfindAddressbook's reads (handler.go) with writers.
THEOREM CTagBehindToken == ReportsSpec => CTagNotAheadOfToken
<1> DEFINE Step == \A c \in Readers :
                     LET s == ask'[c].state IN
                     Answered(c) /\ s.token # NoRow /\ s.ctag # NoRow =>
                        \/ s.ctag.id < s.token.id
                        \/ s.ctag.id = s.token.id /\ s.ctag.rev <= s.token.rev
<1>1. ReportsInv' => Step
  BY DEF ReportsInv, Known, NotAhead
<1>2. ReportsInv /\ [ReportsNext]_vars => [Step]_vars
  BY <1>1, ReportsStep
<1>. QED  BY <1>2, ReportsInvariant, PTL DEF ReportsSpec, CTagNotAheadOfToken

\* The steps that answer an MKCOL.
LEMMA MkcolAnswering ==
  ASSUME ReportsInv, [ReportsNext]_vars, NEW c \in Readers, Answered(c), ask[c].q.op = "mkcol"
  PROVE  InsertBook(c) \/ DescribeBook(c) \/ Fail(c)
<1>1. Shaped(ask[c]) /\ ask \in [Readers -> Requests]
  BY DEF ReportsInv
<1>2. ask[c].pc \in {"insert", "describe"}
  BY <1>1 DEF Answered, Shaped, Reading, Requests
<1>. QED  BY <1>2, Answering DEF ReadState, FindAnew, ListRows, GetRow

\* The answer to an MKCOL (handleMkcol) tells what is at the path when it is given,
\* whoever deletes and makes the collection between its INSERT and its UPDATE and
\* whichever of the two fails: a 201 that the properties asked for are there, a 405 that
\* there is a collection, a 404 that there is none, and the request's own neither.
THEOREM MkcolAnswers == ReportsSpec => MkcolAnswerIsTrue
<1> DEFINE Tells201(c) == /\ ask'[c].status = "created" => \E id \in Found' : HasAskedFor(books'[id].name, ask[c].q)
                          /\ ask'[c].status = "exists" => Found' # {}
                          /\ ask'[c].status = "missing" => Found' = {} /\ ask[c].id \notin Live'
                          /\ ask'[c].status # "created" => books' = books
           Step == \A c \in Readers : Answered(c) /\ ask[c].q.op = "mkcol" => Tells201(c)
<1>1. ASSUME ReportsInv, [ReportsNext]_vars, NEW c \in Readers, Answered(c), ask[c].q.op = "mkcol"
      PROVE  Tells201(c)
  <2>1. /\ ask \in [Readers -> Requests] /\ TypeOK /\ OneCollection /\ Found = Live
        /\ Shaped(ask[c]) /\ BookIds \subseteq Nat
    BY <1>1, FoundIsLive, BoundsAssumption DEF ReportsInv, JournalInv, BookIds
  <2>2. Found' = Live'
    <3>1. TypeOK' /\ OneCollection'
      BY <1>1, ReportsStep DEF ReportsInv, JournalInv
    <3>2. (TypeOK /\ OneCollection => Found = Live)'
      BY FoundIsLive, PTL
    <3>. QED  BY <3>1, <3>2
  <2>3. ASSUME NEW status, Reply(c, status) PROVE ask'[c].status = status
    BY <2>1, <2>3 DEF Reply, Set, Quiet
  <2>4. UNCHANGED storeVars => Live' = Live /\ books' = books
    BY DEF storeVars, Live
  <2>5. CASE Fail(c)
    BY <2>3, <2>4, <2>5 DEF Fail, FailStatus
  <2>6. CASE InsertBook(c) /\ Found # {}
    BY <2>1, <2>2, <2>3, <2>4, <2>6 DEF InsertBook
  <2>7. CASE InsertBook(c) /\ Found = {}
    <3>1. ASSUME Set(c, [ask[c] EXCEPT !.pc = "describe", !.id = NewBookId]) PROVE FALSE
      BY <1>1, <2>1, <3>1 DEF Set, Requests, Answered
    <3>2. Reply(c, "created") /\ ask[c].q.display = NoRow /\ ask[c].q.desc = NoRow
      BY <2>7, <3>1 DEF InsertBook
    <3>3. PICK u \in UserIds, fk \in ForeignKeys, n \in Names : CreateAddressbook(u, Slug, n, fk)
      <4>1. [display |-> SlugName, desc |-> Blank] \in Names
        BY ReportAssumption
      <4>. QED  BY <2>7, <3>2, <4>1 DEF InsertBook
    <3>4. NewBookId \in Live'
      <4>1. PICK row : row = [owner |-> u, slug |-> Slug, name |-> n, revision |-> 0]
        OBVIOUS
      <4>2. NewBookId \in BookIds /\ books' = [books EXCEPT ![NewBookId] = row]
        BY <3>3, <4>1 DEF CreateAddressbook
      <4>3. n \in Names /\ Slug \in Slugs /\ 0 \in 0 .. MaxRev
        BY CollectionAssumption, BoundsAssumption
      <4>4. row \in BookRow
        BY <4>1, <4>3 DEF BookRow
      <4>5. row # NoRow
        BY <4>4, NoRowAssumption
      <4>. QED  BY <2>1, <4>2, <4>5 DEF Live, TypeOK
    <3>. QED  BY <2>2, <2>3, <3>2, <3>4 DEF HasAskedFor
  <2>8. CASE DescribeBook(c) /\ Found = {}
    BY <2>1, <2>2, <2>3, <2>4, <2>8 DEF DescribeBook
  <2>9. CASE DescribeBook(c) /\ Found # {}
    <3>1. Reply(c, "created")
      BY <2>9 DEF DescribeBook
    <3>2. PICK n \in Names : HasAskedFor(n, ask[c].q) /\ UpdateAddressbookMetadata(Username, Slug, n)
      <4>1. PICK id \in Found : UpdateAddressbookMetadata(Username, Slug, Described(books[id].name, ask[c].q))
        BY <2>9 DEF DescribeBook
      <4>2. ask[c].q \in Queries /\ ask[c].q.op = "mkcol"
        BY <1>1, <2>1, <2>9 DEF DescribeBook, Shaped
      <4>3. books[id].name \in Names
        <5>1. books[id] \in BookRow
          BY <2>1 DEF Live, TypeOK
        <5>. QED  BY <5>1 DEF BookRow
      <4>4. Described(books[id].name, ask[c].q) \in Names
        BY <4>2, <4>3, QueryFields, DescribedName
      <4>5. HasAskedFor(Described(books[id].name, ask[c].q), ask[c].q)
        BY DEF HasAskedFor, Described
      <4>. QED  BY <4>1, <4>4, <4>5
    <3>3. PICK id \in Found : books' = [books EXCEPT ![id].name = n]
      BY <3>2 DEF UpdateAddressbookMetadata, Found
    <3>4. id \in Live' /\ books'[id].name = n
      <4>1. id \in BookIds /\ books[id] \in BookRow
        BY <2>1, <3>3 DEF Live, TypeOK
      <4>2. books'[id] = [books[id] EXCEPT !.name = n]
        BY <2>1, <3>3, <4>1 DEF TypeOK
      <4>3. books'[id] \in BookRow
        BY <4>1, <4>2 DEF BookRow
      <4>4. books'[id] # NoRow
        BY <4>3, NoRowAssumption
      <4>. QED  BY <4>1, <4>2, <4>4 DEF Live, BookRow
    <3>. QED  BY <2>2, <2>3, <3>1, <3>2, <3>4
  <2>. QED  BY <1>1, <2>5, <2>6, <2>7, <2>8, <2>9, MkcolAnswering
<1>2. ReportsInv /\ [ReportsNext]_vars => [Step]_vars
  BY <1>1
<1>. QED  BY <1>2, ReportsInvariant, PTL DEF ReportsSpec, MkcolAnswerIsTrue

\* A PROPFIND of a collection and its cards is answered by the listing.
LEMMA ListingAnswers ==
  ASSUME ReportsInv, [ReportsNext]_vars, NEW c \in Readers,
         Answered(c), ask[c].q.op = "propfind", ask[c].q.depth = 1, ask'[c].status = "ok"
  PROVE  ListRows(c)
<1> DEFINE a == ask[c]
<1>1. a \in Requests /\ Shaped(a) /\ a.pc # "idle" /\ ask \in [Readers -> Requests]
  BY DEF ReportsInv, Answered
<1>2. Reading(a) /\ a.pc \in {"next", "rows"}
  BY <1>1 DEF Shaped, Reading, Requests
<1>3. Left(a, 1) /\ a.todo # <<>> /\ a.todo[Len(a.todo)] = "cards"
  BY <1>2 DEF Reading, Left
<1>4. Len(a.todo) \in Nat /\ Head(a.todo) = a.todo[1]
  BY <1>1, <1>3, TodoIs
<1>5. ASSUME NEW status, Reply(c, status) PROVE ask'[c].status = status
  BY <1>1, <1>5 DEF Reply, Set, Quiet
<1>6. ~FindAnew(c)
  <2>. SUFFICES ASSUME FindAnew(c) PROVE FALSE
    OBVIOUS
  <2>1. ~Reply(c, "missing")
    BY <1>5
  <2>2. PICK id \in Found, pc \in {"rows", "row"} : ask' = [ask EXCEPT ![c] = [a EXCEPT !.id = id, !.pc = pc]]
    <3>1. Found # {} /\ \E id \in Found :
             ask' = [ask EXCEPT ![c] = [a EXCEPT !.id = id, !.pc = IF Head(a.todo) = "cards" THEN "rows" ELSE "row"]]
      BY <1>2, <2>1 DEF FindAnew, Set
    <3>. QED  BY <3>1
  <2>3. ask'[c].pc \in {"rows", "row"}
    BY <1>1, <2>2 DEF Requests
  <2>. QED  BY <2>3 DEF Answered
<1>7. ~ReadState(c)
  <2>. SUFFICES ASSUME ReadState(c) PROVE FALSE
    OBVIOUS
  <2>1. Head(a.todo) # "cards" /\ a.pc = "next"
    BY DEF ReadState
  <2>2. ~Reply(c, "error")
    BY <1>5
  <2>3. \E b : ask' = [ask EXCEPT ![c] = Done(b)] /\ b.todo = a.todo /\ DOMAIN b = DOMAIN a
    <3>1. CASE Reuses(a)
      <4> DEFINE b == [a EXCEPT !.state.ctag = a.state.token]
      <4>1. ask' = [ask EXCEPT ![c] = Done(b)]
        BY <3>1 DEF ReadState, Set
      <4>2. b.todo = a.todo /\ DOMAIN b = DOMAIN a
        BY <1>1 DEF Requests
      <4>. HIDE DEF b
      <4>. QED  BY <4>1, <4>2
    <3>2. CASE ~Reuses(a)
      <4>1. PICK id \in Found :
               ask' = [ask EXCEPT ![c] = Done([a EXCEPT !.state[Head(a.todo)] = [id |-> id, rev |-> books[id].revision]])]
        BY <2>2, <3>2 DEF ReadState, Set
      <4> DEFINE b == [a EXCEPT !.state[Head(a.todo)] = [id |-> id, rev |-> books[id].revision]]
      <4>2. b.todo = a.todo /\ DOMAIN b = DOMAIN a
        BY <1>1 DEF Requests
      <4>. HIDE DEF b
      <4>3. ask' = [ask EXCEPT ![c] = Done(b)]
        BY <4>1 DEF b
      <4>. QED  BY <4>2, <4>3
    <3>. QED  BY <3>1, <3>2
  <2>4. PICK b : ask' = [ask EXCEPT ![c] = Done(b)] /\ b.todo = a.todo /\ DOMAIN b = DOMAIN a
    BY <2>3
  <2>5. Len(a.todo) # 1 /\ Len(a.todo) # 0
    BY <1>1, <1>3, <1>4, <2>1, TodoIs
  <2>6. ~(Len(b.todo) <= 1)
    <3>1. \A n \in Nat : n # 1 /\ n # 0 => ~(n <= 1)
      OBVIOUS
    <3>. QED  BY <1>4, <2>4, <2>5, <3>1, Zenon
  <2>7. Done(b).pc = "next"
    <3>1. "pc" \in DOMAIN b
      BY <1>1, <2>4 DEF Requests
    <3>. QED  BY <2>6, <3>1 DEF Done
  <2>. QED  BY <1>1, <2>4, <2>7 DEF Answered
<1>8. ~Fail(c)
  BY <1>5 DEF Fail, FailStatus
<1>. QED  BY <1>1, <1>2, <1>6, <1>7, <1>8, Answering DEF GetRow, InsertBook, DescribeBook

\* Whoever writes between a PROPFIND's read of the state and its listing, what the listing
\* shows is what the last change that its sync-token covers left: the token's collection
\* is gone, or it is the one that was listed, as it is now.
THEOREM TokenCovers == ReportsSpec => TokenCoversListing
<1> DEFINE Step == \A c \in Readers :
                     Answered(c) /\ ask[c].q.op = "propfind" /\ ask[c].q.depth = 1 /\ ask'[c].status = "ok" =>
                        \A s \in {ask'[c].state.token, ask'[c].state.ctag} :
                           s.id \in Live => \A h \in Hrefs :
                              last[s.id][h] <= s.rev => ask'[c].out[h].etag = EtagNow(h)
<1>1. ASSUME ReportsInv, [ReportsNext]_vars, NEW c \in Readers,
             Answered(c), ask[c].q.op = "propfind", ask[c].q.depth = 1, ask'[c].status = "ok",
             NEW s \in {ask'[c].state.token, ask'[c].state.ctag}, s.id \in Live, NEW h \in Hrefs
      PROVE  ask'[c].out[h].etag = EtagNow(h)
  <2> DEFINE a == ask[c]
             b == [a EXCEPT !.out = RowsOf(a.id)]
  <2>1. /\ a \in Requests /\ Reading(a) /\ Known(a) /\ a.pc = "rows" /\ ask \in [Readers -> Requests]
        /\ TypeOK /\ OneCollection /\ ListRows(c)
    BY <1>1, ListingAnswers DEF ReportsInv, JournalInv, Shaped, ListRows
  <2>2. a.id \in BookIds /\ a.todo # <<>> /\ Left(a, 1) /\ Len(a.todo) = 1
    BY <1>1, <2>1 DEF Reading
  <2>3. a.state.token # NoRow /\ a.state.ctag # NoRow
    <3>1. a.todo[1] = "cards"
      BY <1>1, <2>2 DEF Left
    <3>2. \A i \in 1 .. Len(a.todo) : a.todo[i] = "cards"
      BY <2>2, <3>1
    <3>. QED  BY <2>2, <3>2 DEF Left
  <2>4. RowsOf(a.id) \in [Hrefs -> [etag : ETags \cup {NoRow}, data : ETags \cup {NoRow}]]
    BY <2>1, <2>2, RowsAre
  <2>5. b \in Requests /\ b.todo = a.todo /\ b.state = a.state /\ b.out = RowsOf(a.id)
    BY <2>1, <2>4 DEF Requests
  <2>6. ask' = [ask EXCEPT ![c] = Done(b)]
    BY <1>1, <2>1 DEF ListRows, RowsOf, Set
  <2>. HIDE DEF a, b
  <2>7. Done(b).state = a.state /\ Done(b).out = RowsOf(a.id)
    BY <2>2, <2>5, DoneIs
  <2>8. ask'[c].state = a.state /\ ask'[c].out = RowsOf(a.id)
    BY <2>1, <2>6, <2>7
  <2>9. a.id \in Live
    <3>1. s \in {a.state.token, a.state.ctag}
      BY <2>8
    <3>2. s.id <= a.id /\ a.id <= seq.books
      BY <1>1, <2>1, <2>3, <3>1 DEF Known, a
    <3>3. s.id = seq.books
      BY <1>1, <2>1 DEF OneCollection
    <3>4. a.id \in Nat /\ seq.books \in Nat
      BY <2>1, <2>2, BoundsAssumption DEF TypeOK, BookIds
    <3>5. a.id = s.id
      BY <3>2, <3>3, <3>4
    <3>. QED  BY <1>1, <3>5
  <2>10. RowsOf(a.id)[h].etag = EtagOf(cards[a.id][h])
    BY <2>1, <2>2, RowsAre
  <2>11. EtagNow(h) = EtagOf(cards[a.id][h])
    BY <2>1, <2>9, EtagNowIs
  <2>. QED  BY <2>8, <2>10, <2>11
<1>2. ReportsInv /\ [ReportsNext]_vars => [Step]_vars
  BY <1>1
<1>. QED  BY <1>2, ReportsInvariant, PTL DEF ReportsSpec, TokenCoversListing

-----------------------------------------------------------------------------
(* What an answer says of the cards *)

\* Card h is among the work from place n on; the request is about h.
Still(a, n, h) == \E i \in n .. Len(a.todo) : a.todo[i] = h
About(q, h) == q.op = "multiget" => \E i \in DOMAIN q.hrefs : q.hrefs[i] = h

\* What a query or a multiget has gathered was true of each card it has done with.
Gathered(a, n, b) ==
    /\ a.q.op = "query" => \A h \in Hrefs :
          a.out[h].etag \in b[h] /\ (a.out[h].data \in b[h] \/ Still(a, n, h))
    /\ a.q.op = "multiget" => \A h \in Hrefs :
          /\ a.out[h].data = a.out[h].etag
          /\ \/ a.out[h].etag \in b[h]
             \/ a.out[h].etag = NoRow /\ (Still(a, n, h) \/ ~About(a.q, h))

\* b has each row of the collection that the request looked up.
Looked(a, b) == \A h \in Hrefs : EtagOf(cards[a.id][h]) \in b[h]
Watched(b) == \A h \in Hrefs : EtagNow(h) \in b[h]
Told(a, b) ==
    a.pc # "idle" =>
        /\ Watched(b)
        /\ a.pc \in {"rows", "row"} => Looked(a, b)
        /\ a.pc \in {"next", "row"} => Gathered(a, 1, b)

\* An answer with the responses out is true.
TrueOf(q, out, b) ==
    \A h \in Hrefs : About(q, h) =>
        /\ out[h].etag \in b[h]
        /\ q.op \in {"query", "multiget"} => out[h].data \in b[h]
        /\ q.op = "multiget" => out[h].data = out[h].etag

LEMMA DoneTells ==
  ASSUME NEW a \in Requests, a.todo # <<>>, NEW b, Gathered(a, 2, b)
  PROVE  /\ Done(a).pc \in {"next", "idle"}
         /\ Done(a).pc = "next" => Gathered(Done(a), 1, b)
         /\ Done(a).pc = "idle" /\ a.q.op \in {"query", "multiget"} => TrueOf(a.q, Done(a).out, b)
<1> DEFINE d == Done(a)
<1>1. /\ Len(a.todo) \in Nat /\ Len(a.todo) > 0 /\ d.out = a.out
      /\ Len(a.todo) = 1 => d.pc = "idle"
      /\ Len(a.todo) # 1 => d.pc = "next" /\ d.q = a.q
  BY DoneIs
<1>2. CASE Len(a.todo) = 1
  <2>1. \A h : ~Still(a, 2, h)
    BY <1>2 DEF Still
  <2>2. d.pc = "idle" /\ d.out = a.out
    BY <1>1, <1>2
  <2>. HIDE DEF d
  <2>3. a.q.op \in {"query", "multiget"} => TrueOf(a.q, a.out, b)
    <3>1. CASE a.q.op = "query"
      BY <2>1, <3>1 DEF Gathered, TrueOf
    <3>2. CASE a.q.op = "multiget"
      BY <2>1, <3>2 DEF Gathered, TrueOf
    <3>. QED  BY <3>1, <3>2
  <2>. QED  BY <2>2, <2>3 DEF d
<1>3. CASE Len(a.todo) # 1
  <2>1. /\ d.todo = Tail(a.todo) /\ Len(d.todo) = Len(a.todo) - 1
        /\ \A i \in 1 .. Len(d.todo) : d.todo[i] = a.todo[i + 1]
    <3>1. /\ Done(a).pc = "next" /\ Done(a).q = a.q
          /\ Done(a).todo = Tail(a.todo) /\ Len(Tail(a.todo)) = Len(a.todo) - 1
          /\ \A i \in 1 .. Len(Tail(a.todo)) : Tail(a.todo)[i] = a.todo[i + 1]
      BY <1>3, DoneIs
    <3>. QED  BY <3>1
  <2>2. d.pc = "next" /\ d.q = a.q /\ d.out = a.out
    BY <1>1, <1>3
  <2>. HIDE DEF d
  <2>3. ASSUME NEW h, Still(a, 2, h) PROVE Still(d, 1, h)
    <3>1. PICK i \in 2 .. Len(a.todo) : a.todo[i] = h
      BY <2>3 DEF Still
    <3>2. i - 1 \in 1 .. Len(d.todo) /\ (i - 1) + 1 = i
      BY <1>1, <2>1
    <3>3. d.todo[i - 1] = h
      BY <2>1, <3>1, <3>2
    <3>. QED  BY <3>2, <3>3 DEF Still
  <2>4. Gathered(d, 1, b)
    BY <2>2, <2>3 DEF Gathered
  <2>. QED  BY <2>2, <2>4 DEF d
<1>. QED  BY <1>2, <1>3

\* More places and longer histories keep what was gathered.
LEMMA GatheredKept ==
  ASSUME NEW a, NEW n, NEW b, NEW d, \A h \in Hrefs : b[h] \subseteq d[h], Gathered(a, n, b)
  PROVE  Gathered(a, n, d)
<1>1. a.q.op = "query" => \A h \in Hrefs :
          a.out[h].etag \in d[h] /\ (a.out[h].data \in d[h] \/ Still(a, n, h))
  BY DEF Gathered
<1>2. a.q.op = "multiget" => \A h \in Hrefs :
          /\ a.out[h].data = a.out[h].etag
          /\ \/ a.out[h].etag \in d[h]
             \/ a.out[h].etag = NoRow /\ (Still(a, n, h) \/ ~About(a.q, h))
  BY DEF Gathered
<1>. QED  BY <1>1, <1>2 DEF Gathered

\* One place less: the card at its head is accounted for.
LEMMA GatheredNext ==
  ASSUME NEW a \in Requests, a.todo # <<>>, NEW b, Gathered(a, 1, b),
         NEW out, NEW d, d.todo = a.todo, d.q = a.q, d.out = out,
         \A h \in Hrefs : h # Head(a.todo) => out[h] = a.out[h],
         \A h \in Hrefs : h = Head(a.todo) =>
            /\ a.q.op = "query" => out[h].etag \in b[h] /\ out[h].data \in b[h]
            /\ a.q.op = "multiget" => out[h].etag \in b[h] /\ out[h].data = out[h].etag
  PROVE  Gathered(d, 2, b)
<1>1. Len(a.todo) \in Nat /\ Len(a.todo) > 0 /\ Head(a.todo) = a.todo[1]
  BY TodoIs
<1>2. ASSUME NEW h, h # Head(a.todo), Still(a, 1, h) PROVE Still(d, 2, h)
  <2>1. PICK i \in 1 .. Len(a.todo) : a.todo[i] = h
    BY <1>2 DEF Still
  <2>2. i # 1
    BY <1>1, <1>2, <2>1
  <2>3. i \in 2 .. Len(a.todo)
    BY <1>1, <2>2
  <2>. QED  BY <2>1, <2>3 DEF Still
<1>3. ASSUME a.q.op = "query", NEW h \in Hrefs
      PROVE  out[h].etag \in b[h] /\ (out[h].data \in b[h] \/ Still(d, 2, h))
  <2>1. CASE h = Head(a.todo)
    BY <1>3, <2>1
  <2>2. CASE h # Head(a.todo)
    BY <1>2, <1>3, <2>2 DEF Gathered
  <2>. QED  BY <2>1, <2>2
<1>4. ASSUME a.q.op = "multiget", NEW h \in Hrefs
      PROVE  /\ out[h].data = out[h].etag
             /\ \/ out[h].etag \in b[h]
                \/ out[h].etag = NoRow /\ (Still(d, 2, h) \/ ~About(a.q, h))
  <2>1. CASE h = Head(a.todo)
    BY <1>4, <2>1
  <2>2. CASE h # Head(a.todo)
    BY <1>2, <1>4, <2>2 DEF Gathered
  <2>. QED  BY <2>1, <2>2
<1>. QED  BY <1>3, <1>4 DEF Gathered

\* What the step of a reader makes of its request stays true of the cards.
Tells(c, b) ==
    \E n : /\ ask' = [ask EXCEPT ![c] = n]
           /\ n.pc \in {"rows", "row"} => Looked(n, b)
           /\ n.pc \in {"next", "row"} => Gathered(n, 1, b)
           /\ n.pc = "idle" /\ n.status = "ok" /\ (ask[c].q.op \in {"query", "multiget"} \/ ask[c].pc = "rows") =>
                 TrueOf(ask[c].q, n.out, b)
           /\ n.pc = "idle" /\ n.status = "missing" /\ ask[c].q.op = "query" => NoRow \in b[Head(ask[c].todo)]

LEMMA ReplyTells ==
  ASSUME NEW c \in Readers, NEW b, NEW status, status # "ok", Reply(c, status),
         status = "missing" /\ ask[c].q.op = "query" => NoRow \in b[Head(ask[c].todo)]
  PROVE  Tells(c, b)
<1> DEFINE n == [Quiet EXCEPT !.status = status]
<1>1. n.pc = "idle" /\ n.status = status
  BY DEF Quiet
<1>2. ask' = [ask EXCEPT ![c] = n]
  BY DEF Reply, Set
<1>. HIDE DEF n
<1>. QED  BY <1>1, <1>2 DEF Tells

LEMMA SetDoneTells ==
  ASSUME NEW c \in Readers, NEW a \in Requests, a.todo # <<>>, a.q = ask[c].q,
         ask' = [ask EXCEPT ![c] = Done(a)], ask[c].pc \in {"next", "row"}, NEW b, Gathered(a, 2, b)
  PROVE  Tells(c, b)
<1>1. /\ Done(a).pc \in {"next", "idle"}
      /\ Done(a).pc = "next" => Gathered(Done(a), 1, b)
      /\ Done(a).pc = "idle" /\ a.q.op \in {"query", "multiget"} => TrueOf(a.q, Done(a).out, b)
  BY DoneTells
<1>2. Done(a).pc = "idle" => Done(a).status = "ok"
  BY DoneIs
<1>. QED  BY <1>1, <1>2 DEF Tells

LEMMA ReadStateTells ==
  ASSUME TypeOK, NEW c \in Readers, InOrder(c), ReadState(c), NEW b
  PROVE  Tells(c, b)
<1> DEFINE a == ask[c]
<1>1. /\ a \in Requests /\ Reading(a) /\ a.pc = "next" /\ Head(a.todo) \in {"token", "ctag"} /\ a.todo # <<>>
  BY DEF InOrder, Shaped, Reading, ReadState
<1>2. a.q.op \in {"propfind", "home"}
  <2>1. a.q.op \in {"query", "multiget"} => Head(a.todo) \in Hrefs
    BY <1>1, HeadTailProperties DEF Reading
  <2>2. Head(a.todo) \notin Hrefs
    BY <1>1, ReportAssumption
  <2>. QED  BY <1>1, <2>1, <2>2 DEF Reading
<1>3. ASSUME NEW n \in Requests, n.todo = a.todo, n.q = a.q, ask' = [ask EXCEPT ![c] = Done(n)]
      PROVE  Tells(c, b)
  <2>1. Gathered(n, 2, b)
    BY <1>2, <1>3 DEF Gathered
  <2>. QED  BY <1>1, <1>3, <2>1, SetDoneTells
<1>4. CASE Reuses(a)
  <2> DEFINE n == [a EXCEPT !.state.ctag = a.state.token]
  <2>1. n \in Requests /\ n.todo = a.todo /\ n.q = a.q
    BY <1>1 DEF Requests
  <2>2. ask' = [ask EXCEPT ![c] = Done(n)]
    BY <1>4 DEF ReadState, Set, a
  <2>. HIDE DEF n, a
  <2>. QED  BY <1>3, <2>1, <2>2
<1>5. CASE ~Reuses(a) /\ Found = {}
  <2>1. Reply(c, "error")
    BY <1>5 DEF ReadState, a
  <2>. QED  BY <1>2, <2>1, ReplyTells
<1>6. CASE ~Reuses(a) /\ Found # {}
  <2>1. PICK id \in Found :
          Set(c, Done([a EXCEPT !.state[Head(a.todo)] = [id |-> id, rev |-> books[id].revision]]))
    BY <1>6 DEF ReadState, a
  <2> DEFINE s == [id |-> id, rev |-> books[id].revision]
             n == [a EXCEPT !.state[Head(a.todo)] = s]
  <2>2. s \in State
    <3>1. id \in BookIds /\ books[id] \in BookRow
      BY DEF Found, AddressbookOf, Live, TypeOK
    <3>. QED  BY <3>1 DEF State, BookRow
  <2>3. ask' = [ask EXCEPT ![c] = Done(n)]
    BY <2>1 DEF Set
  <2>. HIDE DEF s
  <2>4. n \in Requests /\ n.todo = a.todo /\ n.q = a.q
    <3>1. a.state \in [token : State \cup {NoRow}, ctag : State \cup {NoRow}]
      BY <1>1 DEF Requests
    <3>2. n = [a EXCEPT !.state = [a.state EXCEPT ![Head(a.todo)] = s]]
      BY <1>1, <3>1 DEF Requests
    <3>3. [a.state EXCEPT ![Head(a.todo)] = s] \in [token : State \cup {NoRow}, ctag : State \cup {NoRow}]
      <4>1. CASE Head(a.todo) = "token"
        BY <2>2, <3>1, <4>1
      <4>2. CASE Head(a.todo) = "ctag"
        BY <2>2, <3>1, <4>2
      <4>. QED  BY <1>1, <4>1, <4>2
    <3>. QED  BY <1>1, <3>2, <3>3 DEF Requests
  <2>. HIDE DEF n, a
  <2>. QED  BY <1>3, <2>3, <2>4
<1>. QED  BY <1>4, <1>5, <1>6

LEMMA FindAnewTells ==
  ASSUME TypeOK, OneCollection, NEW c \in Readers, InOrder(c), FindAnew(c), NEW b, Told(ask[c], b)
  PROVE  Tells(c, b)
<1> DEFINE a == ask[c]
<1>1. /\ a \in Requests /\ Reading(a) /\ a.pc = "next" /\ a.todo # <<>> /\ Watched(b) /\ Gathered(a, 1, b)
  BY DEF InOrder, Shaped, Reading, FindAnew, Told
<1>2. CASE Found # {}
  <2> DEFINE pc == IF Head(a.todo) = "cards" THEN "rows" ELSE "row"
  <2>1. PICK id \in Found : Set(c, [a EXCEPT !.id = id, !.pc = pc])
    BY <1>2 DEF FindAnew, a
  <2> DEFINE n == [a EXCEPT !.id = id, !.pc = pc]
  <2>2. n.todo = a.todo /\ n.q = a.q /\ n.id = id /\ n.pc \in {"rows", "row"} /\ n.out = a.out
    BY <1>1 DEF Requests
  <2>3. ask' = [ask EXCEPT ![c] = n]
    BY <2>1 DEF Set
  <2>. HIDE DEF a, n
  <2>4. Looked(n, b)
    <3>1. id \in Live
      BY FoundId
    <3>2. \A h \in Hrefs : EtagNow(h) = EtagOf(cards[id][h])
      BY <3>1, EtagNowIs
    <3>. QED  BY <1>1, <2>2, <3>2 DEF Looked, Watched
  <2>5. Gathered(n, 1, b)
    BY <1>1, <2>2 DEF Gathered, Still
  <2>. QED  BY <2>2, <2>3, <2>4, <2>5 DEF Tells
<1>3. CASE Found = {}
  <2>1. \A h \in Hrefs : EtagNow(h) = NoRow
    BY <1>3, FoundIsLive, EtagNowIs
  <2>2. \A h \in Hrefs : NoRow \in b[h]
    BY <1>1, <2>1 DEF Watched
  <2>3. a.q.op \in {"query", "multiget"} => Head(a.todo) \in Hrefs
    BY <1>1, HeadTailProperties DEF Reading
  <2>4. CASE a.q.op = "multiget"
    <3>1. ask' = [ask EXCEPT ![c] = Done(a)]
      BY <1>3, <2>4 DEF FindAnew, Set, a
    <3>. HIDE DEF a
    <3>2. Gathered(a, 2, b)
      <4>1. \A h \in Hrefs : h = Head(a.todo) => a.out[h].etag \in b[h] /\ a.out[h].data = a.out[h].etag
        BY <1>1, <2>2, <2>4 DEF Gathered
      <4>. QED  BY <1>1, <2>4, <4>1, GatheredNext
    <3>. QED  BY <1>1, <3>1, <3>2, SetDoneTells DEF a
  <2>5. CASE a.q.op # "multiget"
    <3>1. Reply(c, "missing")
      BY <1>3, <2>5 DEF FindAnew, a
    <3>. QED  BY <2>2, <2>3, <3>1, ReplyTells
  <2>. QED  BY <2>4, <2>5
<1>. QED  BY <1>2, <1>3

LEMMA ListRowsTells ==
  ASSUME TypeOK, CardsFinite, NEW c \in Readers, InOrder(c), ListRows(c), NEW b, Told(ask[c], b)
  PROVE  Tells(c, b)
<1> DEFINE a == ask[c]
           there == {h \in Hrefs : cards[a.id][h] # NoRow}
<1>1. /\ a \in Requests /\ Reading(a) /\ a.pc = "rows" /\ a.todo # <<>> /\ Len(a.todo) = 1
      /\ a.id \in BookIds /\ a.q.op \in {"propfind", "query"} /\ Looked(a, b)
  BY ListingOp DEF InOrder, Shaped, Reading, ListRows, Told
<1>2. RowsOf(a.id) \in [Hrefs -> [etag : ETags \cup {NoRow}, data : ETags \cup {NoRow}]]
  BY <1>1, RowsAre
<1>3. \A h \in Hrefs : /\ RowsOf(a.id)[h].etag \in b[h] /\ RowsOf(a.id)[h].data = NoRow
                       /\ h \notin there => NoRow \in b[h]
  <2>1. \A h \in Hrefs : RowsOf(a.id)[h].etag = EtagOf(cards[a.id][h]) /\ RowsOf(a.id)[h].data = NoRow
    BY <1>1, RowsAre
  <2>2. \A h \in Hrefs : EtagOf(cards[a.id][h]) \in b[h]
    BY <1>1 DEF Looked
  <2>. QED  BY <2>1, <2>2 DEF EtagOf
<1>4. CASE a.q.op = "query" /\ there # {}
  <2>1. PICK order \in SetToSeqs(there) :
          Set(c, [a EXCEPT !.out = RowsOf(a.id), !.pc = "next", !.todo = order])
    BY <1>4 DEF ListRows, RowsOf
  <2>2. IsFiniteSet(there)
    BY <1>1 DEF CardsFinite
  <2>3. \A h \in there : \E i \in 1 .. Len(order) : order[i] = h
    BY <1>4, <2>2, OrderIs
  <2> DEFINE n == [a EXCEPT !.out = RowsOf(a.id), !.pc = "next", !.todo = order]
  <2>4. n.pc = "next" /\ n.todo = order /\ n.q = a.q /\ n.out = RowsOf(a.id)
    BY <1>1 DEF Requests
  <2>5. ask' = [ask EXCEPT ![c] = n]
    BY <2>1 DEF Set
  <2>. HIDE DEF a, n
  <2>6. Gathered(n, 1, b)
    <3>1. \A h \in there : Still(n, 1, h)
      BY <2>3, <2>4 DEF Still
    <3>2. \A h \in Hrefs : n.out[h].etag \in b[h] /\ (n.out[h].data \in b[h] \/ Still(n, 1, h))
      <4>. SUFFICES ASSUME NEW h \in Hrefs PROVE n.out[h].etag \in b[h] /\ (n.out[h].data \in b[h] \/ Still(n, 1, h))
        OBVIOUS
      <4>. HIDE DEF there
      <4>1. CASE h \in there
        BY <1>3, <2>4, <3>1, <4>1
      <4>2. CASE h \notin there
        BY <1>3, <2>4, <4>2
      <4>. QED  BY <4>1, <4>2
    <3>. QED  BY <1>4, <2>4, <3>2 DEF Gathered
  <2>. QED  BY <2>4, <2>5, <2>6 DEF Tells
<1>5. CASE ~(a.q.op = "query" /\ there # {})
  <2> DEFINE n == [a EXCEPT !.out = RowsOf(a.id)]
  <2>1. ask' = [ask EXCEPT ![c] = Done(n)]
    BY <1>5 DEF ListRows, RowsOf, Set
  <2>2. n \in Requests /\ n.todo = a.todo /\ n.q = a.q /\ n.out = RowsOf(a.id)
    BY <1>1, <1>2 DEF Requests
  <2>. HIDE DEF n
  <2>3. /\ Done(n).pc = "idle" /\ Done(n).status = "ok" /\ Done(n).out = RowsOf(a.id)
    BY <1>1, <2>2, DoneIs
  <2>4. TrueOf(a.q, RowsOf(a.id), b)
    <3>1. \A h \in Hrefs : RowsOf(a.id)[h].etag \in b[h]
      BY <1>3
    <3>2. a.q.op = "query" => \A h \in Hrefs : RowsOf(a.id)[h].data \in b[h]
      <4>. SUFFICES ASSUME a.q.op = "query", NEW h \in Hrefs PROVE RowsOf(a.id)[h].data \in b[h]
        OBVIOUS
      <4>1. h \notin there
        BY <1>5
      <4>. HIDE DEF there
      <4>. QED  BY <1>3, <4>1
    <3>3. a.q.op # "multiget"
      BY <1>1
    <3>. HIDE DEF a
    <3>. QED  BY <3>1, <3>2, <3>3 DEF TrueOf
  <2>. QED  BY <2>1, <2>3, <2>4 DEF Tells
<1>. QED  BY <1>4, <1>5

LEMMA GetRowTells ==
  ASSUME TypeOK, NEW c \in Readers, InOrder(c), GetRow(c), NEW b, Told(ask[c], b)
  PROVE  Tells(c, b)
<1> DEFINE a == ask[c]
           h == Head(a.todo)
           card == cards[a.id][h]
<1>1. /\ a \in Requests /\ Reading(a) /\ a.pc = "row" /\ a.todo # <<>> /\ a.q \in Queries
      /\ a.q.op \in {"query", "multiget"} /\ a.todo \in Seq(Hrefs) /\ a.id \in BookIds
      /\ Looked(a, b) /\ Gathered(a, 1, b)
  BY DEF InOrder, Shaped, Reading, GetRow, Told
<1>2. h \in Hrefs
  BY <1>1, HeadTailProperties
<1>3. /\ card = NoRow => NoRow \in b[h]
      /\ card # NoRow => card.etag \in b[h] /\ card.etag \in ETags
  BY <1>1, <1>2 DEF Looked, EtagOf, TypeOK, Card
<1>4. a.out \in [Hrefs -> [etag : ETags \cup {NoRow}, data : ETags \cup {NoRow}]]
  BY <1>1 DEF Requests
<1>5. ASSUME NEW n \in Requests, n.todo = a.todo, n.q = a.q,
             \A g \in Hrefs : g # h => n.out[g] = a.out[g],
             a.q.op = "query" => n.out[h].etag \in b[h] /\ n.out[h].data \in b[h],
             a.q.op = "multiget" => n.out[h].etag \in b[h] /\ n.out[h].data = n.out[h].etag,
             ask' = [ask EXCEPT ![c] = Done(n)]
      PROVE  Tells(c, b)
  <2>1. \A g \in Hrefs : g = Head(a.todo) =>
            /\ a.q.op = "query" => n.out[g].etag \in b[g] /\ n.out[g].data \in b[g]
            /\ a.q.op = "multiget" => n.out[g].etag \in b[g] /\ n.out[g].data = n.out[g].etag
    BY <1>5
  <2>2. Gathered(n, 2, b)
    <3>1. \A g \in Hrefs : g # Head(a.todo) => n.out[g] = a.out[g]
      BY <1>5
    <3>. HIDE DEF a
    <3>. QED  BY <1>1, <1>5, <2>1, <3>1, GatheredNext
  <2>. QED  BY <1>1, <1>5, <2>2, SetDoneTells
<1>6. CASE card = NoRow /\ a.q.op = "multiget"
  <2>1. ask' = [ask EXCEPT ![c] = Done(a)]
    BY <1>6 DEF GetRow, Set, Wanted
  <2>2. a.out[h].etag \in b[h] /\ a.out[h].data = a.out[h].etag
    BY <1>1, <1>2, <1>3, <1>6 DEF Gathered
  <2>. HIDE DEF a, h
  <2>. QED  BY <1>1, <1>5, <1>6, <2>1, <2>2
<1>7. CASE card = NoRow /\ a.q.op # "multiget"
  <2>1. Reply(c, "missing")
    BY <1>7 DEF GetRow, Wanted
  <2>. QED  BY <1>3, <1>7, <2>1, ReplyTells
<1>8. CASE card # NoRow
  <2> DEFINE R == [etag : ETags \cup {NoRow}, data : ETags \cup {NoRow}]
             row == IF a.q.op = "multiget" THEN [etag |-> card.etag, data |-> card.etag]
                    ELSE [a.out[h] EXCEPT !.data = card.etag]
             out == [a.out EXCEPT ![h] = row]
             n == [a EXCEPT !.out = out]
  <2>1. row \in R /\ row.data = card.etag /\ (a.q.op = "multiget" => row.etag = card.etag)
        /\ (a.q.op # "multiget" => row.etag = a.out[h].etag)
    BY <1>2, <1>3, <1>4, <1>8
  <2>2. out \in [Hrefs -> R] /\ out[h] = row /\ \A g \in Hrefs : g # h => out[g] = a.out[g]
    <3>. HIDE DEF row
    <3>. QED  BY <1>2, <1>4, <2>1
  <2>3. ask' = [ask EXCEPT ![c] = Done(n)]
    <3>1. CASE a.q.op = "multiget"
      <4>1. ask' = [ask EXCEPT ![c] = Done([a EXCEPT !.out[h] = [etag |-> card.etag, data |-> card.etag]])]
        BY <1>8, <3>1 DEF GetRow, Set, Wanted
      <4>2. [a EXCEPT !.out[h] = [etag |-> card.etag, data |-> card.etag]] = n
        BY <1>1, <1>2, <1>4, <3>1 DEF Requests
      <4>. QED  BY <4>1, <4>2
    <3>2. CASE a.q.op # "multiget"
      <4>1. ask' = [ask EXCEPT ![c] = Done([a EXCEPT !.out[h].data = card.etag])]
        BY <1>8, <3>2 DEF GetRow, Set, Wanted
      <4>2. [a EXCEPT !.out[h].data = card.etag] = n
        BY <1>1, <1>2, <1>4, <3>2 DEF Requests
      <4>. QED  BY <4>1, <4>2
    <3>. QED  BY <3>1, <3>2
  <2>. HIDE DEF out
  <2>4. n \in Requests /\ n.todo = a.todo /\ n.q = a.q /\ n.out = out
    BY <1>1, <2>2 DEF Requests
  <2>5. a.q.op = "query" => a.out[h].etag \in b[h]
    BY <1>1, <1>2 DEF Gathered
  <2>. HIDE DEF n, row, a, h
  <2>6. /\ a.q.op = "query" => n.out[h].etag \in b[h] /\ n.out[h].data \in b[h]
        /\ a.q.op = "multiget" => n.out[h].etag \in b[h] /\ n.out[h].data = n.out[h].etag
    BY <1>3, <1>8, <2>1, <2>2, <2>4, <2>5
  <2>. QED  BY <1>5, <2>2, <2>3, <2>4, <2>6
<1>. QED  BY <1>6, <1>7, <1>8

LEMMA BeginTells ==
  ASSUME TypeOK, OneCollection, NEW c \in Readers, NEW q \in Queries, ask[c].pc = "idle",
         NEW b, Watched(b), Begin(c, q), ask \in [Readers -> Requests], ask'[c].pc # "idle"
  PROVE  Tells(c, b)
<1> DEFINE a == [Quiet EXCEPT !.q = q]
<1>1. /\ a \in Requests /\ a.q = q
      /\ \A h \in Hrefs : a.out[h].etag = NoRow /\ a.out[h].data = NoRow
  BY QuietIsRequest DEF Requests, Quiet
<1>2. Found # {}
  BY DEF Begin, Reply, Set, Quiet
<1>. HIDE DEF a
<1>3. ASSUME NEW todo, Set(c, [a EXCEPT !.pc = "next", !.todo = todo]), q.op # "query",
             q.op = "multiget" => \A h \in Hrefs : About(q, h) => \E i \in 1 .. Len(todo) : todo[i] = h
      PROVE  Tells(c, b)
  <2> DEFINE n == [a EXCEPT !.pc = "next", !.todo = todo]
  <2>1. n.pc = "next" /\ n.todo = todo /\ n.q = q /\ n.out = a.out
    BY <1>1 DEF Requests
  <2>2. ask' = [ask EXCEPT ![c] = n]
    BY <1>3 DEF Set
  <2>. HIDE DEF n
  <2>3. Gathered(n, 1, b)
    BY <1>1, <1>3, <2>1 DEF Gathered, Still
  <2>. QED  BY <2>1, <2>2, <2>3 DEF Tells
<1>4. CASE q.op = "propfind" /\ Set(c, [a EXCEPT !.pc = "next", !.todo = Work(q)])
  BY <1>3, <1>4
<1>5. CASE q.op = "home" /\ Set(c, [a EXCEPT !.pc = "next", !.todo = q.props])
  BY <1>3, <1>5
<1>6. CASE q.op = "multiget" /\ Set(c, [a EXCEPT !.pc = "next", !.todo = Distinct(q.hrefs)])
  <2>1. q.hrefs \in Lists(Hrefs)
    BY <1>6, QueryFields
  <2>2. \A h : (\E i \in DOMAIN q.hrefs : q.hrefs[i] = h) <=> \E i \in 1 .. Len(Distinct(q.hrefs)) : Distinct(q.hrefs)[i] = h
    BY <2>1, DistinctHrefs
  <2>3. \A h \in Hrefs : About(q, h) => \E i \in 1 .. Len(Distinct(q.hrefs)) : Distinct(q.hrefs)[i] = h
    BY <1>6, <2>2 DEF About
  <2>. QED  BY <1>3, <1>6, <2>3
<1>7. CASE q.op = "query" /\ \E id \in Found : Set(c, [a EXCEPT !.pc = "rows", !.id = id, !.todo = <<"cards">>])
  <2>1. PICK id \in Found : Set(c, [a EXCEPT !.pc = "rows", !.id = id, !.todo = <<"cards">>])
    BY <1>7
  <2> DEFINE n == [a EXCEPT !.pc = "rows", !.id = id, !.todo = <<"cards">>]
  <2>2. n.pc = "rows" /\ n.id = id
    BY <1>1 DEF Requests
  <2>3. ask' = [ask EXCEPT ![c] = n]
    BY <2>1 DEF Set
  <2>. HIDE DEF n
  <2>4. id \in Live
    BY FoundId
  <2>5. Looked(n, b)
    BY <2>2, <2>4, EtagNowIs DEF Looked, Watched
  <2>. QED  BY <2>2, <2>3, <2>5 DEF Tells
<1>. QED  BY <1>2, <1>4, <1>5, <1>6, <1>7 DEF Begin, a

LEMMA ReaderTells ==
  ASSUME ReportsInv, NEW c \in Readers, ReaderStep(c), NEW b, Told(ask[c], b),
         ask[c].pc = "idle" => Watched(b) /\ ask'[c].pc # "idle"
  PROVE  ask'[c].pc \in {"idle", "insert", "describe"} \/ Tells(c, b)
<1>1. TypeOK /\ OneCollection /\ CardsFinite /\ InOrder(c) /\ ask \in [Readers -> Requests]
  BY DEF ReportsInv, JournalInv, InOrder
<1>2. ASSUME NEW q \in Queries, Ask(c, q) PROVE ask'[c].pc \in {"idle", "insert", "describe"} \/ Tells(c, b)
  <2>1. CASE q.op \in {"mkcol", "proppatch"}
    <3>1. BeginMkcol(c, q) \/ Proppatch(c, q)
      BY <1>2, <2>1 DEF Ask
    <3>2. \/ \E status \in {"exists", "patched", "missing"} : Reply(c, status)
          \/ Set(c, [Quiet EXCEPT !.q = q, !.pc = "insert"])
      BY <3>1 DEF BeginMkcol, Proppatch
    <3>. QED  BY <1>1, <3>2 DEF Reply, Set, Quiet
  <2>2. CASE q.op \notin {"mkcol", "proppatch"}
    <3>1. Begin(c, q) /\ ask[c].pc = "idle"
      BY <1>2, <2>2 DEF Ask
    <3>. QED  BY <1>1, <3>1, BeginTells
  <2>. QED  BY <2>1, <2>2
<1>3. CASE ReadState(c)
  BY <1>1, <1>3, ReadStateTells
<1>4. CASE FindAnew(c)
  BY <1>1, <1>4, FindAnewTells
<1>5. CASE ListRows(c)
  BY <1>1, <1>5, ListRowsTells
<1>6. CASE GetRow(c)
  BY <1>1, <1>6, GetRowTells
<1>7. CASE InsertBook(c) \/ DescribeBook(c)
  <2>1. \/ \E status : Reply(c, status)
        \/ Set(c, [ask[c] EXCEPT !.pc = "describe", !.id = NewBookId])
    BY <1>7 DEF InsertBook, DescribeBook
  <2>2. ASSUME NEW status, Reply(c, status) PROVE ask'[c].pc = "idle"
    BY <1>1, <2>2 DEF Reply, Set, Quiet
  <2>3. ASSUME Set(c, [ask[c] EXCEPT !.pc = "describe", !.id = NewBookId]) PROVE ask'[c].pc = "describe"
    BY <1>1, <2>3 DEF Set, Requests
  <2>. QED  BY <2>1, <2>2, <2>3
<1>8. CASE Fail(c)
  BY <1>1, <1>8 DEF Fail, Reply, Set, Quiet
<1>. QED  BY <1>2, <1>3, <1>4, <1>5, <1>6, <1>7, <1>8 DEF ReaderStep

\* Only MKCOL and PROPPATCH write, and no reader's step changes another's request.
LEMMA ReadersApart ==
  ASSUME ReportsInv, NEW c \in Readers, ReaderStep(c)
  PROVE  /\ \A r \in Readers : r # c => ask'[r] = ask[r]
         /\ UNCHANGED storeVars \/ ask'[c].pc \in {"idle", "describe"}
<1>1. TypeOK /\ OneCollection /\ CardsFinite /\ InOrder(c) /\ ask \in [Readers -> Requests]
  BY DEF ReportsInv, JournalInv, InOrder
<1>2. \E n : ask' = [ask EXCEPT ![c] = n]
  BY DEF ReaderStep, Ask, BeginMkcol, Proppatch, Begin, ReadState, FindAnew, ListRows, GetRow, InsertBook,
         DescribeBook, Fail, Reply, Set
<1>3. ASSUME NEW status, Reply(c, status) PROVE ask'[c].pc = "idle"
  BY <1>1, <1>3 DEF Reply, Set, Quiet
<1>4. ASSUME Set(c, [ask[c] EXCEPT !.pc = "describe", !.id = NewBookId]) PROVE ask'[c].pc = "describe"
  BY <1>1, <1>4 DEF Set, Requests
<1>5. UNCHANGED storeVars \/ ask'[c].pc \in {"idle", "describe"}
  <2>1. ASSUME NEW q \in Queries, Ask(c, q) PROVE UNCHANGED storeVars \/ ask'[c].pc \in {"idle", "describe"}
    BY <1>3, <2>1 DEF Ask, BeginMkcol, Begin, Proppatch
  <2>2. CASE ReadState(c) \/ FindAnew(c) \/ ListRows(c) \/ GetRow(c)
    BY <2>2 DEF ReadState, FindAnew, ListRows, GetRow
  <2>3. CASE InsertBook(c) \/ DescribeBook(c)
    BY <1>3, <1>4, <2>3 DEF InsertBook, DescribeBook
  <2>4. CASE Fail(c)
    BY <2>4 DEF Fail
  <2>. QED  BY <2>1, <2>2, <2>3, <2>4 DEF ReaderStep
<1>. QED  BY <1>1, <1>2, <1>5

LEMMA SameCollection == UNCHANGED storeVars => \A h \in Hrefs : EtagNow(h)' = EtagNow(h)
  BY DEF storeVars, EtagNow, Found, AddressbookOf, Live

TellsInv == \A c \in Readers : Told(ask[c], been[c])

\* Others' writes show in the history, so what a request knows stays true.
LEMMA ToldKept ==
  ASSUME ReportsInv, StepOf, NEW c \in Readers, ask'[c] = ask[c], ask[c].pc # "idle", Told(ask[c], been[c]),
         been'[c] = [h \in Hrefs |-> BeenNow(c, h)]
  PROVE  Told(ask[c], been[c])'
<1> DEFINE a == ask[c]
<1>1. a \in Requests /\ (a.pc \in {"rows", "row"} => a.id \in BookIds)
  BY DEF ReportsInv, Shaped, Reading
<1>2. Watched(been[c])'
  BY DEF Watched, BeenNow
<1>3. ASSUME a.pc \in {"rows", "row"} PROVE \A h \in Hrefs : EtagOf(cards'[a.id][h]) \in been'[c][h]
  <2>1. \A h \in Hrefs : EtagOf(cards[a.id][h]) \in been[c][h]
    BY <1>3 DEF Told, Looked
  <2>2. Shown(a.id)
    BY <1>1, <1>3 DEF StepOf
  <2>. HIDE DEF a
  <2>. QED  BY <2>1, <2>2 DEF Shown, BeenNow
<1>4. ASSUME a.pc \in {"next", "row"} PROVE Gathered(a, 1, been'[c])
  <2>1. \A h \in Hrefs : been[c][h] \subseteq been'[c][h]
    BY DEF BeenNow
  <2>2. Gathered(a, 1, been[c])
    BY <1>4 DEF Told
  <2>. HIDE DEF a
  <2>. QED  BY <2>1, <2>2, GatheredKept
<1>5. (a.pc \in {"rows", "row"} => Looked(a, been[c]))'
  BY <1>3 DEF Looked
<1>6. (a.pc \in {"next", "row"} => Gathered(a, 1, been[c]))'
  BY <1>4
<1>. QED  BY <1>2, <1>5, <1>6 DEF Told

\* A request's own step: what it makes of it is true of the history so far, and the
\* history only grows.
LEMMA ToldNow ==
  ASSUME ReportsInv, StepOf, NEW c \in Readers, ReaderStep(c), ask'[c].pc # "idle", WatchCards,
         ask[c].pc # "idle" => Told(ask[c], been[c])
  PROVE  Told(ask[c], been[c])'
<1>1. been'[c] = [h \in Hrefs |-> IF ask[c].pc = "idle" THEN {EtagNow(h)} ELSE BeenNow(c, h)]
  BY DEF WatchCards
<1>2. UNCHANGED storeVars \/ ask'[c].pc = "describe"
  BY ReadersApart
<1>3. ask \in [Readers -> Requests]
  BY DEF ReportsInv
<1>4. ask'[c].pc = "describe" => ask[c].pc # "idle"
  <2>. SUFFICES ASSUME ask[c].pc = "idle", ask'[c].pc = "describe" PROVE FALSE
    OBVIOUS
  <2>1. PICK q \in Queries : Ask(c, q)
    BY DEF ReaderStep, ReadState, FindAnew, ListRows, GetRow, InsertBook, DescribeBook, Fail
  <2>2. ASSUME NEW n, n.pc # "describe" PROVE ~Set(c, n)
    BY <1>3, <2>2 DEF Set
  <2>3. Quiet.pc = "idle" /\ \A status : [Quiet EXCEPT !.status = status].pc = "idle"
    BY DEF Quiet
  <2>4. ~\E status : Reply(c, status)
    BY <2>2, <2>3 DEF Reply
  <2>5. [Quiet EXCEPT !.q = q, !.pc = "insert"].pc = "insert"
    BY DEF Quiet
  <2>6. ~BeginMkcol(c, q)
    BY <2>2, <2>4, <2>5 DEF BeginMkcol
  <2>7. ~Proppatch(c, q)
    BY <2>4 DEF Proppatch
  <2>8. ~Begin(c, q)
    <3>1. \A todo : [[Quiet EXCEPT !.q = q] EXCEPT !.pc = "next", !.todo = todo].pc = "next"
      BY DEF Quiet
    <3>2. \A id, todo : [[Quiet EXCEPT !.q = q] EXCEPT !.pc = "rows", !.id = id, !.todo = todo].pc = "rows"
      BY DEF Quiet
    <3>. QED  BY <2>2, <2>4, <3>1, <3>2 DEF Begin
  <2>. QED  BY <2>1, <2>6, <2>7, <2>8 DEF Ask
<1>5. Watched(been[c])'
  <2>1. CASE ask[c].pc = "idle"
    <3>1. \A h \in Hrefs : EtagNow(h)' = EtagNow(h)
      BY <1>2, <1>4, <2>1, SameCollection
    <3>. QED  BY <1>1, <2>1, <3>1 DEF Watched
  <2>2. CASE ask[c].pc # "idle"
    BY <1>1, <2>2 DEF Watched, BeenNow
  <2>. QED  BY <2>1, <2>2
<1> DEFINE b == IF ask[c].pc = "idle" THEN been'[c] ELSE been[c]
<1>6. \A h \in Hrefs : b[h] \subseteq been'[c][h]
  BY <1>1 DEF BeenNow
<1>7. CASE ask'[c].pc \in {"insert", "describe"}
  BY <1>5, <1>7 DEF Told
<1>8. CASE ask'[c].pc \notin {"insert", "describe"}
  <2>1. UNCHANGED storeVars
    BY <1>2, <1>8
  <2>2. ask[c].pc = "idle" => Watched(b)
    BY <1>1 DEF Watched
  <2>3. Told(ask[c], b)
    BY DEF Told
  <2>. HIDE DEF b
  <2>4. Tells(c, b)
    BY <1>8, <2>2, <2>3, ReaderTells
  <2>5. PICK n : /\ ask' = [ask EXCEPT ![c] = n]
                 /\ n.pc \in {"rows", "row"} => Looked(n, b)
                 /\ n.pc \in {"next", "row"} => Gathered(n, 1, b)
    BY <2>4 DEF Tells
  <2>6. ask'[c] = n
    BY <1>3, <2>5
  <2>7. cards' = cards
    BY <2>1 DEF storeVars
  <2>8. (ask[c].pc \in {"rows", "row"} => Looked(ask[c], been[c]))'
    BY <1>6, <2>5, <2>6, <2>7 DEF Looked
  <2>9. n.pc \in {"next", "row"} => Gathered(n, 1, been'[c])
    BY <1>6, <2>5, GatheredKept
  <2>10. (ask[c].pc \in {"next", "row"} => Gathered(ask[c], 1, been[c]))'
    BY <2>6, <2>9
  <2>. QED  BY <1>5, <2>8, <2>10 DEF Told
<1>. QED  BY <1>7, <1>8

LEMMA TellsStart == ReportsInit => TellsInv
  BY QuietIsRequest DEF ReportsInit, TellsInv, Told

LEMMA TellsStep == ReportsInv /\ TellsInv /\ [ReportsNext]_vars => TellsInv'
<1>. SUFFICES ASSUME ReportsInv, TellsInv, [ReportsNext]_vars, NEW c \in Readers PROVE Told(ask[c], been[c])'
  BY DEF TellsInv
<1>1. Told(ask[c], been[c]) /\ StepOf
  BY StepIs DEF TellsInv
<1>2. CASE ask'[c].pc = "idle"
  BY <1>2 DEF Told
<1>3. CASE UNCHANGED vars
  <2>1. /\ ask' = ask /\ been' = been /\ cards' = cards
        /\ \A h \in Hrefs : EtagNow(h)' = EtagNow(h)
    BY <1>3, SameCollection DEF vars, reportVars, storeVars
  <2>. QED  BY <1>1, <2>1 DEF Told, Watched, Looked
<1>4. ASSUME WatchCards, ask'[c] = ask[c], ask'[c].pc # "idle" PROVE Told(ask[c], been[c])'
  <2>1. been'[c] = [h \in Hrefs |-> BeenNow(c, h)]
    BY <1>4 DEF WatchCards
  <2>. QED  BY <1>1, <1>4, <2>1, ToldKept
<1>5. CASE Others /\ UNCHANGED ask /\ WatchCards
  BY <1>2, <1>4, <1>5
<1>6. ASSUME NEW r \in Readers, ReaderStep(r), WatchCards PROVE Told(ask[c], been[c])'
  <2>1. CASE r = c
    BY <1>1, <1>2, <1>6, <2>1, ToldNow
  <2>2. CASE r # c
    BY <1>2, <1>4, <1>6, <2>2, ReadersApart
  <2>. QED  BY <2>1, <2>2
<1>. QED  BY <1>3, <1>5, <1>6 DEF ReportsNext

LEMMA TellsInvariant == ReportsSpec => [](ReportsInv /\ TellsInv)
<1>1. ReportsInit => ReportsInv /\ TellsInv
  BY ReportsStart, TellsStart
<1>2. ReportsInv /\ TellsInv /\ [ReportsNext]_vars => (ReportsInv /\ TellsInv)'
  BY ReportsStep, TellsStep
<1>. QED  BY <1>1, <1>2, PTL DEF ReportsSpec

\* Nothing in a listing, a query or a multiget (handler.go) is made up, whatever is written
\* while it runs: each ETag and body is one the card had since the request began, what is
\* left out or missing was absent at some moment, and a query that ends with 404 had lost
\* the card that it was reading.
THEOREM ReportsTrue == ReportsSpec => ReportsAreTrue
<1> DEFINE Step == \A c \in Readers :
                     Answered(c) /\ (ask[c].q.op \in {"query", "multiget"} \/ ask[c].pc = "rows")
                        => AnswerWasTrue(c)
<1>1. ASSUME ReportsInv, TellsInv, [ReportsNext]_vars, NEW c \in Readers,
             Answered(c), ask[c].q.op \in {"query", "multiget"} \/ ask[c].pc = "rows"
      PROVE  AnswerWasTrue(c)
  <2>1. /\ ask \in [Readers -> Requests] /\ Shaped(ask[c]) /\ Told(ask[c], been[c])
        /\ TypeOK /\ OneCollection /\ CardsFinite /\ InOrder(c)
    BY <1>1 DEF ReportsInv, JournalInv, TellsInv, InOrder
  <2>2. ask[c].pc \in {"next", "rows", "row"}
    BY <1>1, <2>1 DEF Answered, Shaped, Requests
  <2>3. Tells(c, been[c])
    <3>1. ReadState(c) \/ FindAnew(c) \/ ListRows(c) \/ GetRow(c) \/ Fail(c)
      BY <1>1, <2>2, Answering DEF InsertBook, DescribeBook
    <3>2. CASE Fail(c)
      BY <3>2, ReplyTells DEF Fail, FailStatus
    <3>. QED  BY <2>1, <3>1, <3>2, ReadStateTells, FindAnewTells, ListRowsTells, GetRowTells
  <2>4. PICK n : /\ ask' = [ask EXCEPT ![c] = n]
                 /\ n.pc = "idle" /\ n.status = "ok" => TrueOf(ask[c].q, n.out, been[c])
                 /\ n.pc = "idle" /\ n.status = "missing" /\ ask[c].q.op = "query" => NoRow \in been[c][Head(ask[c].todo)]
    BY <1>1, <2>3 DEF Tells
  <2>5. ask'[c] = n /\ n.pc = "idle"
    BY <1>1, <2>1, <2>4 DEF Answered
  <2>6. \A h : been[c][h] \subseteq BeenNow(c, h)
    BY DEF BeenNow
  <2>7. CASE n.status = "ok"
    <3>1. TrueOf(ask[c].q, n.out, been[c])
      BY <2>4, <2>5, <2>7
    <3>2. ASSUME NEW h \in Hrefs, ask[c].q.op = "multiget" => h \in Range(ask[c].q.hrefs)
          PROVE  /\ n.out[h].etag \in BeenNow(c, h)
                 /\ ask[c].q.op \in {"query", "multiget"} => n.out[h].data \in BeenNow(c, h)
                 /\ ask[c].q.op = "multiget" => n.out[h].data = n.out[h].etag
      <4>1. About(ask[c].q, h)
        BY <3>2 DEF About, Range
      <4>. QED  BY <2>6, <3>1, <4>1 DEF TrueOf
    <3>. QED  BY <2>5, <2>7, <3>2 DEF AnswerWasTrue
  <2>8. CASE n.status = "missing" /\ ask[c].q.op = "query"
    <3>1. NoRow \in BeenNow(c, Head(ask[c].todo))
      BY <2>4, <2>5, <2>6, <2>8
    <3>. QED  BY <2>5, <2>8, <3>1 DEF AnswerWasTrue
  <2>9. CASE n.status # "ok" /\ ~(n.status = "missing" /\ ask[c].q.op = "query")
    BY <2>5, <2>9 DEF AnswerWasTrue
  <2>. QED  BY <2>7, <2>8, <2>9
<1>2. ReportsInv /\ TellsInv /\ [ReportsNext]_vars => [Step]_vars
  BY <1>1
<1>. QED  BY <1>2, TellsInvariant, PTL DEF ReportsSpec, ReportsAreTrue
=============================================================================
