----------------------------- MODULE MCReports -----------------------------
(* Model values for Reports.tla. *)
EXTENDS Reports, TLC

BookNames == [display : Displays, desc : Descs]
PlainName == [display |-> SlugName, desc |-> Blank]

\* A card keeps its uid, which no report looks at.
OwnUids == {in \in PutInput : in.uid = in.href}

\* ETags are only compared for equality, and so are hrefs, the order of a query's
\* rows being any.
Symmetry == Permutations(Hrefs) \cup Permutations(ETags)

\* What the next steps depend on: not the answers to earlier requests, not the
\* journal, and not what is left of a deleted collection that no request is in.
InUse(id) == id \in Live \/ \E c \in Readers : ask[c].pc # "idle" /\ ask[c].id = id
View ==
    <<books, seq, been,
      [id \in BookIds |-> IF InUse(id) THEN <<cards[id], last[id]>> ELSE <<>>],
      [c \in Readers |-> IF ask[c].pc = "idle" THEN Quiet ELSE ask[c]]>>
=============================================================================
