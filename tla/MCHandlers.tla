----------------------------- MODULE MCHandlers ----------------------------
(* Model values for CardHandlers.tla. *)
EXTENDS CardHandlers, TLC

\* Clients, hrefs, uids and ETags are only compared for equality.
Symmetry ==
    Permutations(Clients) \cup Permutations(Hrefs) \cup Permutations(Uids) \cup Permutations(ETags)

\* What the next steps and the answers depend on: neither the answer a client got to
\* its last request nor the journal, which no request for a card reads.
View == <<users, books, cards, seq, window,
          [c \in Clients |-> IF call[c].pc = "idle" THEN Idle ELSE call[c]]>>
=============================================================================
