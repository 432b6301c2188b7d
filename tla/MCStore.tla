------------------------------ MODULE MCStore ------------------------------
(* Model values for Store.tla. *)
EXTENDS Store, TLC

\* Hrefs, uids and ETags are only compared for equality.
Symmetry == Permutations(Hrefs) \cup Permutations(Uids) \cup Permutations(ETags)
\* Bound: a book made in place of a deleted one, which is there for what that one
\* left behind, gains one revision less.
ShortLives == \A id \in Live : id > 1 => books[id].revision < MaxRev
=============================================================================
