----------------------------- MODULE MCTransfer ----------------------------
(* Model values for Transfer.tla. *)
EXTENDS Transfer, TLC

\* ETags are only compared for equality, and so are hrefs, which are uids too.
Symmetry == Permutations(Hrefs) \cup Permutations(ETags)

AnyCards == PutInput
=============================================================================
