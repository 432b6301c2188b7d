------------------------------- MODULE MCSync ------------------------------
(* Model values for SyncService.tla. *)
EXTENDS SyncService

\* Clients and ETags are only compared for equality; hrefs are ordered.
Symmetry == Permutations(Clients) \cup Permutations(ETags)
=============================================================================
