------------------------------ MODULE MCDaemon -----------------------------
(* Model values for Daemon.tla. *)
EXTENDS Daemon

\* CONTACTD_USERS names one user twice.
ThreeSeeds == <<[name |-> "alice", hash |-> "p1"], [name |-> "bob", hash |-> "p1"],
                [name |-> "alice", hash |-> "p2"]>>
=============================================================================
