------------------------------- MODULE Daemon ------------------------------
(***************************************************************************)
(* contactd from start to start (RunServeNamed in                          *)
(* src/internal/daemon/daemon.go): the store is seeded, served, drained    *)
(* and closed; the process may be killed anywhere and is started again,    *)
(* with or without --force-seed, while contactctl works on the same file.  *)
(***************************************************************************)
EXTENDS Bootstrap, Serve

vars == <<storeVars, bootVars, serveVars, gateVars>>

\* Bounds: accounts change while no request is in flight, no signal pending and no
\* prune running, and a life in which somebody is to blame for something ends by
\* being killed.  Accounts and requests share no state here.
Calm ==
    /\ At("none") = Conns /\ ~signalled /\ main \in {"down", "starting", "serving"}
    /\ prune \in {"waiting", "ended"}
Undisturbed == blamed = {} /\ touched = {} /\ adding.pc = "idle"

Start ==
    /\ main = "down" /\ main' = "starting"
    /\ \E force \in BOOLEAN : StartDaemon(force)
    /\ UNCHANGED <<watcher, prune, signalled, shutdown, listen, stopped, code, gateVars>>

Startup == main = "starting" /\ SeedStep /\ UNCHANGED <<serveVars, gateVars>>

StartupFailed ==
    /\ boot.pc = "failed" /\ boot' = Off
    /\ main = "starting" /\ main' = "down" /\ code' = 2
    /\ UNCHANGED <<storeVars, adding, touched, blamed>>
    /\ UNCHANGED <<watcher, prune, signalled, shutdown, listen, stopped, gateVars>>

Serving == boot.pc = "done" /\ boot' = Off /\ Listen
           /\ UNCHANGED <<storeVars, adding, touched, blamed>>

Killed == Crash /\ Cut

Accounts ==
    /\ Calm
    /\ CtlStep \/ (main = "serving" /\ ClientStep)
    /\ UNCHANGED <<serveVars, gateVars>>

Serves ==
    /\ Undisturbed
    /\ ServeStep
    /\ UNCHANGED <<storeVars, bootVars>>

DaemonInit == BootInit /\ ServeInit
DaemonNext == Start \/ Startup \/ StartupFailed \/ Serving \/ Killed \/ Accounts \/ Serves
DaemonSpec == DaemonInit /\ [][DaemonNext]_vars
FairSpec == DaemonSpec /\ ServeFairness

-----------------------------------------------------------------------------
\* Every variable has its type: those of the store and the accounts (Bootstrap), and
\* those of the goroutines and the gate (Serve); the channel of the gate
\* never holds less than nothing.
DaemonTypeOK == BootTypeOK /\ ServeTypeOK
=============================================================================
