------------------------------- MODULE Serve -------------------------------
(***************************************************************************)
(* The serving life of contactd (src/internal/daemon/daemon.go), from the  *)
(* moment the store is ready until the process is gone.  Three goroutines, *)
(* and the handlers of AuthGate, share what happens:                       *)
(*   main     serveHTTPGracefully and the deferred calls of RunServeNamed: *)
(*            serving -> returned -> stopping -> closing -> down           *)
(*   watcher  the goroutine that turns a signal into srv.Shutdown:         *)
(*            waiting -> woken -> draining -> done                         *)
(*   prune    startBackgroundPruneLoop: waiting -> age -> revisions -> ... *)
(***************************************************************************)
EXTENDS AuthGate

VARIABLES
    main, watcher, prune,
    signalled, \* sigCtx is done
    shutdown,  \* what srv.Shutdown returned: "none" (not yet), "clean", "late"
    listen,    \* what ListenAndServe returned: "none" (not yet), "closed", "failed"
    stopped,   \* the prune loop's own context is cancelled
    code       \* exit code of the last run, -1 before there is one

serveVars == <<main, watcher, prune, signalled, shutdown, listen, stopped, code>>

Up == main \notin {"down", "starting"}

-----------------------------------------------------------------------------
(* Mutations of the definitions below, each a plausible bug *)

JoinsAtOnce == TRUE          \* shutdownDone not awaited
LoopCancelled == stopped     \* done not awaited
NeverOverdue == FALSE        \* Shutdown without a timeout

-----------------------------------------------------------------------------
(* main *)

\* The listener, the signal context, the prune loop (none if PruneInterval is 0) and
\* the watcher are there.
Listen ==
    /\ main = "starting"
    /\ main' = "serving" /\ watcher' = "waiting"
    /\ prune' \in {"waiting", "ended"}
    /\ UNCHANGED <<signalled, shutdown, listen, stopped, code, gateVars>>

\* ListenAndServe returns as soon as Shutdown begins, or fails; serveDone is closed.
ListenReturns ==
    /\ main = "serving"
    /\ listen' = IF watcher \in {"draining", "done"} THEN "closed" ELSE "failed"
    /\ main' = "returned"
    /\ UNCHANGED <<watcher, prune, signalled, shutdown, stopped, code, gateVars>>

\* <-shutdownDone
MayJoin == watcher = "done"

\* The exit code is decided, and stopPrune, the first deferred call, cancels the loop.
Join ==
    /\ main = "returned" /\ MayJoin
    /\ code' = IF shutdown = "late" \/ listen = "failed" THEN 1 ELSE 0
    /\ main' = "stopping" /\ stopped' = TRUE
    /\ UNCHANGED <<watcher, prune, signalled, shutdown, listen, gateVars>>

\* stopPrune returns when the loop has ended.
LoopEnded == prune = "ended"

\* rt.close, the last deferred call: the store is closed.
CloseStore ==
    /\ main = "stopping" /\ LoopEnded
    /\ main' = "closing"
    /\ UNCHANGED <<watcher, prune, signalled, shutdown, listen, stopped, code, gateVars>>

\* The process is gone, and everything in it.
Gone ==
    /\ main' = "down" /\ watcher' = "off" /\ prune' = "ended"
    /\ signalled' = FALSE /\ stopped' = FALSE
    /\ shutdown' = "none" /\ listen' = "none"
    /\ stage' = [c \in Conns |-> "none"] /\ gone' = {} /\ slots' = 0
Exit == main = "closing" /\ Gone /\ UNCHANGED code
Crash == main # "down" /\ Gone /\ code' = -1

-----------------------------------------------------------------------------
(* The watcher *)

Signal ==
    /\ Up /\ ~signalled
    /\ signalled' = TRUE
    /\ UNCHANGED <<main, watcher, prune, shutdown, listen, stopped, code, gateVars>>

\* Both selects: a signal counts only while serveDone is open.
WatcherWakes ==
    /\ watcher = "waiting"
    /\ \/ main = "serving" /\ signalled /\ watcher' = "woken"
       \/ main # "serving" /\ watcher' = "done"
    /\ UNCHANGED <<main, prune, signalled, shutdown, listen, stopped, code, gateVars>>

\* srv.Shutdown closes the listener, waits until no connection is active, and closes
\* the connections; or it gives up after serveShutdownTimeout.
BeginShutdown ==
    /\ watcher = "woken" /\ watcher' = "draining"
    /\ UNCHANGED <<main, prune, signalled, shutdown, listen, stopped, code, gateVars>>

Overdue == At("none") # Conns
EndShutdown ==
    /\ watcher = "draining" /\ watcher' = "done"
    /\ \/ At("none") = Conns /\ shutdown' = "clean"
       \/ Overdue /\ shutdown' = "late"
    /\ UNCHANGED <<main, prune, signalled, listen, stopped, code, gateVars>>

-----------------------------------------------------------------------------
(* The prune loop: its context is a child of sigCtx *)

\* select picks at random between a tick and a context that is done.
PruneTick ==
    /\ prune = "waiting" /\ prune' = "age"
    /\ UNCHANGED <<main, watcher, signalled, shutdown, listen, stopped, code, gateVars>>

\* pruneOnce: two statements, the second only after the first succeeded.
PruneStatement ==
    /\ \/ prune = "age" /\ prune' \in {"revisions", "waiting"}
       \/ prune = "revisions" /\ prune' = "waiting"
    /\ UNCHANGED <<main, watcher, signalled, shutdown, listen, stopped, code, gateVars>>

LoopEnds ==
    /\ prune = "waiting" /\ (signalled \/ stopped)
    /\ prune' = "ended"
    /\ UNCHANGED <<main, watcher, signalled, shutdown, listen, stopped, code, gateVars>>

-----------------------------------------------------------------------------
\* Requests come in on connections that were accepted, until Shutdown closed them.
RequestStep(c) ==
    /\ Up
    /\ \/ shutdown # "clean" /\ Arrive(c)
       \/ Proceed(c)
       \/ HangUp(c)
    /\ UNCHANGED serveVars

ServeInit ==
    /\ main = "down" /\ watcher = "off" /\ prune = "ended"
    /\ signalled = FALSE /\ stopped = FALSE
    /\ shutdown = "none" /\ listen = "none" /\ code = -1
    /\ GateInit

MainStep == ListenReturns \/ Join \/ CloseStore \/ Exit
WatcherStep == WatcherWakes \/ BeginShutdown \/ EndShutdown
LoopStep == PruneTick \/ PruneStatement \/ LoopEnds
ServeStep ==
    \/ MainStep \/ WatcherStep \/ LoopStep \/ Signal
    \/ \E c \in Conns : RequestStep(c)

\* The goroutines go on, hashing a password ends, and a channel hands a free slot to
\* the sender that has waited longest; select takes the context that is done in the
\* end.  Nothing is assumed of the handlers: they may read and write for
\* minutes (ReadTimeout, WriteTimeout).
ServeFairness ==
    /\ WF_<<serveVars, gateVars>>(ListenReturns /\ listen' = "closed")
    /\ WF_<<serveVars, gateVars>>(Join \/ CloseStore \/ Exit)
    /\ WF_<<serveVars, gateVars>>(WatcherStep)
    /\ WF_<<serveVars, gateVars>>(PruneStatement)
    /\ SF_<<serveVars, gateVars>>(LoopEnds)
    /\ \A c \in Conns :
        /\ SF_<<serveVars, gateVars>>(Up /\ Enter(c) /\ UNCHANGED serveVars)
        /\ WF_<<serveVars, gateVars>>(
              Up /\ (\E o \in {"ok", "bad", "error"} : Verified(c, o)) /\ UNCHANGED serveVars)

-----------------------------------------------------------------------------
(* Properties *)

ServeTypeOK ==
    /\ GateTypeOK
    /\ main \in {"down", "starting", "serving", "returned", "stopping", "closing"}
    /\ watcher \in {"off", "waiting", "woken", "draining", "done"}
    /\ prune \in {"waiting", "age", "revisions", "ended"}
    /\ signalled \in BOOLEAN /\ stopped \in BOOLEAN
    /\ shutdown \in {"none", "clean", "late"}
    /\ listen \in {"none", "closed", "failed"}
    /\ code \in {-1, 0, 1, 2}

\* The store is closed last: no prune statement is still to come, and if the process
\* is going to say 0 no request is in flight (serveHTTPGracefully waits for
\* Shutdown, whose listener has long returned).  A request that is cut off
\* because Shutdown gave up, or the listener failed, makes the code 1.
ClosesLast ==
    main = "closing" =>
        /\ prune = "ended"
        /\ watcher = "done"
        /\ code = 0 => At("none") = Conns

\* What ClosesLast needs to be inductive: what each of the three goroutines knows of
\* the others.
\* Nobody watches before the listener is there, and ListenAndServe has returned once
\* main says so.
Begun ==
    /\ main \in {"down", "starting"} => watcher = "off"
    /\ listen = "none" <=> main \in {"down", "starting", "serving"}
\* Shutdown has an outcome when the watcher is done, unless the listener failed first.
Watched ==
    /\ shutdown # "none" => watcher = "done"
    /\ watcher = "done" => shutdown # "none" \/ listen = "failed"
    /\ listen = "closed" => watcher \in {"draining", "done"}
\* A clean shutdown has left no request, and none comes after it.
Drained == shutdown = "clean" => At("none") = Conns
\* main has joined the watcher and, before it closes the store, the prune loop.
Joined ==
    /\ main \in {"stopping", "closing"} =>
          watcher = "done" /\ (code = 0 => shutdown # "late" /\ listen # "failed")
    /\ main = "closing" => prune = "ended"

ServeInv == ServeTypeOK /\ SlotsAreHeld /\ Begun /\ Watched /\ Drained /\ Joined

\* After a signal the process ends, whatever the handlers do and whenever the signal
\* comes, without a second one.
Stops == signalled ~> main = "down"

\* A request that waits for a slot does not wait for ever.
GateOpens == \A c \in Conns : stage[c] = "waiting" ~> stage[c] # "waiting"
=============================================================================
