---------------------------- MODULE DaemonProofs ---------------------------
(***************************************************************************)
(* The semaphore of Basic authentication and the end of a daemon's life,   *)
(* proved for any number of connections and any cap: slots are never lost  *)
(* (SlotsAreHeld) and the store is closed last (ClosesLast), whatever the  *)
(* accounts, the seeds and the crashes.                                    *)
(***************************************************************************)
EXTENDS Daemon, FiniteSetTheorems, TLAPS

-----------------------------------------------------------------------------
(* The gate *)

\* The connections in a stage are as finite as the connections.
LEMMA AtIsFinite == ASSUME NEW s PROVE IsFiniteSet(At(s)) /\ Cardinality(At(s)) \in Nat
  BY GateAssumption, FS_Subset, FS_CardinalityType DEF At

\* Moving one connection adds it to the hashing ones, or removes it.
LEMMA MoveHashing ==
  ASSUME NEW c \in Conns, NEW s \in Stages, stage \in [Conns -> Stages], Move(c, s)
  PROVE  /\ stage' \in [Conns -> Stages]
         /\ s = "hashing" => At("hashing")' = At("hashing") \cup {c}
         /\ s # "hashing" => At("hashing")' = At("hashing") \ {c}
  BY DEF Move, At

\* A connection that was not hashing and does not start leaves them as they were.
LEMMA NotHashing ==
  ASSUME NEW c \in Conns, NEW s \in Stages \ {"hashing"}, stage \in [Conns -> Stages],
         stage[c] # "hashing", Move(c, s)
  PROVE  At("hashing")' = At("hashing")
  BY DEF Move, At

\* One more, or one less, is hashing.
LEMMA CountHashing ==
  ASSUME NEW c \in Conns, NEW s \in Stages, stage \in [Conns -> Stages], Move(c, s)
  PROVE  /\ stage[c] # "hashing" /\ s = "hashing" =>
               Cardinality(At("hashing")') = Cardinality(At("hashing")) + 1
         /\ stage[c] = "hashing" /\ s # "hashing" =>
               /\ Cardinality(At("hashing")') = Cardinality(At("hashing")) - 1
               /\ Cardinality(At("hashing")) > 0
<1>1. c \in At("hashing") <=> stage[c] = "hashing"
  BY DEF At
<1>2. Cardinality(At("hashing") \cup {c}) = Cardinality(At("hashing")) + 1
         \/ c \in At("hashing")
  BY AtIsFinite, FS_AddElement
<1>3. c \in At("hashing") =>
         Cardinality(At("hashing") \ {c}) = Cardinality(At("hashing")) - 1
  BY AtIsFinite, FS_RemoveElement
<1>4. c \in At("hashing") => Cardinality(At("hashing")) > 0
  BY AtIsFinite, FS_EmptySet
<1>5. QED
  BY <1>1, <1>2, <1>3, <1>4, MoveHashing

GateInv == GateTypeOK /\ SlotsAreHeld

\* Every way into the gate and out of it keeps the count.
LEMMA GateStep ==
  ASSUME NEW c \in Conns, GateInv, Arrive(c) \/ Proceed(c) \/ HangUp(c)
  PROVE  GateInv'
<1> USE DEF GateInv, GateTypeOK
<1>0. slots \in Nat /\ Cardinality(At("hashing")) \in Nat /\ Limit \in Nat
  BY AtIsFinite, GateAssumption
<1>1. CASE Arrive(c)
  <2>1. PICK s \in {"waiting", "handling"} : Move(c, s)
    BY <1>1 DEF Arrive
  <2>2. At("hashing")' = At("hashing")
    BY <1>1, <2>1, NotHashing DEF Arrive, Stages
  <2>3. QED
    BY <1>1, <2>1, <2>2, MoveHashing DEF Arrive, SlotsAreHeld, Stages
<1>2. CASE Enter(c)
  <2>1. stage' \in [Conns -> Stages] /\ gone' = gone
    BY <1>2, MoveHashing DEF Enter, Stages
  <2>2. Cardinality(At("hashing")') = Cardinality(At("hashing")) + 1
    BY <1>2, CountHashing DEF Enter, Stages
  <2>3. QED
    BY <1>0, <1>2, <2>1, <2>2 DEF Enter, SlotsAreHeld, HeldAfterEntering
<1>3. CASE GiveUp(c) \/ DelayOver(c) \/ Finish(c)
  <2>1. Move(c, "none") /\ stage[c] # "hashing" /\ slots' = slots /\ gone' \subseteq Conns
    BY <1>3 DEF GiveUp, DelayOver, Finish, Answer, HeldOnGivingUp
  <2>2. At("hashing")' = At("hashing") /\ stage' \in [Conns -> Stages]
    BY <2>1, NotHashing, MoveHashing DEF Stages
  <2>3. QED
    BY <2>1, <2>2 DEF SlotsAreHeld
<1>4. CASE \E outcome \in {"ok", "bad", "error"} : Verified(c, outcome)
  <2>1. PICK outcome \in {"ok", "bad", "error"} : Verified(c, outcome)
    BY <1>4
  <2>2. PICK s \in {"handling", "delayed", "none"} : Move(c, s)
    BY <2>1 DEF Verified, Answer
  <2>3. /\ Cardinality(At("hashing")') = Cardinality(At("hashing")) - 1
        /\ Cardinality(At("hashing")) > 0
    BY <2>1, <2>2, CountHashing DEF Verified, Stages
  <2>4. stage' \in [Conns -> Stages] /\ gone' \subseteq Conns
    BY <2>1, <2>2, MoveHashing DEF Verified, Answer, Stages
  <2>5. slots' = IF Limit = 0 THEN slots ELSE slots - 1
    BY <2>1 DEF Verified, HeldOnHashed
  <2>6. QED
    BY <1>0, <2>3, <2>4, <2>5 DEF SlotsAreHeld
<1>5. CASE HangUp(c)
  BY <1>5 DEF HangUp, SlotsAreHeld, At
<1>6. QED
  BY <1>1, <1>2, <1>3, <1>4, <1>5 DEF Proceed

\* Nobody is in an empty gate.
LEMMA EmptyGate ==
  ASSUME stage = [c \in Conns |-> "none"], gone = {}, slots = 0
  PROVE  GateInv /\ At("none") = Conns
<1>1. At("hashing") = {}
  BY DEF At
<1>2. Cardinality(At("hashing")) = 0
  BY <1>1, FS_EmptySet
<1>3. QED
  BY <1>2, GateAssumption DEF GateInv, GateTypeOK, SlotsAreHeld, Stages, At

-----------------------------------------------------------------------------
(* The goroutines *)

ServeParts == ServeTypeOK /\ Begun /\ Watched /\ Drained /\ Joined

LEMMA ServeInvParts == ServeInv <=> GateInv /\ ServeParts
  BY DEF ServeInv, ServeParts, GateInv, ServeTypeOK

\* A process that is gone leaves nothing to be asked of it.
LEMMA GoneStep ==
  ASSUME Gone, code' \in {-1, 0, 1, 2}
  PROVE  ServeInv'
<1>0. Cardinality(At("hashing")') = 0
  <2>1. At("hashing")' = {}
    BY DEF Gone, At
  <2>2. QED
    BY <2>1, FS_EmptySet
<1>1. GateInv'
  BY <1>0, GateAssumption DEF Gone, GateInv, GateTypeOK, SlotsAreHeld, Stages
<1>2. ServeParts'
  BY <1>1 DEF Gone, ServeParts, ServeTypeOK, GateInv, Begun, Watched, Drained, Joined
<1>3. QED
  BY <1>1, <1>2 DEF ServeInv, ServeParts, GateInv, ServeTypeOK

\* Requests change nothing that the goroutines share, and none starts in a daemon
\* that was drained.
LEMMA RequestsKeepServeInv ==
  ASSUME ServeInv, NEW c \in Conns, RequestStep(c)
  PROVE  ServeInv'
<1>1. GateInv'
  BY GateStep, ServeInvParts DEF RequestStep
<1>2. Drained'
  <2> SUFFICES ASSUME shutdown = "clean" PROVE At("none")' = Conns
    BY DEF Drained, RequestStep, serveVars
  <2>1. stage[c] = "none" /\ (Proceed(c) \/ HangUp(c))
    BY DEF ServeInv, Drained, RequestStep, At
  <2>2. FALSE
    BY <2>1 DEF Proceed, Enter, GiveUp, Verified, DelayOver, Finish, HangUp
  <2>3. QED
    BY <2>2
<1>3. QED
  BY <1>1, <1>2 DEF ServeInv, GateInv, ServeTypeOK, Begun, Watched, Joined, RequestStep, serveVars

\* Each step of main, of the watcher, of the prune loop and of the world.
LEMMA ServeStepKeepsInv ==
  ASSUME ServeInv, ServeStep
  PROVE  ServeInv'
<1> USE DEF ServeParts, ServeTypeOK, GateTypeOK, Begun, Watched, Drained, Joined, At
<1>1. CASE \E c \in Conns : RequestStep(c)
  BY <1>1, RequestsKeepServeInv
<1>2. CASE Exit
  BY <1>2, GoneStep DEF Exit, ServeInv
<1>3. CASE UNCHANGED gateVars /\ (ListenReturns \/ Join \/ CloseStore)
  <2>1. GateInv'
    BY <1>3, ServeInvParts DEF GateInv, SlotsAreHeld, gateVars
  <2>2. CASE ListenReturns
    BY <2>1, <2>2, <1>3, ServeInvParts DEF ListenReturns, GateInv, ServeInv, gateVars
  <2>3. CASE Join
    BY <2>1, <2>3, <1>3, ServeInvParts DEF Join, MayJoin, GateInv, ServeInv, gateVars
  <2>4. CASE CloseStore
    BY <2>1, <2>4, <1>3, ServeInvParts DEF CloseStore, LoopEnded, GateInv, ServeInv, gateVars
  <2>5. QED
    BY <1>3, <2>2, <2>3, <2>4
<1>4. CASE UNCHANGED gateVars /\ WatcherStep
  <2>1. GateInv'
    BY <1>4, ServeInvParts DEF GateInv, SlotsAreHeld, gateVars
  <2>2. CASE WatcherWakes
    BY <2>1, <2>2, <1>4, ServeInvParts DEF WatcherWakes, GateInv, ServeInv, gateVars
  <2>3. CASE BeginShutdown
    BY <2>1, <2>3, <1>4, ServeInvParts DEF BeginShutdown, GateInv, ServeInv, gateVars
  <2>4. CASE EndShutdown
    BY <2>1, <2>4, <1>4, ServeInvParts DEF EndShutdown, Overdue, GateInv, ServeInv, gateVars
  <2>5. QED
    BY <1>4, <2>2, <2>3, <2>4 DEF WatcherStep
<1>5. CASE UNCHANGED gateVars /\ (LoopStep \/ Signal)
  <2>1. GateInv'
    BY <1>5, ServeInvParts DEF GateInv, SlotsAreHeld, gateVars
  <2>2. CASE LoopStep
    BY <2>1, <2>2, <1>5, ServeInvParts
    DEF LoopStep, PruneTick, PruneStatement, LoopEnds, GateInv, ServeInv, gateVars
  <2>3. CASE Signal
    BY <2>1, <2>3, <1>5, ServeInvParts DEF Signal, GateInv, ServeInv, gateVars
  <2>4. QED
    BY <1>5, <2>2, <2>3
<1>6. QED
  BY <1>1, <1>2, <1>3, <1>4, <1>5
  DEF ServeStep, MainStep, WatcherStep, LoopStep, ListenReturns, Join, CloseStore, WatcherWakes,
      BeginShutdown, EndShutdown, PruneTick, PruneStatement, LoopEnds, Signal

-----------------------------------------------------------------------------
(* The daemon *)

LEMMA InitServeInv == ASSUME ServeInit PROVE ServeInv
<1>1. GateInv
  BY EmptyGate DEF ServeInit, GateInit
<1>2. QED
  BY <1>1 DEF ServeInit, GateInit, ServeInv, ServeTypeOK, GateInv, Begun, Watched, Drained, Joined

\* The accounts, the seeds and the start of a life.
LEMMA DaemonStepKeepsInv ==
  ASSUME ServeInv, [DaemonNext]_vars
  PROVE  ServeInv'
<1> USE DEF ServeTypeOK, GateTypeOK, Begun, Watched, Drained, Joined, SlotsAreHeld, At
<1>1. CASE Start
  BY <1>1 DEF Start, ServeInv, gateVars
<1>2. CASE Startup \/ Accounts \/ UNCHANGED vars
  BY <1>2 DEF Startup, Accounts, ServeInv, vars, serveVars, gateVars
<1>3. CASE StartupFailed
  BY <1>3 DEF StartupFailed, ServeInv, gateVars
<1>4. CASE Serving
  BY <1>4 DEF Serving, Listen, ServeInv, gateVars
<1>5. CASE Killed
  BY <1>5, GoneStep DEF Killed, Crash
<1>6. CASE Serves
  BY <1>6, ServeStepKeepsInv DEF Serves
<1>7. QED
  BY <1>1, <1>2, <1>3, <1>4, <1>5, <1>6 DEF DaemonNext

\* The invariant of a daemon's life.
THEOREM ServesInOrder == DaemonSpec => []ServeInv
<1>1. DaemonInit => ServeInv
  BY InitServeInv DEF DaemonInit
<1>2. ServeInv /\ [DaemonNext]_vars => ServeInv'
  BY DaemonStepKeepsInv
<1>3. QED
  BY <1>1, <1>2, PTL DEF DaemonSpec

\* No slot of wrapAuthenticateWithConcurrencyCap is lost, on any way out of it, and no
\* more than Limit passwords are hashed at once, for any Limit and any number of
\* connections.
THEOREM GateIsSound == DaemonSpec => []SlotsAreHeld
<1>1. ServeInv => SlotsAreHeld
  BY DEF ServeInv
<1>2. QED
  BY <1>1, ServesInOrder, PTL

\* When RunServeNamed closes the store the prune loop and the watcher have ended, and if
\* the process is going to say 0 no request is in flight.
THEOREM StoreClosesLast == DaemonSpec => []ClosesLast
<1>1. ServeInv => ClosesLast
  <2> SUFFICES ASSUME ServeInv, main = "closing" PROVE
        prune = "ended" /\ watcher = "done" /\ (code = 0 => At("none") = Conns)
    BY DEF ClosesLast
  <2>1. prune = "ended" /\ watcher = "done"
    BY DEF ServeInv, Joined
  <2>2. code = 0 => shutdown = "clean"
    BY <2>1 DEF ServeInv, ServeTypeOK, Joined, Watched
  <2>3. QED
    BY <2>1, <2>2 DEF ServeInv, Drained
<1>2. QED
  BY <1>1, ServesInOrder, PTL
=============================================================================
