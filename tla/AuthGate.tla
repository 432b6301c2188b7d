------------------------------ MODULE AuthGate -----------------------------
(***************************************************************************)
(* A request on its way through Basic authentication                       *)
(* (src/internal/server/handler.go) and its two wrappers                   *)
(* (src/internal/daemon/daemon.go):                                        *)
(*     Arrive -> Enter -> Verified [-> DelayOver] -> handler -> Finish     *)
(* The innermost wrapper is a semaphore, a channel that holds one element  *)
(* per password that is being hashed; the outer one keeps a refused        *)
(* request waiting, after the slot was given back.                         *)
(***************************************************************************)
EXTENDS Integers, FiniteSets

CONSTANTS
    Conns,     \* connections; each carries one request at a time
    Limit,     \* AuthMaxConcurrency, the capacity of the channel (0: no cap)
    FailDelay  \* whether AuthFailDelay is set

ASSUME GateAssumption == IsFiniteSet(Conns) /\ Limit \in Nat /\ FailDelay \in BOOLEAN

VARIABLES
    stage, \* [Conns -> where the request on this connection is]
    gone,  \* the connections whose client has hung up: their context is done
    slots  \* len(sem)

gateVars == <<stage, gone, slots>>

Stages == {"none", "waiting", "hashing", "delayed", "handling"}

At(s) == {c \in Conns : stage[c] = s}

Move(c, s) == stage' = [stage EXCEPT ![c] = s]
Answer(c) == Move(c, "none") /\ gone' = gone \ {c}

-----------------------------------------------------------------------------
(* Mutations of the definitions below, each a plausible bug *)

HeldAfterGivingUp == IF Limit = 0 THEN 0 ELSE slots - 1      \* defer before the select
HeldAfterHashing(outcome) ==                                 \* no defer: released on success
    IF Limit > 0 /\ outcome = "ok" THEN slots - 1 ELSE slots

\* Elements in the channel after a request entered, gave up waiting, or was hashed.
HeldAfterEntering == IF Limit = 0 THEN slots ELSE slots + 1
HeldOnGivingUp == slots
HeldOnHashed(outcome) == IF Limit = 0 THEN slots ELSE slots - 1

-----------------------------------------------------------------------------
\* A request without usable credentials is answered at once, which changes nothing;
\* a public path needs none.
Arrive(c) ==
    /\ stage[c] = "none"
    /\ \E s \in {"waiting", "handling"} : Move(c, s)
    /\ UNCHANGED <<gone, slots>>

\* sem <- struct{}{}
Enter(c) ==
    /\ stage[c] = "waiting"
    /\ Limit > 0 => slots < Limit
    /\ Move(c, "hashing")
    /\ slots' = HeldAfterEntering
    /\ UNCHANGED gone

\* <-ctx.Done() while it waits for a slot: 500.
GiveUp(c) ==
    /\ stage[c] = "waiting" /\ c \in gone
    /\ Answer(c)
    /\ slots' = HeldOnGivingUp

\* store.AuthenticateUser returns, and the deferred receive frees the slot: the
\* password matches, does not match, or there is an error (500).
Verified(c, outcome) ==
    /\ stage[c] = "hashing"
    /\ \/ outcome = "ok" /\ Move(c, "handling") /\ UNCHANGED gone
       \/ outcome = "bad" /\ FailDelay /\ Move(c, "delayed") /\ UNCHANGED gone
       \/ outcome = "bad" /\ ~FailDelay /\ Answer(c)
       \/ outcome = "error" /\ Answer(c)
    /\ slots' = HeldOnHashed(outcome)

\* The timer fires (401), or the client hangs up first (500).
DelayOver(c) == stage[c] = "delayed" /\ Answer(c) /\ UNCHANGED slots

Finish(c) == stage[c] = "handling" /\ Answer(c) /\ UNCHANGED slots

HangUp(c) ==
    /\ stage[c] # "none" /\ c \notin gone
    /\ gone' = gone \cup {c}
    /\ UNCHANGED <<stage, slots>>

\* A step of the request on c that is neither its arrival nor its client's.
Proceed(c) ==
    \/ Enter(c)
    \/ GiveUp(c)
    \/ \E outcome \in {"ok", "bad", "error"} : Verified(c, outcome)
    \/ DelayOver(c)
    \/ Finish(c)

GateInit == stage = [c \in Conns |-> "none"] /\ gone = {} /\ slots = 0

-----------------------------------------------------------------------------
(* Properties *)

GateTypeOK ==
    /\ stage \in [Conns -> Stages]
    /\ gone \subseteq Conns
    /\ slots \in Nat

\* The channel holds one element for every password being hashed and no other, on
\* every way out (match, mismatch, error, a client that left while it waited or
\* while its password was hashed), so no slot is lost for good and no more
\* than Limit passwords are hashed at once.
SlotsAreHeld ==
    Limit > 0 => slots = Cardinality(At("hashing")) /\ slots <= Limit
=============================================================================
