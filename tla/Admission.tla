------------------------------ MODULE Admission ------------------------------
(***************************************************************************)
(* What the concurrency limiter in front of POST /v1/transaction promises, *)
(* with none of its counters: a request waits, is then served or turned    *)
(* away, and at most Limit requests are being served at any moment.        *)
(* ConcurrencyLimiter is shown to implement this specification.            *)
(***************************************************************************)
EXTENDS Naturals, FiniteSets

CONSTANTS Request, Limit

VARIABLE phase

Phase == {"idle", "waiting", "serving", "served", "rejected"}

Serving == {r \in Request : phase[r] = "serving"}

Init == phase = [r \in Request |-> "idle"]

Arrive(r) == phase[r] = "idle"    /\ phase' = [phase EXCEPT ![r] = "waiting"]
Admit(r)  == /\ phase[r] = "waiting"
             /\ Cardinality(Serving) < Limit
             /\ phase' = [phase EXCEPT ![r] = "serving"]
Reject(r) == phase[r] = "waiting" /\ phase' = [phase EXCEPT ![r] = "rejected"]
Finish(r) == phase[r] = "serving" /\ phase' = [phase EXCEPT ![r] = "served"]

Next == \E r \in Request : Arrive(r) \/ Admit(r) \/ Reject(r) \/ Finish(r)

Spec == Init /\ [][Next]_phase

==============================================================================
