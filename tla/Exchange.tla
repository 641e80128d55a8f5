------------------------------- MODULE Exchange -------------------------------
(***************************************************************************)
(* What the acquirer's switch promises its callers, with none of its pool,  *)
(* listeners and identifiers: a call sends its request at most once, and    *)
(* ends with the answer to that request, with an error that says it was     *)
(* never sent, or not knowing.  AcquirerSwitch is shown to implement this   *)
(* specification; PaymentFlow is built on it.                               *)
(***************************************************************************)
CONSTANT Request

VARIABLES
    call,  \* how each call of HandleTerminalRequest stands
    msg    \* where the request, or its answer, is

vars == <<call, msg>>

Call == {"idle", "calling", "answered", "notSent", "unknown"}
Msg  == {"unsent", "out", "issuer", "in", "gone"}

Init ==
    /\ call = [r \in Request |-> "idle"]
    /\ msg = [r \in Request |-> "unsent"]

End(r, how)  == call' = [call EXCEPT ![r] = how]
Goes(r, loc) == msg' = [msg EXCEPT ![r] = loc]

\* A fault, not part of Next: an error of the last attempt is reported as if
\* no attempt before it had sent anything.
RashNotSent(r) == call[r] = "calling" /\ End(r, "notSent") /\ UNCHANGED msg

Begin(r) == call[r] = "idle" /\ End(r, "calling") /\ UNCHANGED msg

\* A write that succeeds, even into a connection that is already gone.
Send(r) ==
    /\ call[r] = "calling" /\ msg[r] = "unsent"
    /\ \E loc \in {"out", "gone"} : Goes(r, loc)
    /\ UNCHANGED call

\* The issuer takes the request from the network, and answers it.
Take(r)  == msg[r] = "out" /\ Goes(r, "issuer") /\ UNCHANGED call
Reply(r) == msg[r] = "issuer" /\ Goes(r, "in") /\ UNCHANGED call

\* Connections break, the issuer drops requests, answers come too late.
Lose(R) ==
    /\ \A r \in R : msg[r] \in {"out", "issuer", "in"}
    /\ msg' = [r \in Request |-> IF r \in R THEN "gone" ELSE msg[r]]
    /\ UNCHANGED call

\* The ways a call ends.
Receive(r) ==
    /\ call[r] = "calling" /\ msg[r] = "in"
    /\ End(r, "answered") /\ Goes(r, "gone")

NotSent(r) == call[r] = "calling" /\ msg[r] = "unsent" /\ End(r, "notSent") /\ UNCHANGED msg
GiveUp(r)  == call[r] = "calling" /\ msg[r] # "unsent" /\ End(r, "unknown") /\ UNCHANGED msg

Next ==
    \/ \E r \in Request :
          \/ Begin(r) \/ Send(r) \/ Take(r) \/ Reply(r)
          \/ Receive(r) \/ NotSent(r) \/ GiveUp(r)
    \/ \E R \in SUBSET Request : Lose(R)

Spec == Init /\ [][Next]_vars

==============================================================================
