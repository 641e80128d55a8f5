---------------------------- MODULE PaymentPromise ----------------------------
(***************************************************************************)
(* What a client of POST /v1/transaction may conclude from what it is told:  *)
(* an approval means that the money has moved, a definite refusal that it     *)
(* has not and never will, anything else that it may or may not.  Money       *)
(* moves at most once for a request.  PaymentFlow is shown to implement this  *)
(* specification.                                                             *)
(***************************************************************************)
CONSTANT Request

VARIABLES
    told,   \* what the client of each request has been told
    moved   \* whether the money of each request has moved

vars == <<told, moved>>

\* The request was not served or not sent, or the issuer refused it.
Definite == {"busy", "invalid", "notSent", "declined"}
\* Response code 96, an error of the exchange with the issuer, or no answer.
Vague    == {"failed", "unknown", "cut"}
Told     == {"nothing", "approved"} \cup Definite \cup Vague

Init ==
    /\ told = [r \in Request |-> "nothing"]
    /\ moved = [r \in Request |-> FALSE]

Move(r) ==
    /\ ~moved[r] /\ told[r] \notin Definite
    /\ moved' = [moved EXCEPT ![r] = TRUE]
    /\ UNCHANGED told

Tell(r, what) ==
    /\ told[r] = "nothing"
    /\ what = "approved" => moved[r]
    /\ what \in Definite => ~moved[r]
    /\ told' = [told EXCEPT ![r] = what]
    /\ UNCHANGED moved

\* Connections to clients break.
CutOff(R) ==
    /\ \A r \in R : told[r] = "nothing"
    /\ told' = [r \in Request |-> IF r \in R THEN "cut" ELSE told[r]]
    /\ UNCHANGED moved

Next ==
    \/ \E r \in Request : Move(r) \/ \E what \in Told \ {"nothing"} : Tell(r, what)
    \/ \E R \in SUBSET Request : CutOff(R)

Spec == Init /\ [][Next]_vars

==============================================================================
