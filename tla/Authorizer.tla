------------------------------ MODULE Authorizer ------------------------------
(***************************************************************************)
(* What the issuer promises of a request, with none of its connections,     *)
(* slots, contexts and mutexes: it moves money at most once, and an answer   *)
(* that leaves it is true, except that a refusal may be wrong when the       *)
(* database connection broke.  IssuerServer is shown to implement this       *)
(* specification; PaymentFlow is built on it.                                *)
(***************************************************************************)
CONSTANT Request

VARIABLES
    seat,     \* how the issuer stands to each request
    effect,   \* the statement of each request at the database
    verdict,  \* what has been decided, and then what has been answered
    unclear   \* the requests whose database connection broke

vars == <<seat, effect, verdict, unclear>>

Seat    == {"idle", "busy", "replied", "dropped"}
Effect  == {"none", "running", "committed", "refused"}
Verdict == {"none", "approved", "refused"}

Init ==
    /\ seat = [r \in Request |-> "idle"]
    /\ effect = [r \in Request |-> "none"]
    /\ verdict = [r \in Request |-> "none"]
    /\ unclear = {}

Sit(r, how)   == seat' = [seat EXCEPT ![r] = how]
Undecided(r)  == seat[r] = "busy" /\ verdict[r] = "none"
Say(r, what)  == verdict' = [verdict EXCEPT ![r] = what]
Forget(R)     == verdict' = [r \in Request |-> IF r \in R THEN "none" ELSE verdict[r]]

Accept(r)   == seat[r] = "idle" /\ Sit(r, "busy") /\ UNCHANGED <<effect, verdict, unclear>>
TurnAway(r) == seat[r] = "idle" /\ Sit(r, "dropped") /\ UNCHANGED <<effect, verdict, unclear>>

Start(r) ==
    /\ Undecided(r) /\ effect[r] = "none"
    /\ effect' = [effect EXCEPT ![r] = "running"]
    /\ UNCHANGED <<seat, verdict, unclear>>

\* The database finishes, whether anybody still waits or not.
Settle(r) ==
    /\ effect[r] = "running"
    /\ \E result \in {"committed", "refused"} : effect' = [effect EXCEPT ![r] = result]
    /\ UNCHANGED <<seat, verdict, unclear>>

\* Nothing can be approved that has not been committed; anything can be
\* refused, by a deadline for instance, but see Reply.
Decide(r, what) ==
    /\ Undecided(r)
    /\ what = "approved" => effect[r] = "committed"
    /\ Say(r, what)
    /\ UNCHANGED <<seat, effect, unclear>>

\* The connection to the database breaks under the statement.
Break(r) ==
    /\ Undecided(r) /\ effect[r] # "none"
    /\ unclear' = unclear \cup {r}
    /\ Say(r, "refused")
    /\ UNCHANGED <<seat, effect>>

Reply(r) ==
    /\ seat[r] = "busy" /\ verdict[r] # "none"
    /\ verdict[r] = "refused" => effect[r] \in {"none", "refused"} \/ r \in unclear
    /\ Sit(r, "replied")
    /\ UNCHANGED <<effect, verdict, unclear>>

Drop(r) ==
    /\ seat[r] = "busy"
    /\ Sit(r, "dropped") /\ Forget({r})
    /\ UNCHANGED <<effect, unclear>>

\* Answers that were on their way are lost; requests being worked on when the
\* process dies get none.
LoseFrom(state, R) ==
    /\ \A r \in R : seat[r] = state
    /\ seat' = [r \in Request |-> IF r \in R THEN "dropped" ELSE seat[r]]
    /\ Forget(R)
    /\ UNCHANGED <<effect, unclear>>

LoseReplies(R) == LoseFrom("replied", R)
Crash          == LoseFrom("busy", {r \in Request : seat[r] = "busy"})

Next ==
    \/ \E r \in Request :
          \/ Accept(r) \/ TurnAway(r) \/ Start(r) \/ Settle(r) \/ Break(r)
          \/ Decide(r, "approved") \/ Decide(r, "refused") \/ Reply(r) \/ Drop(r)
    \/ \E R \in SUBSET Request : LoseReplies(R)
    \/ Crash

Spec == Init /\ [][Next]_vars

==============================================================================
