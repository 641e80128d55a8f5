------------------------------ MODULE PaymentFlow ------------------------------
(***************************************************************************)
(* A payment from the client's POST to the card's balance and back:         *)
(* handleTransaction behind the limiter, the switch, the issuer, and the     *)
(* audit records both sides write.  The parts are the specifications that    *)
(* ConcurrencyLimiter, AcquirerSwitch and IssuerServer implement; what is     *)
(* added here is how the programs join them, and what a crash of either       *)
(* program forgets.  The three deadlines (2 s in front of the handler, 1.6 s   *)
(* in the switch, 3 s at the issuer) can pass in any order at any moment.     *)
(***************************************************************************)
EXTENDS Naturals, FiniteSets

CONSTANTS
    Request,   \* POSTs of clients, each made once
    Limit,     \* CONCURRENT_LIMIT
    MaxCrash   \* bound: crashes of the two programs in a behaviour

ASSUME FlowAssumption == Limit \in Nat \ {0} /\ MaxCrash \in Nat

VARIABLES
    phase,                             \* the limiter
    call, msg,                         \* the switch and the network
    seat, effect, verdict, unclear,    \* the issuer and its database
    told,                              \* what each client was told
    acquirerRecord, issuerRecord,      \* the rows in the two audit tables
    crashes                            \* crashes so far

limiterVars == phase
switchVars  == <<call, msg>>
issuerVars  == <<seat, effect, verdict, unclear>>
clientVars  == told
recordVars  == <<acquirerRecord, issuerRecord>>
vars == <<limiterVars, switchVars, issuerVars, clientVars, recordVars, crashes>>

Limiter == INSTANCE Admission
Switch  == INSTANCE Exchange
Issuer  == INSTANCE Authorizer

Status == {"none", "APPROVED", "DECLINED", "ERROR"}

Init ==
    /\ Limiter!Init /\ Switch!Init /\ Issuer!Init
    /\ told = [r \in Request |-> "nothing"]
    /\ acquirerRecord = [r \in Request |-> "none"]
    /\ issuerRecord = [r \in Request |-> "none"]
    /\ crashes = 0

\* A record on its way to its table may be dropped, fail or die with its
\* program (AuditTrail).
AcquirerLogs(r, status) ==
    \E kept \in {status, "none"} : acquirerRecord' = [acquirerRecord EXCEPT ![r] = kept]
IssuerLogs(r, status) ==
    \E kept \in {status, "none"} : issuerRecord' = [issuerRecord EXCEPT ![r] = kept]

\* The handler answers, to a client that may be gone, and its slot is free.
Answer(r, what) ==
    /\ \E heard \in {what, "cut"} : told' = [told EXCEPT ![r] = heard]
    /\ Limiter!Finish(r)

------------------------------------------------------------------------------
\* Faults that a change to the code could introduce; each breaks a property
\* below.  None is part of Next.

\* The issuer logs the response it started from, not the one it decided.
EagerDecide(r) ==
    /\ \E what \in {"approved", "refused"} : Issuer!Decide(r, what)
    /\ IssuerLogs(r, "APPROVED")
    /\ UNCHANGED <<limiterVars, switchVars, clientVars, acquirerRecord, crashes>>

------------------------------------------------------------------------------
\* The limiter and handleTransaction.

Arrive(r) ==
    /\ told[r] = "nothing" /\ Limiter!Arrive(r)
    /\ UNCHANGED <<switchVars, issuerVars, clientVars, recordVars, crashes>>

Admit(r) ==
    /\ Limiter!Admit(r)
    /\ UNCHANGED <<switchVars, issuerVars, clientVars, recordVars, crashes>>

TurnAway(r) ==
    /\ Limiter!Reject(r)
    /\ \E heard \in {"busy", "cut"} : told' = [told EXCEPT ![r] = heard]
    /\ UNCHANGED <<switchVars, issuerVars, recordVars, crashes>>

\* The body is no message, or cannot be packed: nothing is sent or logged.
RejectMessage(r) ==
    /\ phase[r] = "serving" /\ call[r] = "idle"
    /\ Answer(r, "invalid")
    /\ UNCHANGED <<switchVars, issuerVars, recordVars, crashes>>

CallSwitch(r) ==
    /\ phase[r] = "serving" /\ Switch!Begin(r)
    /\ UNCHANGED <<limiterVars, issuerVars, clientVars, recordVars, crashes>>

\* HandleTerminalRequest returned an error, which names the send or not.
CallFailed(r) ==
    /\ phase[r] = "serving" /\ call[r] \in {"notSent", "unknown"}
    /\ AcquirerLogs(r, "ERROR")
    /\ Answer(r, call[r])
    /\ UNCHANGED <<switchVars, issuerVars, issuerRecord, crashes>>

\* It returned the answer.  Code 96 stands for an error at the issuer, with or
\* without an effect; other refusals are definite.
Answered(r) == phase[r] = "serving" /\ call[r] = "answered"

ReportApproval(r) ==
    /\ Answered(r) /\ verdict[r] = "approved"
    /\ AcquirerLogs(r, "APPROVED")
    /\ Answer(r, "approved")
    /\ UNCHANGED <<switchVars, issuerVars, issuerRecord, crashes>>

ReportRefusal(r) ==
    /\ Answered(r) /\ verdict[r] = "refused"
    /\ AcquirerLogs(r, "DECLINED")
    /\ \E what \in {"failed"} \cup (IF r \in unclear THEN {} ELSE {"declined"}) : Answer(r, what)
    /\ UNCHANGED <<switchVars, issuerVars, issuerRecord, crashes>>

\* The answer cannot be parsed.
ReportNothing(r) ==
    /\ Answered(r)
    /\ AcquirerLogs(r, "ERROR")
    /\ Answer(r, "unknown")
    /\ UNCHANGED <<switchVars, issuerVars, issuerRecord, crashes>>

------------------------------------------------------------------------------
\* The switch and the network.

Deliver(r) ==
    /\ Switch!Send(r) \/ Switch!Take(r) \/ Switch!Receive(r) \/ Switch!NotSent(r) \/ Switch!GiveUp(r)
    /\ UNCHANGED <<limiterVars, issuerVars, clientVars, recordVars, crashes>>

\* Answers the issuer has written are lost with the connection.
ConnectionsBreak(R) ==
    /\ Switch!Lose(R)
    /\ Issuer!LoseReplies({r \in R : seat[r] = "replied"})
    /\ UNCHANGED <<limiterVars, clientVars, recordVars, crashes>>

------------------------------------------------------------------------------
\* The issuer.  It may still read a request whose connection the acquirer has
\* lost, and works on one whose caller has given up.

Reached(r) == msg[r] \in {"issuer", "gone"}

Accept(r) ==
    /\ Reached(r) /\ Issuer!Accept(r)
    /\ UNCHANGED <<limiterVars, switchVars, clientVars, recordVars, crashes>>

Saturated(r) ==
    /\ Reached(r) /\ Issuer!TurnAway(r)
    /\ UNCHANGED <<limiterVars, switchVars, clientVars, recordVars, crashes>>

Execute(r) ==
    /\ Issuer!Start(r) \/ Issuer!Settle(r)
    /\ UNCHANGED <<limiterVars, switchVars, clientVars, recordVars, crashes>>

\* HandleHex decides, packs the response and logs; a response that cannot be
\* packed is decided and dropped with no record.
Decide(r) ==
    /\ \/ Issuer!Decide(r, "approved") /\ IssuerLogs(r, "APPROVED")
       \/ Issuer!Decide(r, "refused")  /\ IssuerLogs(r, "DECLINED")
       \/ Issuer!Break(r)              /\ IssuerLogs(r, "DECLINED")
    /\ UNCHANGED <<limiterVars, switchVars, clientVars, acquirerRecord, crashes>>

Reply(r) ==
    /\ Switch!Reply(r) /\ Issuer!Reply(r)
    /\ UNCHANGED <<limiterVars, clientVars, recordVars, crashes>>

Drop(r) ==
    /\ Issuer!Drop(r)
    /\ UNCHANGED <<limiterVars, switchVars, clientVars, recordVars, crashes>>

------------------------------------------------------------------------------
\* Crashes.  Each program starts again with nothing in memory; statements that
\* run at the database go on.

InAcquirer == {r \in Request : phase[r] \in {"waiting", "serving"}}

AcquirerCrashes ==
    /\ crashes < MaxCrash /\ crashes' = crashes + 1
    /\ told' = [r \in Request |-> IF r \in InAcquirer THEN "cut" ELSE told[r]]
    /\ phase' = [r \in Request |-> IF r \in InAcquirer THEN "idle" ELSE phase[r]]
    /\ call' = [r \in Request |-> IF call[r] = "calling" THEN "unknown" ELSE call[r]]
    /\ UNCHANGED <<msg, issuerVars, recordVars>>

IssuerCrashes ==
    /\ crashes < MaxCrash /\ crashes' = crashes + 1
    /\ Issuer!Crash
    /\ UNCHANGED <<limiterVars, switchVars, clientVars, recordVars>>

------------------------------------------------------------------------------
Handler(r) ==
    \/ Arrive(r) \/ Admit(r) \/ TurnAway(r) \/ RejectMessage(r) \/ CallSwitch(r)
    \/ CallFailed(r) \/ ReportApproval(r) \/ ReportRefusal(r) \/ ReportNothing(r)

Authorization(r) ==
    Accept(r) \/ Saturated(r) \/ Execute(r) \/ Decide(r) \/ Reply(r) \/ Drop(r)

Next ==
    \/ \E r \in Request : Handler(r) \/ Deliver(r) \/ Authorization(r)
    \/ \E R \in SUBSET Request : ConnectionsBreak(R)
    \/ AcquirerCrashes \/ IssuerCrashes

Spec == Init /\ [][Next]_vars

------------------------------------------------------------------------------
Moved == [r \in Request |-> effect[r] = "committed"]

Client == INSTANCE PaymentPromise WITH moved <- Moved

TypeOK ==
    /\ phase \in [Request -> Limiter!Phase]
    /\ call \in [Request -> Switch!Call] /\ msg \in [Request -> Switch!Msg]
    /\ seat \in [Request -> Issuer!Seat] /\ effect \in [Request -> Issuer!Effect]
    /\ verdict \in [Request -> Issuer!Verdict] /\ unclear \subseteq Request
    /\ told \in [Request -> Client!Told]
    /\ acquirerRecord \in [Request -> Status]
    /\ issuerRecord \in [Request -> Status \ {"ERROR"}]
    /\ crashes \in 0 .. MaxCrash

\* Deadlines in any order, late debits, lost answers, broken database
\* connections and crashes of either program: a client is never told of a
\* payment that has not been made, and one that has been refused definitely is
\* not debited, then or later, nor is anybody debited twice.
KeepsPromise == Client!Spec

\* The two audit tables never contradict each other or the money.  Both may
\* miss a payment; the acquirer may have ERROR for one that was made; a DECLINED
\* record is wrong only where no answer went out or the database broke.
TrailsAgree ==
    \A r \in Request :
        /\ acquirerRecord[r] = "APPROVED" => Moved[r] /\ issuerRecord[r] # "DECLINED"
        /\ acquirerRecord[r] = "DECLINED" => issuerRecord[r] # "APPROVED"
                                             /\ (Moved[r] => r \in unclear)
        /\ issuerRecord[r] = "APPROVED"   => Moved[r]
        /\ issuerRecord[r] = "DECLINED" /\ Moved[r] =>
               r \in unclear \/ seat[r] \in {"busy", "dropped"}

==============================================================================
