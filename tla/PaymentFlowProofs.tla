--------------------------- MODULE PaymentFlowProofs ---------------------------
(***************************************************************************)
(* For any number of payments, slots and crashes: what clients are told,    *)
(* what moves and what is on record agree.  A request is told of, moved and  *)
(* recorded on its own, so the invariant speaks of one request at a time.     *)
(***************************************************************************)
EXTENDS PaymentFlow, TLAPS

------------------------------------------------------------------------------
\* The inductive invariant, of one request.

\* The handler: a client is told last, and only once.
Handled(r) ==
    /\ phase[r] \in {"idle", "waiting"} /\ told[r] = "nothing" => call[r] = "idle"
    /\ phase[r] \in {"waiting", "serving"} => told[r] = "nothing"
    /\ told[r] \in {"busy", "invalid"} => call[r] = "idle"
    /\ told[r] = "notSent" => call[r] = "notSent"
    /\ told[r] \in {"approved", "declined"} => call[r] = "answered"
    /\ told[r] = "nothing" => acquirerRecord[r] = "none"

\* Nothing starts at the issuer before the request is there, and an answer on
\* its way, or taken, is the one the issuer gave.
Carried(r) ==
    /\ call[r] \in {"idle", "notSent"} => msg[r] = "unsent"
    /\ msg[r] \in {"unsent", "out"} => seat[r] = "idle"
    /\ msg[r] = "in" => seat[r] = "replied"
    /\ call[r] = "answered" => seat[r] = "replied" /\ msg[r] = "gone"

\* The issuer: what is decided follows the money, and what is answered is true.
Decided(r) ==
    /\ seat[r] = "idle" => effect[r] = "none" /\ verdict[r] = "none" /\ r \notin unclear
    /\ verdict[r] = "approved" => effect[r] = "committed"
    /\ seat[r] = "replied" => verdict[r] # "none"
    /\ seat[r] = "replied" /\ verdict[r] = "refused" =>
           effect[r] \in {"none", "refused"} \/ r \in unclear

\* The records follow the decision and the answer.
Recorded(r) ==
    /\ seat[r] \in {"idle", "busy"} /\ verdict[r] = "none" => issuerRecord[r] = "none"
    /\ verdict[r] = "approved" => issuerRecord[r] # "DECLINED"
    /\ verdict[r] = "refused" => issuerRecord[r] # "APPROVED"
    /\ issuerRecord[r] = "APPROVED" => effect[r] = "committed"
    /\ acquirerRecord[r] = "APPROVED" => call[r] = "answered" /\ verdict[r] = "approved"
    /\ acquirerRecord[r] = "DECLINED" => call[r] = "answered" /\ verdict[r] = "refused"

\* What a client may rely on.
ToldTrue(r) ==
    /\ told[r] = "approved" => verdict[r] = "approved"
    /\ told[r] = "declined" => verdict[r] = "refused" /\ r \notin unclear

Fine(r) == Handled(r) /\ Carried(r) /\ Decided(r) /\ Recorded(r) /\ ToldTrue(r)

Inv == TypeOK /\ \A r \in Request : Fine(r)

------------------------------------------------------------------------------
\* Both programs start with nothing told, moved or recorded.
LEMMA InvInit == Init => Inv
  BY FlowAssumption
  DEF Init, Inv, TypeOK, Fine, Handled, Carried, Decided, Recorded, ToldTrue, Status,
      Limiter!Init, Limiter!Phase, Switch!Init, Switch!Call, Switch!Msg, Issuer!Init,
      Issuer!Seat, Issuer!Effect, Issuer!Verdict, Client!Told, Client!Definite, Client!Vague,
      FlowAssumption

\* Every step of a program, the network or the database keeps the types.
LEMMA TypeStep == TypeOK /\ [Next]_vars => TypeOK'
<1> SUFFICES ASSUME TypeOK, [Next]_vars PROVE TypeOK'
  OBVIOUS
<1> USE DEF TypeOK, Limiter!Phase, Switch!Call, Switch!Msg, Issuer!Seat, Issuer!Effect,
            Issuer!Verdict, Client!Told, Client!Definite, Client!Vague, Status, limiterVars,
            switchVars, issuerVars, clientVars, recordVars
<1>1. ASSUME NEW r \in Request, Arrive(r) \/ Admit(r) \/ TurnAway(r) PROVE TypeOK'
  BY <1>1 DEF Arrive, Admit, TurnAway, Limiter!Arrive, Limiter!Admit, Limiter!Reject
<1>2. ASSUME NEW r \in Request, RejectMessage(r) \/ CallSwitch(r) PROVE TypeOK'
  BY <1>2 DEF RejectMessage, CallSwitch, Answer, Limiter!Finish, Switch!Begin, Switch!End
<1>3. ASSUME NEW r \in Request,
             CallFailed(r) \/ ReportApproval(r) \/ ReportRefusal(r) \/ ReportNothing(r)
      PROVE  TypeOK'
  BY <1>3
  DEF CallFailed, ReportApproval, ReportRefusal, ReportNothing, Answered, Answer, AcquirerLogs,
      Limiter!Finish
<1>4. ASSUME NEW r \in Request, Deliver(r) PROVE TypeOK'
  BY <1>4
  DEF Deliver, Switch!Send, Switch!Take, Switch!Receive, Switch!NotSent, Switch!GiveUp,
      Switch!End, Switch!Goes
<1>5. ASSUME NEW R \in SUBSET Request, ConnectionsBreak(R) PROVE TypeOK'
  BY <1>5
  DEF ConnectionsBreak, Switch!Lose, Issuer!LoseReplies, Issuer!LoseFrom, Issuer!Forget
<1>6. ASSUME NEW r \in Request, Accept(r) \/ Saturated(r) \/ Execute(r) PROVE TypeOK'
  BY <1>6
  DEF Accept, Saturated, Execute, Issuer!Accept, Issuer!TurnAway, Issuer!Start, Issuer!Settle,
      Issuer!Sit
<1>7. ASSUME NEW r \in Request, Decide(r) PROVE TypeOK'
  BY <1>7 DEF Decide, IssuerLogs, Issuer!Decide, Issuer!Break, Issuer!Say
<1>8. ASSUME NEW r \in Request, Reply(r) \/ Drop(r) PROVE TypeOK'
  BY <1>8
  DEF Reply, Drop, Switch!Reply, Switch!Goes, Issuer!Reply, Issuer!Drop, Issuer!Sit,
      Issuer!Forget
<1>9. ASSUME AcquirerCrashes PROVE TypeOK'
  BY <1>9, FlowAssumption DEF AcquirerCrashes, FlowAssumption
<1>10. ASSUME IssuerCrashes PROVE TypeOK'
  BY <1>10, FlowAssumption
  DEF IssuerCrashes, Issuer!Crash, Issuer!LoseFrom, Issuer!Forget, FlowAssumption
<1>11. ASSUME UNCHANGED vars PROVE TypeOK'
  BY <1>11 DEF vars
<1> QED
  BY <1>1, <1>2, <1>3, <1>4, <1>5, <1>6, <1>7, <1>8, <1>9, <1>10, <1>11
  DEF Next, Handler, Authorization

\* No step of one request, or of all, breaks the invariant of any.
LEMMA FineStep ==
    ASSUME TypeOK, \A r \in Request : Fine(r), [Next]_vars, NEW q \in Request
    PROVE  Fine(q)'
<1> USE DEF TypeOK, Fine, Handled, Carried, Decided, Recorded, ToldTrue, limiterVars, switchVars,
            issuerVars, clientVars, recordVars
<1>1. ASSUME NEW r \in Request, Arrive(r) \/ Admit(r) PROVE Fine(q)'
  BY <1>1 DEF Arrive, Admit, Limiter!Arrive, Limiter!Admit
<1>2. ASSUME NEW r \in Request, TurnAway(r) PROVE Fine(q)'
  BY <1>2 DEF TurnAway, Limiter!Reject
<1>3. ASSUME NEW r \in Request, RejectMessage(r) PROVE Fine(q)'
  BY <1>3 DEF RejectMessage, Answer, Limiter!Finish
<1>4. ASSUME NEW r \in Request, CallSwitch(r) PROVE Fine(q)'
  BY <1>4 DEF CallSwitch, Switch!Begin, Switch!End
<1>5. ASSUME NEW r \in Request, CallFailed(r) PROVE Fine(q)'
  BY <1>5 DEF CallFailed, Answer, AcquirerLogs, Limiter!Finish
<1>6. ASSUME NEW r \in Request, ReportApproval(r) PROVE Fine(q)'
  BY <1>6 DEF ReportApproval, Answered, Answer, AcquirerLogs, Limiter!Finish
<1>7. ASSUME NEW r \in Request, ReportRefusal(r) PROVE Fine(q)'
  BY <1>7 DEF ReportRefusal, Answered, Answer, AcquirerLogs, Limiter!Finish
<1>8. ASSUME NEW r \in Request, ReportNothing(r) PROVE Fine(q)'
  BY <1>8 DEF ReportNothing, Answered, Answer, AcquirerLogs, Limiter!Finish
<1>9. ASSUME NEW r \in Request, Deliver(r) PROVE Fine(q)'
  BY <1>9
  DEF Deliver, Switch!Send, Switch!Take, Switch!Receive, Switch!NotSent, Switch!GiveUp,
      Switch!End, Switch!Goes
<1>10. ASSUME NEW R \in SUBSET Request, ConnectionsBreak(R) PROVE Fine(q)'
  BY <1>10
  DEF ConnectionsBreak, Switch!Lose, Issuer!LoseReplies, Issuer!LoseFrom, Issuer!Forget
<1>11. ASSUME NEW r \in Request, Accept(r) \/ Saturated(r) PROVE Fine(q)'
  BY <1>11 DEF Accept, Saturated, Reached, Issuer!Accept, Issuer!TurnAway, Issuer!Sit
<1>12. ASSUME NEW r \in Request, Execute(r) PROVE Fine(q)'
  BY <1>12 DEF Execute, Issuer!Start, Issuer!Undecided, Issuer!Settle
<1>13. ASSUME NEW r \in Request, Decide(r) PROVE Fine(q)'
  BY <1>13 DEF Decide, IssuerLogs, Issuer!Decide, Issuer!Break, Issuer!Undecided, Issuer!Say
<1>14. ASSUME NEW r \in Request, Reply(r) PROVE Fine(q)'
  BY <1>14 DEF Reply, Switch!Reply, Switch!Goes, Issuer!Reply, Issuer!Sit
<1>15. ASSUME NEW r \in Request, Drop(r) PROVE Fine(q)'
  BY <1>15 DEF Drop, Issuer!Drop, Issuer!Sit, Issuer!Forget
<1>16. ASSUME AcquirerCrashes PROVE Fine(q)'
  BY <1>16 DEF AcquirerCrashes, InAcquirer
<1>17. ASSUME IssuerCrashes PROVE Fine(q)'
  BY <1>17 DEF IssuerCrashes, Issuer!Crash, Issuer!LoseFrom, Issuer!Forget
<1>18. ASSUME UNCHANGED vars PROVE Fine(q)'
  BY <1>18 DEF vars
<1> QED
  BY <1>1, <1>2, <1>3, <1>4, <1>5, <1>6, <1>7, <1>8, <1>9, <1>10, <1>11, <1>12, <1>13, <1>14,
     <1>15, <1>16, <1>17, <1>18
  DEF Next, Handler, Authorization

------------------------------------------------------------------------------
\* The theorems about states.

\* The variables of the composition keep their types.
THEOREM FlowTypeCorrect == Spec => []TypeOK
<1>1. Init => TypeOK
  BY InvInit DEF Inv
<1> QED
  BY <1>1, TypeStep, PTL DEF Spec

\* Every request is handled, carried, decided, recorded and told of as above.
THEOREM FlowInvariant == Spec => []Inv
<1>1. Inv /\ [Next]_vars => Inv'
  BY TypeStep, FineStep DEF Inv
<1> QED
  BY InvInit, <1>1, PTL DEF Spec

\* The records that handleTransaction and HandleHex write never contradict each
\* other or the money, however many payments, deadlines and crashes there are.
THEOREM FlowTrailsAgree == Spec => []TrailsAgree
<1>1. Inv => TrailsAgree
  <2> SUFFICES ASSUME Inv PROVE TrailsAgree
    OBVIOUS
  <2>1. ASSUME NEW r \in Request, acquirerRecord[r] = "APPROVED"
        PROVE  Moved[r] /\ issuerRecord[r] # "DECLINED"
    BY <2>1 DEF Inv, Fine, Decided, Recorded, Moved
  <2>2. ASSUME NEW r \in Request, acquirerRecord[r] = "DECLINED"
        PROVE  issuerRecord[r] # "APPROVED" /\ (Moved[r] => r \in unclear)
    BY <2>2 DEF Inv, Fine, Carried, Decided, Recorded, Moved
  <2>3. ASSUME NEW r \in Request, issuerRecord[r] = "APPROVED" PROVE Moved[r]
    BY <2>3 DEF Inv, Fine, Recorded, Moved
  <2>4. ASSUME NEW r \in Request, issuerRecord[r] = "DECLINED", Moved[r]
        PROVE  r \in unclear \/ seat[r] \in {"busy", "dropped"}
    BY <2>4
    DEF Inv, TypeOK, Fine, Decided, Recorded, Moved, Issuer!Seat, Issuer!Effect, Issuer!Verdict
  <2> QED
    BY <2>1, <2>2, <2>3, <2>4 DEF TrailsAgree
<1> QED
  BY FlowInvariant, <1>1, PTL

------------------------------------------------------------------------------
\* The refinement of PaymentPromise.

\* A step that leaves the statements alone moves no money.
LEMMA MovedKept == ASSUME UNCHANGED effect PROVE UNCHANGED Moved
  BY DEF Moved

\* When a handler answers, its client is told at most that, or nothing more.
LEMMA AnswerTells ==
    ASSUME TypeOK, NEW r \in Request, UNCHANGED effect, told[r] = "nothing",
           NEW what \in Client!Told \ {"nothing"},
           \E heard \in {what, "cut"} : told' = [told EXCEPT ![r] = heard],
           what = "approved" => Moved[r],
           what \in Client!Definite => ~Moved[r]
    PROVE  Client!Next
<1>1. PICK heard \in {what, "cut"} : told' = [told EXCEPT ![r] = heard]
  OBVIOUS
<1>2. heard \in Client!Told \ {"nothing"}
  BY DEF Client!Told, Client!Vague
<1>3. Client!Tell(r, heard)
  BY <1>1, MovedKept DEF Client!Tell, Client!Definite
<1> QED
  BY <1>2, <1>3 DEF Client!Next

\* Both programs start with nobody told and nothing moved.
LEMMA PromiseInit == Init => Client!Init
  BY DEF Init, Issuer!Init, Client!Init, Moved

\* A statement that commits does so for a client that has not been refused.
LEMMA SettleMoves ==
    ASSUME Inv, NEW r \in Request, Issuer!Settle(r), UNCHANGED told
    PROVE  Client!Next \/ UNCHANGED <<told, Moved>>
<1>1. effect[r] = "running" /\ effect \in [Request -> Issuer!Effect]
  BY DEF Inv, TypeOK, Issuer!Settle
<1>2. CASE effect' = [effect EXCEPT ![r] = "refused"]
  BY <1>1, <1>2 DEF Moved
<1>3. CASE effect' = [effect EXCEPT ![r] = "committed"]
  <2>1. Moved' = [Moved EXCEPT ![r] = TRUE] /\ ~Moved[r]
    BY <1>1, <1>3 DEF Moved
  <2>2. told[r] \notin Client!Definite
    BY <1>1 DEF Inv, Fine, Handled, Carried, Decided, ToldTrue, Client!Definite
  <2>3. Client!Move(r)
    BY <2>1, <2>2 DEF Client!Move
  <2> QED
    BY <2>3 DEF Client!Next
<1> QED
  BY <1>2, <1>3 DEF Issuer!Settle

\* A request that is being handled, and whose call the issuer has not seen, has
\* moved nothing.
LEMMA UnsentUnmoved ==
    ASSUME Inv, NEW r \in Request, call[r] \in {"idle", "notSent"}
    PROVE  ~Moved[r]
  BY DEF Inv, Fine, Carried, Decided, Moved

\* What the handlers tell their clients they may tell.
LEMMA HandlerMapped ==
    ASSUME Inv, NEW r \in Request, Handler(r)
    PROVE  Client!Next \/ UNCHANGED <<told, Moved>>
<1>1. TypeOK /\ Fine(r)
  BY DEF Inv
<1> USE DEF Client!Told, Client!Definite, Client!Vague
<1>2. CASE Arrive(r) \/ Admit(r) \/ CallSwitch(r)
  BY <1>2, MovedKept DEF Arrive, Admit, CallSwitch, issuerVars, clientVars
<1>3. CASE TurnAway(r)
  BY <1>1, <1>3, UnsentUnmoved, AnswerTells
  DEF TurnAway, Limiter!Reject, Fine, Handled, issuerVars
<1>4. CASE RejectMessage(r)
  BY <1>1, <1>4, UnsentUnmoved, AnswerTells
  DEF RejectMessage, Answer, Fine, Handled, issuerVars
<1>5. CASE CallFailed(r)
  BY <1>1, <1>5, UnsentUnmoved, AnswerTells DEF CallFailed, Answer, Fine, Handled, issuerVars
<1>6. CASE ReportApproval(r)
  <2>1. Moved[r]
    BY <1>1, <1>6 DEF ReportApproval, Fine, Decided, Moved
  <2> QED
    BY <1>1, <1>6, <2>1, AnswerTells
    DEF ReportApproval, Answered, Answer, Fine, Handled, issuerVars
<1>7. CASE ReportRefusal(r)
  <2>1. PICK what \in {"failed"} \cup (IF r \in unclear THEN {} ELSE {"declined"}) :
            Answer(r, what)
    BY <1>7 DEF ReportRefusal
  <2>2. what = "declined" => ~Moved[r]
    BY <1>1, <1>7, <2>1 DEF ReportRefusal, Answered, Fine, Carried, Decided, Moved
  <2> QED
    BY <1>1, <1>7, <2>1, <2>2, AnswerTells
    DEF ReportRefusal, Answered, Answer, Fine, Handled, issuerVars
<1>8. CASE ReportNothing(r)
  BY <1>1, <1>8, AnswerTells DEF ReportNothing, Answered, Answer, Fine, Handled, issuerVars
<1> QED
  BY <1>2, <1>3, <1>4, <1>5, <1>6, <1>7, <1>8 DEF Handler

\* Every step tells a client, moves money, or is one a client cannot see.
LEMMA StepsMapped == Inv /\ [Next]_vars => [Client!Next]_<<told, Moved>>
<1> SUFFICES ASSUME Inv, [Next]_vars PROVE Client!Next \/ UNCHANGED <<told, Moved>>
  OBVIOUS
<1> USE DEF issuerVars, clientVars
<1>1. ASSUME NEW r \in Request, Handler(r) PROVE Client!Next \/ UNCHANGED <<told, Moved>>
  BY <1>1, HandlerMapped
<1>2. ASSUME NEW r \in Request, Deliver(r) PROVE UNCHANGED <<told, Moved>>
  BY <1>2, MovedKept DEF Deliver
<1>3. ASSUME NEW r \in Request, Execute(r)
      PROVE  Client!Next \/ UNCHANGED <<told, Moved>>
  <2>1. UNCHANGED told
    BY <1>3 DEF Execute
  <2>2. CASE Issuer!Start(r)
    BY <2>1, <2>2 DEF Inv, TypeOK, Issuer!Start, Issuer!Effect, Moved
  <2>3. CASE Issuer!Settle(r)
    BY <2>1, <2>3, SettleMoves
  <2> QED
    BY <1>3, <2>2, <2>3 DEF Execute
<1>4. ASSUME NEW r \in Request, Authorization(r), ~Execute(r) PROVE UNCHANGED <<told, Moved>>
  BY <1>4, MovedKept
  DEF Authorization, Accept, Saturated, Decide, Reply, Drop, Issuer!Accept, Issuer!TurnAway,
      Issuer!Decide, Issuer!Break, Issuer!Reply, Issuer!Drop
<1>5. ASSUME NEW R \in SUBSET Request, ConnectionsBreak(R) PROVE UNCHANGED <<told, Moved>>
  BY <1>5, MovedKept DEF ConnectionsBreak, Issuer!LoseReplies, Issuer!LoseFrom
<1>6. CASE AcquirerCrashes
  <2>1. Client!CutOff(InAcquirer)
    BY <1>6, MovedKept
    DEF AcquirerCrashes, Client!CutOff, InAcquirer, Inv, Fine, Handled
  <2> QED
    BY <2>1 DEF Client!Next, InAcquirer
<1>7. CASE IssuerCrashes
  BY <1>7, MovedKept DEF IssuerCrashes, Issuer!Crash, Issuer!LoseFrom
<1>8. CASE UNCHANGED vars
  BY <1>8, MovedKept DEF vars
<1> QED
  BY <1>1, <1>2, <1>3, <1>4, <1>5, <1>6, <1>7, <1>8 DEF Next

\* A client that is told of a payment has made it, and one that is refused is
\* not debited, then or later, for any number of payments, slots and crashes.
THEOREM FlowKeepsPromise == Spec => KeepsPromise
<1>1. Inv /\ [Next]_vars =>
          [Client!Next]_<<told, [r \in Request |-> effect[r] = "committed"]>>
  BY StepsMapped DEF Moved
<1>2. Init => Client!Init
  BY PromiseInit
<1> QED
  BY <1>1, <1>2, FlowInvariant, PTL DEF Spec, KeepsPromise, Client!Spec, Client!vars, Moved

==============================================================================
