------------------------- MODULE AcquirerSwitchProofs -------------------------
(***************************************************************************)
(* For every number of calls, connections, attempts and identifiers: the   *)
(* switch never hands a call the answer to another one, sends a request at *)
(* most once, and keeps its table of pending calls exact.                  *)
(*                                                                         *)
(* The last part shows that it implements Exchange: its callers cannot     *)
(* tell it from one that sends each request at most once and answers with  *)
(* the answer to it, with a true report that nothing was sent, or with an  *)
(* error that tells neither.                                               *)
(***************************************************************************)
EXTENDS AcquirerSwitch, FiniteSetTheorems, TLAPS

------------------------------------------------------------------------------
\* What becomes of a frame when those in S move on to stage st.
Moved(f, S, st) == IF f \in S THEN [f EXCEPT !.stage = st] ELSE f

\* Every frame after such a move is one of the old frames, with its request and
\* identifier.
LEMMA MovedFrames ==
    ASSUME frames \subseteq Frame, NEW S \in SUBSET frames, NEW st \in Stage,
           frames' = (frames \ S) \cup Move(S, st)
    PROVE  /\ frames' \subseteq Frame
           /\ \A g \in frames' : \E f \in frames :
                 /\ g.req = f.req /\ g.corrID = f.corrID /\ g = Moved(f, S, st)
                 /\ g.stage = IF f \in S THEN st ELSE f.stage
<1>1. ASSUME NEW g \in frames'
      PROVE  \E f \in frames : g = Moved(f, S, st)
  BY DEF Move, Moved
<1>2. ASSUME NEW f \in frames
      PROVE  LET g == Moved(f, S, st) IN
             /\ g \in Frame /\ g.req = f.req /\ g.corrID = f.corrID
             /\ g.stage = IF f \in S THEN st ELSE f.stage
  <2>1. f \in Frame
    OBVIOUS
  <2>2. [f EXCEPT !.stage = st] = [req |-> f.req, corrID |-> f.corrID, attempt |-> f.attempt,
                                   sock |-> f.sock, stage |-> st]
    BY <2>1 DEF Frame
  <2> QED
    BY <2>1, <2>2 DEF Frame, Moved
<1> QED
  BY <1>1, <1>2

\* sendToIssuer's next attempt, or its error, keeps the types.
LEMMA RetryTypes ==
    ASSUME TypeOK, NEW r \in Request, Retry(r)
    PROVE  /\ pc' \in [Request -> CallPc]
           /\ attempt' \in [Request -> 0 .. MaxAttempts - 1]
           /\ outcome' \in [Request -> [kind : Outcome, answer : Request \cup {NoRequest}]]
<1>1. attempt[r] \in 0 .. MaxAttempts - 1 /\ MaxAttempts \in Nat
  BY SwitchAssumption DEF TypeOK, SwitchAssumption
<1>2. CASE attempt[r] < MaxAttempts - 1
  <2>1. attempt[r] + 1 \in 0 .. MaxAttempts - 1
    BY <1>1, <1>2
  <2>2. /\ pc' = [pc EXCEPT ![r] = "pick"]
        /\ attempt' = [attempt EXCEPT ![r] = attempt[r] + 1]
        /\ outcome' = outcome
    BY <1>2 DEF Retry, Goto
  <2>3. pc' \in [Request -> CallPc]
    BY <2>2 DEF TypeOK, CallPc
  <2>4. attempt' \in [Request -> 0 .. MaxAttempts - 1]
    BY <2>1, <2>2 DEF TypeOK
  <2> QED
    BY <2>2, <2>3, <2>4 DEF TypeOK
<1>3. CASE ~(attempt[r] < MaxAttempts - 1)
  <2>1. [kind |-> "sendError", answer |-> NoRequest]
          \in [kind : Outcome, answer : Request \cup {NoRequest}]
    BY DEF Outcome
  <2>2. /\ pc' = [pc EXCEPT ![r] = "cleanup"]
        /\ attempt' = attempt
        /\ outcome' = [outcome EXCEPT ![r] = [kind |-> "sendError", answer |-> NoRequest]]
    BY <1>3 DEF Retry, Return, Goto
  <2>3. pc' \in [Request -> CallPc] /\ attempt' \in [Request -> 0 .. MaxAttempts - 1]
    BY <2>2 DEF TypeOK, CallPc
  <2>4. outcome' \in [Request -> [kind : Outcome, answer : Request \cup {NoRequest}]]
    BY <2>1, <2>2 DEF TypeOK
  <2> QED
    BY <2>3, <2>4
<1> QED
  BY <1>2, <1>3

\* The ways out of the select of HandleTerminalRequest keep the types.
LEMMA ReturnTypes ==
    ASSUME TypeOK, NEW r \in Request, NEW kind \in Outcome,
           NEW answer \in Request \cup {NoRequest}, Return(r, kind, answer)
    PROVE  /\ pc' \in [Request -> CallPc]
           /\ outcome' \in [Request -> [kind : Outcome, answer : Request \cup {NoRequest}]]
<1>1. [kind |-> kind, answer |-> answer] \in [kind : Outcome, answer : Request \cup {NoRequest}]
  OBVIOUS
<1> QED
  BY <1>1 DEF TypeOK, Return, Goto, CallPc

\* What conn.Write sends is a frame.
LEMMA FrameOfTypes ==
    ASSUME TypeOK, NEW r \in Request, NEW st \in Stage, conn[r] \in Socket
    PROVE  FrameOf(r, st) \in Frame
  BY DEF TypeOK, FrameOf, Frame

------------------------------------------------------------------------------
\* A call at the write step has taken a connection from the pool.
Connected == \A r \in Request : pc[r] = "write" => conn[r] \in Socket

\* The switch as NewAcquirerSwitch leaves it has the types.
LEMMA TypeInit == Init => TypeOK /\ Connected
<1> SUFFICES ASSUME Init PROVE TypeOK /\ Connected
  OBVIOUS
<1>1. 0 \in CorrID /\ 0 \in Slot /\ 0 \in 0 .. MaxAttempts - 1
  <2>1. Cardinality(Request) \in Nat
    BY SwitchAssumption, FS_CardinalityType DEF SwitchAssumption
  <2> QED
    BY <2>1, SwitchAssumption DEF CorrID, Slot, SwitchAssumption
<1>2. NothingToRoute \in [answer : Request \cup {NoRequest}, target : Request \cup {NoRequest}]
  BY DEF NothingToRoute
<1>3. [kind |-> "none", answer |-> NoRequest] \in [kind : Outcome, answer : Request \cup {NoRequest}]
  BY DEF Outcome
<1> QED
  BY <1>1, <1>2, <1>3 DEF Init, TypeOK, Connected, CallPc, ListenerPc

\* Every step of a call, a listener, Stop or the network keeps the types.
LEMMA TypeStep == TypeOK /\ Connected /\ [Next]_vars => TypeOK' /\ Connected'
<1> SUFFICES ASSUME TypeOK, Connected, [Next]_vars PROVE TypeOK' /\ Connected'
  OBVIOUS
<1> DEFINE Typed == TypeOK' /\ Connected'
<1>1. ASSUME NEW r \in Request, Begin(r) PROVE Typed
  <2>1. (corrIDCounter + 1) % CorrMod \in CorrID
    BY SwitchAssumption DEF TypeOK, CorrID, SwitchAssumption
  <2> QED
    BY <1>1, <2>1
    DEF Begin, TypeOK, Connected, Goto, CallPc, poolVars, listenerVars, netVars, stopVars
<1>2. ASSUME NEW r \in Request, Pick(r) PROVE Typed
  <2>1. (currentConnIndex + 1) % PoolSize \in Slot
    BY SwitchAssumption DEF TypeOK, Slot, SwitchAssumption
  <2>2. CASE connectionPool[currentConnIndex] = NoSocket
    <3>1. Retry(r) /\ Connected'
      BY <1>2, <2>2 DEF Pick, Retry, Return, Goto, Connected, TypeOK
    <3> QED
      BY <1>2, <2>1, <3>1, RetryTypes
      DEF Pick, TypeOK, listenerVars, mapVars, netVars, stopVars
  <2>3. CASE connectionPool[currentConnIndex] # NoSocket
    BY <1>2, <2>1, <2>3
    DEF Pick, TypeOK, Connected, Goto, CallPc, listenerVars, mapVars, netVars, stopVars
  <2> QED
    BY <2>2, <2>3
<1>3. ASSUME NEW r \in Request, Write(r) PROVE Typed
  <2>1. FrameOf(r, "out") \in Frame
    BY <1>3, FrameOfTypes DEF Write, Connected, Stage
  <2> QED
    BY <1>3, <2>1
    DEF Write, TypeOK, localVars, Connected, Goto, CallPc, listenerVars, poolVars, mapVars, stopVars
<1>4. ASSUME NEW r \in Request, WriteLost(r) PROVE Typed
  <2>1. FrameOf(r, "gone") \in Frame
    BY <1>4, FrameOfTypes DEF WriteLost, Connected, Stage
  <2> QED
    BY <1>4, <2>1
    DEF WriteLost, TypeOK, localVars, Connected, Goto, CallPc, listenerVars, poolVars, mapVars, stopVars
<1>5. ASSUME NEW r \in Request, WriteFails(r) PROVE Typed
  <2>1. Connected'
    BY <1>5 DEF WriteFails, Retry, Return, Goto, Connected, TypeOK
  <2> QED
    BY <1>5, <2>1, RetryTypes
    DEF WriteFails, TypeOK, listenerVars, poolVars, mapVars, stopVars, netVars
<1>6. ASSUME NEW r \in Request, Receive(r) \/ TimesOut(r) \/ Cancelled(r) PROVE Typed
  <2>1. \E kind \in Outcome, answer \in Request \cup {NoRequest} : Return(r, kind, answer)
    BY <1>6 DEF Receive, TimesOut, Cancelled, Outcome, TypeOK
  <2>2. /\ pc' \in [Request -> CallPc]
        /\ outcome' \in [Request -> [kind : Outcome, answer : Request \cup {NoRequest}]]
    BY <2>1, ReturnTypes
  <2>3. Connected' /\ responseChan' \in [Request -> Request \cup {NoRequest}]
    BY <1>6
    DEF Receive, TimesOut, Cancelled, Return, Goto, TypeOK, Connected, localVars
  <2> QED
    BY <1>6, <2>2, <2>3
    DEF Receive, TimesOut, Cancelled, TypeOK, localVars, listenerVars, poolVars, mapVars,
        stopVars, netVars
<1>7. ASSUME NEW r \in Request, Cleanup(r) PROVE Typed
  BY <1>7, SwitchAssumption
  DEF Cleanup, TypeOK, Connected, Goto, CallPc, SwitchAssumption,
      listenerVars, poolVars, stopVars, netVars
<1>8. ASSUME NEW r \in Request, ContextDone(r) PROVE Typed
  BY <1>8
  DEF ContextDone, TypeOK, Connected, callVars, localVars, listenerVars, poolVars, mapVars, stopVars,
      netVars
<1>9. ASSUME NEW i \in Slot, Listener(i) PROVE Typed
  <2> USE DEF TypeOK, Connected, Listen, ListenerPc, callVars, localVars, poolVars, mapVars, stopVars,
              netVars, listenerVars
  <2>1. CASE LoopCheck(i)
    BY <2>1 DEF LoopCheck
  <2>2. CASE Ensure(i)
    BY <2>2 DEF Ensure
  <2>3. CASE Dialed(i)
    <3>1. PICK s \in Socket : /\ sockets' = [sockets EXCEPT ![s] = "open"]
                              /\ connectionPool' = [connectionPool EXCEPT ![i] = s]
      BY <2>3 DEF Dialed
    <3> QED
      BY <2>3, <3>1 DEF Dialed
  <2>4. CASE DialFails(i)
    BY <2>4 DEF DialFails
  <2>5. CASE Fetch(i)
    BY <2>5 DEF Fetch
  <2>6. CASE CheckShutdown(i)
    BY <2>6 DEF CheckShutdown
  <2>7. CASE ReadFrame(i)
    <3>1. PICK f \in On(connectionPool[i], {"in"}) :
             LET target == pendingTransactions[f.corrID] IN
             /\ frames' = (frames \ {f}) \cup Move({f}, "gone")
             /\ IF target = NoRequest
                THEN Listen(i, "check") /\ UNCHANGED routing
                ELSE /\ Listen(i, "send")
                     /\ routing' = [routing EXCEPT ![i] = [answer |-> f.req, target |-> target]]
      BY <2>7 DEF ReadFrame
    <3>2. {f} \in SUBSET frames /\ f.req \in Request /\ f.corrID \in CorrID
      BY <3>1 DEF On, Frame
    <3>3. frames' \subseteq Frame
      BY <3>1, <3>2, MovedFrames DEF Stage
    <3>4. pendingTransactions[f.corrID] \in Request \cup {NoRequest}
      BY <3>2
    <3>5. listenerPc' \in [Slot -> ListenerPc]
      BY <3>1
    <3>6. routing' \in [Slot -> [answer : Request \cup {NoRequest},
                                 target : Request \cup {NoRequest}]]
      BY <3>1, <3>2, <3>4
    <3> QED
      BY <2>7, <3>3, <3>5, <3>6 DEF ReadFrame
  <2>8. CASE ReadTimesOut(i)
    BY <2>8 DEF ReadTimesOut
  <2>9. CASE ReadFails(i)
    BY <2>9 DEF ReadFails
  <2>10. CASE Send(i)
    <3>1. routing[i].answer \in Request \cup {NoRequest}
      OBVIOUS
    <3> QED
      BY <2>10, <3>1 DEF Send, NothingToRoute
  <2>11. CASE CloseConnection(i)
    BY <2>11 DEF CloseConnection
  <2> QED
    BY <1>9, <2>1, <2>2, <2>3, <2>4, <2>5, <2>6, <2>7, <2>8, <2>9, <2>10, <2>11
    DEF Listener
<1>10. ASSUME StopBegins PROVE Typed
  BY <1>10
  DEF StopBegins, TypeOK, Connected, callVars, localVars, listenerVars, poolVars, mapVars, netVars
<1>11. ASSUME CloseAllConnections PROVE Typed
  <2>1. frames' \subseteq Frame
    BY <1>11, MovedFrames DEF CloseAllConnections, TypeOK, Stage
  <2> QED
    BY <1>11, <2>1
    DEF CloseAllConnections, TypeOK, Connected, callVars, localVars, listenerVars, mapVars
<1>12. ASSUME NEW s \in Socket, PeerResets(s) PROVE Typed
  <2>1. frames' \subseteq Frame
    BY <1>12, MovedFrames DEF PeerResets, TypeOK, On, Stage
  <2> QED
    BY <1>12, <2>1
    DEF PeerResets, TypeOK, Connected, callVars, localVars, listenerVars, poolVars, mapVars, stopVars
<1>13. ASSUME NEW f \in frames, NEW from, NEW to \in Stage, Forward(f, from, to) PROVE Typed
  <2>1. frames' \subseteq Frame
    BY <1>13, MovedFrames DEF Forward, TypeOK
  <2> QED
    BY <1>13, <2>1
    DEF Forward, TypeOK, Connected, callVars, localVars, listenerVars, poolVars, mapVars, stopVars
<1>14. ASSUME UNCHANGED vars PROVE Typed
  BY <1>14
  DEF vars, TypeOK, Connected, callVars, localVars, listenerVars, poolVars, mapVars, stopVars, netVars
<1> QED
  BY <1>1, <1>2, <1>3, <1>4, <1>5, <1>6, <1>7, <1>8, <1>9, <1>10, <1>11, <1>12, <1>13, <1>14
  DEF Next, Handler, IssuerReads, IssuerAnswers, IssuerDeclines, Stage

\* Every variable of the switch keeps its type.
THEOREM SwitchTypeCorrect == Spec => []TypeOK
<1>1. Spec => [](TypeOK /\ Connected)
  BY TypeInit, TypeStep, PTL DEF Spec
<1> QED
  BY <1>1, PTL

------------------------------------------------------------------------------
\* The inductive invariant behind the safety properties.

Begun     == {r \in Request : pc[r] # "idle"}
BeforeSend == {"idle", "pick", "write"}

\* Identifiers are handed out once each: the counter has counted the calls
\* that began, so it has not wrapped.
IdsUnique ==
    /\ corrIDCounter = Cardinality(Begun)
    /\ \A r \in Begun : corrID[r] \in 1 .. corrIDCounter
    /\ \A r, q \in Begun : corrID[r] = corrID[q] => r = q

\* A frame carries the identifier of its call, which has stopped sending.
FramesFaithful ==
    /\ \A f \in frames : /\ f.corrID = corrID[f.req]
                          /\ pc[f.req] \notin BeforeSend
                          /\ outcome[f.req].kind # "sendError"
    /\ \A f, g \in frames : f.req = g.req => f = g
    /\ \A r \in Request : pc[r] \in BeforeSend \cup {"wait"} => outcome[r].kind = "none"

\* A listener about to send found the channel the answer is for, alone.
AnswersRouted ==
    /\ \A i \in Slot : routing[i].answer = routing[i].target
    /\ \A i \in Slot : routing[i].target # NoRequest <=> listenerPc[i] = "send"
    /\ \A i, j \in Slot : routing[i].target = routing[j].target => i = j \/ listenerPc[i] # "send"

\* No answer for r has been read from a socket yet.
Quiet(r) == responseChan[r] = NoRequest /\ \A i \in Slot : routing[i].target # r

\* An answer is on the wire, with a listener or in the channel: never in two places.
OneAnswer ==
    /\ \A r \in Request : pc[r] \in BeforeSend => Quiet(r)
    /\ \A f \in frames : f.stage # "gone" => Quiet(f.req)
    /\ \A i \in Slot : listenerPc[i] = "send" => responseChan[routing[i].target] = NoRequest

Inv == /\ TypeOK /\ Connected
       /\ IdsUnique /\ PendingExact /\ FramesFaithful /\ AnswersRouted
       /\ OneAnswer /\ NoCrossDelivery

------------------------------------------------------------------------------
\* What a step may do to the progress of one call.
CallShape(r) ==
    \/ pc'[r] = pc[r] /\ outcome'[r] = outcome[r]
    \/ pc[r] = "idle" /\ pc'[r] = "pick" /\ outcome'[r] = outcome[r]
    \/ pc[r] \in {"pick", "write"} /\ pc'[r] \in {"pick", "write"} /\ outcome'[r] = outcome[r]
    \/ pc[r] = "write" /\ pc'[r] = "wait" /\ outcome'[r] = outcome[r]
    \/ /\ pc[r] \in {"pick", "write"} /\ pc'[r] = "cleanup"
       /\ outcome'[r].kind = "sendError"
    \/ /\ pc[r] = "wait" /\ pc'[r] = "cleanup"
       /\ \/ outcome'[r].kind \in {"timeout", "cancelled"}
          \/ outcome'[r].kind = "response" /\ outcome'[r].answer = responseChan[r]
                /\ responseChan[r] # NoRequest
    \/ pc[r] = "cleanup" /\ pc'[r] = "done" /\ outcome'[r] = outcome[r]

\* What a step may do to the place and the outcome of a call.
LEMMA CallShapes == TypeOK /\ [Next]_vars => \A r \in Request : CallShape(r)
<1> SUFFICES ASSUME TypeOK, [Next]_vars PROVE \A r \in Request : CallShape(r)
  OBVIOUS
<1> DEFINE Shaped == \A r \in Request : CallShape(r)
<1>1. ASSUME NEW r \in Request, Begin(r) \/ Write(r) \/ WriteLost(r) \/ Cleanup(r) PROVE Shaped
  BY <1>1 DEF Begin, Write, WriteLost, Cleanup, Goto, CallShape, TypeOK
<1>2. ASSUME NEW r \in Request, Pick(r) \/ WriteFails(r) PROVE Shaped
  BY <1>2 DEF Pick, WriteFails, Retry, Return, Goto, CallShape, TypeOK
<1>3. ASSUME NEW r \in Request, Receive(r) \/ TimesOut(r) \/ Cancelled(r) PROVE Shaped
  BY <1>3 DEF Receive, TimesOut, Cancelled, Return, Goto, CallShape, TypeOK
<1>4. ASSUME UNCHANGED <<pc, outcome>> PROVE Shaped
  BY <1>4 DEF CallShape
<1>5. ASSUME NEW r \in Request, ContextDone(r) PROVE Shaped
  BY <1>4, <1>5 DEF ContextDone, callVars
<1>6. ASSUME NEW i \in Slot, Listener(i) PROVE Shaped
  BY <1>4, <1>6
  DEF Listener, LoopCheck, Ensure, Dialed, DialFails, Fetch, CheckShutdown, ReadFrame,
      ReadTimesOut, ReadFails, Send, CloseConnection, callVars
<1>7. ASSUME StopBegins \/ CloseAllConnections PROVE Shaped
  BY <1>4, <1>7 DEF StopBegins, CloseAllConnections, callVars
<1>8. ASSUME NEW s \in Socket, PeerResets(s) PROVE Shaped
  BY <1>4, <1>8 DEF PeerResets, callVars
<1>9. ASSUME NEW f \in frames, NEW from, NEW to, Forward(f, from, to) PROVE Shaped
  BY <1>4, <1>9 DEF Forward, callVars
<1>10. ASSUME UNCHANGED vars PROVE Shaped
  BY <1>4, <1>10 DEF vars, callVars
<1> QED
  BY <1>1, <1>2, <1>3, <1>5, <1>6, <1>7, <1>8, <1>9, <1>10
  DEF Next, Handler, IssuerReads, IssuerAnswers, IssuerDeclines

\* Only Begin hands out identifiers; only Begin and Cleanup touch the table.
LEMMA TableShapes ==
    TypeOK /\ [Next]_vars =>
        \/ \E r \in Request : Begin(r)
        \/ /\ UNCHANGED <<corrIDCounter, corrID>>
           /\ Begun' = Begun
           /\ \/ \E r \in Request : Cleanup(r)
              \/ /\ UNCHANGED pendingTransactions
                 /\ \A r \in Request : pc[r] \in {"idle", "done"} <=> pc'[r] \in {"idle", "done"}
<1> SUFFICES ASSUME TypeOK, [Next]_vars, ~\E r \in Request : Begin(r)
             PROVE  /\ UNCHANGED <<corrIDCounter, corrID>>
                    /\ Begun' = Begun
                    /\ \/ \E r \in Request : Cleanup(r)
                       \/ /\ UNCHANGED pendingTransactions
                          /\ \A r \in Request :
                                pc[r] \in {"idle", "done"} <=> pc'[r] \in {"idle", "done"}
  OBVIOUS
<1> DEFINE Kept == /\ UNCHANGED <<corrIDCounter, corrID, pendingTransactions>>
                   /\ \A r \in Request : pc[r] \in {"idle", "done"} <=> pc'[r] \in {"idle", "done"}
                   /\ \A r \in Request : pc[r] = "idle" <=> pc'[r] = "idle"
           Cleaned == /\ UNCHANGED <<corrIDCounter, corrID>>
                      /\ \A r \in Request : pc[r] = "idle" <=> pc'[r] = "idle"
                      /\ \E r \in Request : Cleanup(r)
<1>1. ASSUME NEW r \in Request, Cleanup(r) PROVE Cleaned
  BY <1>1 DEF Cleanup, Goto, TypeOK, localVars
<1>2. ASSUME NEW r \in Request, Write(r) \/ WriteLost(r) PROVE Kept
  BY <1>2 DEF Write, WriteLost, Goto, TypeOK, localVars, mapVars
<1>3. ASSUME NEW r \in Request, Pick(r) \/ WriteFails(r) PROVE Kept
  BY <1>3 DEF Pick, WriteFails, Retry, Return, Goto, TypeOK, mapVars
<1>4. ASSUME NEW r \in Request, Receive(r) \/ TimesOut(r) \/ Cancelled(r) PROVE Kept
  BY <1>4 DEF Receive, TimesOut, Cancelled, Return, Goto, TypeOK, localVars, mapVars
<1>5. ASSUME NEW r \in Request, ContextDone(r) PROVE Kept
  BY <1>5 DEF ContextDone, callVars, localVars, mapVars
<1>6. ASSUME NEW i \in Slot, Listener(i) PROVE Kept
  BY <1>6
  DEF Listener, LoopCheck, Ensure, Dialed, DialFails, Fetch, CheckShutdown, ReadFrame,
      ReadTimesOut, ReadFails, Send, CloseConnection, callVars, localVars, mapVars
<1>7. ASSUME StopBegins \/ CloseAllConnections PROVE Kept
  BY <1>7 DEF StopBegins, CloseAllConnections, callVars, localVars, mapVars
<1>8. ASSUME NEW s \in Socket, PeerResets(s) PROVE Kept
  BY <1>8 DEF PeerResets, callVars, localVars, mapVars
<1>9. ASSUME NEW f \in frames, NEW from, NEW to, Forward(f, from, to) PROVE Kept
  BY <1>9 DEF Forward, callVars, localVars, mapVars
<1>10. ASSUME UNCHANGED vars PROVE Kept
  BY <1>10 DEF vars, callVars, localVars, mapVars
<1>11. Kept \/ Cleaned
  BY <1>1, <1>2, <1>3, <1>4, <1>5, <1>6, <1>7, <1>8, <1>9, <1>10
  DEF Next, Handler, IssuerReads, IssuerAnswers, IssuerDeclines
<1>12. Begun' = Begun
  BY <1>11 DEF Begun
<1> QED
  BY <1>11, <1>12

------------------------------------------------------------------------------
\* The calls that have begun can be counted, and are at most all calls.
LEMMA CountingCalls ==
    IsFiniteSet(Begun) /\ Cardinality(Begun) \in Nat /\ Cardinality(Begun) <= Cardinality(Request)
<1>1. Begun \in SUBSET Request
  BY DEF Begun
<1> QED
  BY <1>1, SwitchAssumption, FS_Subset, FS_CardinalityType DEF SwitchAssumption

\* The next identifier is new: fewer calls have begun than there are identifiers.
LEMMA NextId ==
    ASSUME TypeOK, IdsUnique, NEW r \in Request, Begin(r)
    PROVE  /\ (corrIDCounter + 1) % CorrMod = corrIDCounter + 1
           /\ corrIDCounter \in Nat
           /\ corrIDCounter' = corrIDCounter + 1
           /\ Cardinality(Begun') = corrIDCounter + 1
           /\ Begun' = Begun \cup {r} /\ r \notin Begun
           /\ corrID' = [corrID EXCEPT ![r] = corrIDCounter + 1]
<1>1. Begun' = Begun \cup {r} /\ r \notin Begun
  BY DEF Begin, Goto, Begun, TypeOK
<1>2. Cardinality(Begun') = Cardinality(Begun) + 1
  BY <1>1, CountingCalls, FS_AddElement
<1>3. Cardinality(Begun') <= Cardinality(Request)
  <2>1. Begun' \in SUBSET Request
    BY DEF Begun
  <2> QED
    BY <2>1, SwitchAssumption, FS_Subset DEF SwitchAssumption
<1>4. /\ corrIDCounter \in Nat /\ CorrMod \in Nat /\ Cardinality(Request) \in Nat
      /\ Cardinality(Request) < CorrMod
      /\ corrIDCounter + 1 = Cardinality(Begun')
  BY <1>2, SwitchAssumption, FS_CardinalityType DEF TypeOK, CorrID, SwitchAssumption, IdsUnique
<1>5. corrIDCounter + 1 < CorrMod
  BY <1>3, <1>4
<1>6. (corrIDCounter + 1) % CorrMod = corrIDCounter + 1
  BY <1>4, <1>5
<1> QED
  BY <1>1, <1>4, <1>6 DEF Begin

\* corrIDCounter.Add never hands out an identifier that another call has.
LEMMA IdsStep == TypeOK /\ IdsUnique /\ [Next]_vars => IdsUnique'
<1> SUFFICES ASSUME TypeOK, IdsUnique, [Next]_vars PROVE IdsUnique'
  OBVIOUS
<1>1. ASSUME NEW r \in Request, Begin(r) PROVE IdsUnique'
  <2>1. \A q \in Begun : corrID'[q] = corrID[q] /\ corrID'[q] \in 1 .. corrIDCounter
    BY <1>1, NextId DEF IdsUnique, TypeOK, Begun
  <2>2. corrID'[r] = corrIDCounter + 1
    BY <1>1, NextId DEF TypeOK
  <2> QED
    BY <1>1, <2>1, <2>2, NextId DEF IdsUnique
<1>2. ASSUME UNCHANGED <<corrIDCounter, corrID>>, Begun' = Begun PROVE IdsUnique'
  BY <1>2 DEF IdsUnique
<1> QED
  BY <1>1, <1>2, TableShapes

\* Only the Store and the deferred Delete of its own call change an entry.
LEMMA PendingStep == TypeOK /\ Connected /\ IdsUnique /\ PendingExact /\ [Next]_vars => PendingExact'
<1> SUFFICES ASSUME TypeOK, Connected, IdsUnique, PendingExact, [Next]_vars PROVE PendingExact'
  OBVIOUS
<1>1. ASSUME NEW r \in Request, Begin(r) PROVE PendingExact'
  <2> DEFINE c == corrIDCounter + 1
  <2>1. /\ pendingTransactions' = [pendingTransactions EXCEPT ![c] = r]
        /\ corrID' = [corrID EXCEPT ![r] = c]
        /\ pc' = [pc EXCEPT ![r] = "pick"] /\ pc[r] = "idle"
        /\ corrIDCounter \in Nat
    BY <1>1, NextId DEF Begin, Goto
  <2>2. \A q \in Request : pc[q] # "idle" => corrID[q] # c
    BY <2>1 DEF IdsUnique, Begun
  <2>3. c \in CorrID
    <3>1. corrIDCounter' = c /\ corrIDCounter' \in CorrID
      BY <1>1, NextId, TypeStep DEF TypeOK
    <3> QED
      BY <3>1
  <2> QED
    BY <2>1, <2>2, <2>3, SwitchAssumption DEF PendingExact, TypeOK, SwitchAssumption
<1>2. ASSUME NEW r \in Request, Cleanup(r), UNCHANGED corrID PROVE PendingExact'
  <2>1. \A q \in Request : q # r /\ pc[q] # "idle" => corrID[q] # corrID[r]
    BY <1>2 DEF IdsUnique, Begun, Cleanup
  <2>2. /\ pendingTransactions' = [pendingTransactions EXCEPT ![corrID[r]] = NoRequest]
        /\ pc' = [pc EXCEPT ![r] = "done"] /\ pc[r] = "cleanup"
    BY <1>2 DEF Cleanup, Goto
  <2> QED
    BY <1>2, <2>1, <2>2, SwitchAssumption DEF PendingExact, TypeOK, SwitchAssumption
<1>3. ASSUME UNCHANGED <<corrID, pendingTransactions>>,
             \A r \in Request : pc[r] \in {"idle", "done"} <=> pc'[r] \in {"idle", "done"}
      PROVE  PendingExact'
  BY <1>3 DEF PendingExact
<1> QED
  BY <1>1, <1>2, <1>3, TableShapes

------------------------------------------------------------------------------
\* What a step may do to the frames: nothing, add the frame of the call that
\* stops writing, or move some on; a lost frame stays lost.
LEMMA FrameShapes ==
    TypeOK /\ [Next]_vars =>
        \/ UNCHANGED frames
        \/ \E r \in Request : /\ pc[r] = "write" /\ pc'[r] = "wait"
                             /\ \E st \in Stage : frames' = frames \cup {FrameOf(r, st)}
        \/ \E S \in SUBSET frames, st \in Stage :
              /\ frames' = (frames \ S) \cup Move(S, st)
              /\ st # "gone" => \A f \in S : f.stage # "gone"
<1> SUFFICES ASSUME TypeOK, [Next]_vars
             PROVE  \/ UNCHANGED frames
                    \/ \E r \in Request :
                          /\ pc[r] = "write" /\ pc'[r] = "wait"
                          /\ \E st \in Stage : frames' = frames \cup {FrameOf(r, st)}
                    \/ \E S \in SUBSET frames, st \in Stage :
                          /\ frames' = (frames \ S) \cup Move(S, st)
                          /\ st # "gone" => \A f \in S : f.stage # "gone"
  OBVIOUS
<1> DEFINE Sent == \E r \in Request : /\ pc[r] = "write" /\ pc'[r] = "wait"
                                     /\ \E st \in Stage : frames' = frames \cup {FrameOf(r, st)}
           Advanced == \E S \in SUBSET frames, st \in Stage :
                          /\ frames' = (frames \ S) \cup Move(S, st)
                          /\ st # "gone" => \A f \in S : f.stage # "gone"
<1>1. ASSUME NEW r \in Request, Write(r) \/ WriteLost(r) PROVE Sent
  BY <1>1 DEF Write, WriteLost, Goto, TypeOK, Stage
<1>2. ASSUME NEW r \in Request,
             Begin(r) \/ Pick(r) \/ WriteFails(r) \/ Receive(r) \/ TimesOut(r) \/ Cancelled(r)
                \/ Cleanup(r) \/ ContextDone(r)
      PROVE  UNCHANGED frames
  BY <1>2 DEF Begin, Pick, WriteFails, Receive, TimesOut, Cancelled, Cleanup, ContextDone, netVars
<1>3. ASSUME NEW i \in Slot, ReadFrame(i) PROVE Advanced
  <2>1. PICK f \in On(connectionPool[i], {"in"}) : frames' = (frames \ {f}) \cup Move({f}, "gone")
    BY <1>3 DEF ReadFrame
  <2>2. {f} \in SUBSET frames
    BY DEF On
  <2> QED
    BY <2>1, <2>2 DEF Stage
<1>4. ASSUME NEW i \in Slot, Listener(i), ~ReadFrame(i) PROVE UNCHANGED frames
  BY <1>4
  DEF Listener, LoopCheck, Ensure, Dialed, DialFails, Fetch, CheckShutdown, ReadTimesOut,
      ReadFails, Send, CloseConnection, netVars
<1>5. ASSUME CloseAllConnections PROVE Advanced
  <2>1. {f \in frames : sockets'[f.sock] = "closed"} \in SUBSET frames
    OBVIOUS
  <2> QED
    BY <1>5, <2>1 DEF CloseAllConnections, Stage
<1>6. ASSUME NEW s \in Socket, PeerResets(s) PROVE Advanced
  <2>1. On(s, Stage) \in SUBSET frames
    BY DEF On
  <2> QED
    BY <1>6, <2>1 DEF PeerResets, Stage
<1>7. ASSUME NEW f \in frames, IssuerReads(f) \/ IssuerAnswers(f) \/ IssuerDeclines(f) PROVE Advanced
  <2>1. {f} \in SUBSET frames
    OBVIOUS
  <2>2. PICK to \in Stage : frames' = (frames \ {f}) \cup Move({f}, to) /\ f.stage # "gone"
    BY <1>7 DEF IssuerReads, IssuerAnswers, IssuerDeclines, Forward, Stage
  <2> QED
    BY <2>1, <2>2
<1>8. ASSUME StopBegins \/ UNCHANGED vars PROVE UNCHANGED frames
  BY <1>8 DEF StopBegins, vars, netVars
<1> QED
  BY <1>1, <1>2, <1>3, <1>4, <1>5, <1>6, <1>7, <1>8 DEF Next, Handler

\* A call keeps its identifier.
LEMMA IdKept ==
    TypeOK /\ [Next]_vars => \A r \in Request : pc[r] # "idle" => corrID'[r] = corrID[r]
<1> SUFFICES ASSUME TypeOK, [Next]_vars, NEW r \in Request, pc[r] # "idle"
             PROVE  corrID'[r] = corrID[r]
  OBVIOUS
<1>1. ASSUME NEW q \in Request, Begin(q) PROVE corrID'[r] = corrID[r]
  BY <1>1 DEF Begin, TypeOK
<1> QED
  BY <1>1, TableShapes

\* Frames keep the identifier of their call, one at most per call, none
\* before the write.
LEMMA FramesStep == TypeOK /\ Connected /\ FramesFaithful /\ [Next]_vars => FramesFaithful'
<1> SUFFICES ASSUME TypeOK, Connected, FramesFaithful, [Next]_vars PROVE FramesFaithful'
  OBVIOUS
<1> DEFINE Good(f) == /\ f.corrID = corrID[f.req]
                      /\ pc[f.req] \notin BeforeSend
                      /\ outcome[f.req].kind # "sendError"
           GoodNow(f) == /\ f.corrID = corrID'[f.req]
                         /\ pc'[f.req] \notin BeforeSend
                         /\ outcome'[f.req].kind # "sendError"
<1>1. \A r \in Request : CallShape(r)
  BY CallShapes
<1>2. \A r \in Request : pc'[r] \in BeforeSend \cup {"wait"} => outcome'[r].kind = "none"
  BY <1>1 DEF CallShape, FramesFaithful, BeforeSend
<1>3. ASSUME NEW f, f.req \in Request, Good(f) PROVE GoodNow(f)
  <2>1. pc'[f.req] \notin BeforeSend /\ outcome'[f.req].kind # "sendError"
    BY <1>1, <1>3 DEF CallShape, BeforeSend
  <2>2. corrID'[f.req] = corrID[f.req]
    BY <1>3, IdKept DEF BeforeSend
  <2> QED
    BY <1>3, <2>1, <2>2
<1>4. \A f \in frames : f.req \in Request /\ Good(f)
  BY DEF TypeOK, Frame, FramesFaithful
<1>5. CASE UNCHANGED frames
  BY <1>2, <1>3, <1>4, <1>5 DEF FramesFaithful
<1>6. ASSUME NEW r \in Request, NEW st \in Stage, pc[r] = "write", pc'[r] = "wait",
             frames' = frames \cup {FrameOf(r, st)}
      PROVE  FramesFaithful'
  <2>1. \A f \in frames : f.req # r
    BY <1>4, <1>6 DEF BeforeSend
  <2>2. /\ FrameOf(r, st).req = r /\ FrameOf(r, st).corrID = corrID[r]
        /\ corrID'[r] = corrID[r] /\ outcome'[r].kind = "none"
    BY <1>2, <1>6, IdKept DEF FrameOf
  <2>3. GoodNow(FrameOf(r, st))
    BY <1>6, <2>2 DEF BeforeSend
  <2> QED
    BY <1>2, <1>3, <1>4, <1>6, <2>1, <2>2, <2>3 DEF FramesFaithful
<1>7. ASSUME NEW S \in SUBSET frames, NEW st \in Stage, frames' = (frames \ S) \cup Move(S, st)
      PROVE  FramesFaithful'
  <2>0. frames \subseteq Frame
    BY DEF TypeOK
  <2>1. \A g \in frames' : \E f \in frames :
           /\ g.req = f.req /\ g.corrID = f.corrID /\ g = Moved(f, S, st)
           /\ g.stage = IF f \in S THEN st ELSE f.stage
    BY <1>7, <2>0, MovedFrames
  <2>2. \A g \in frames' : GoodNow(g)
    BY <1>3, <1>4, <2>1
  <2>3. ASSUME NEW g \in frames', NEW h \in frames', g.req = h.req PROVE g = h
    <3>1. PICK f \in frames : g.req = f.req /\ g = Moved(f, S, st)
      BY <2>1
    <3>2. PICK e \in frames : h.req = e.req /\ h = Moved(e, S, st)
      BY <2>1
    <3>3. e = f
      BY <2>3, <3>1, <3>2 DEF FramesFaithful
    <3> QED
      BY <3>1, <3>2, <3>3
  <2> QED
    BY <1>2, <2>2, <2>3 DEF FramesFaithful
<1> QED
  BY <1>5, <1>6, <1>7, FrameShapes

------------------------------------------------------------------------------
\* What a step may do to the answers a listener or a channel holds.
Unrouted ==
    /\ UNCHANGED routing
    /\ \A i \in Slot : listenerPc'[i] = "send" <=> listenerPc[i] = "send"

\* Listener i read the frame f and found the channel t.
Routed(i, f, t) ==
    /\ f.stage = "in" /\ t = pendingTransactions[f.corrID] /\ t # NoRequest
    /\ frames' = (frames \ {f}) \cup Move({f}, "gone")
    /\ routing' = [routing EXCEPT ![i] = [answer |-> f.req, target |-> t]]
    /\ listenerPc[i] = "read" /\ listenerPc' = [listenerPc EXCEPT ![i] = "send"]
    /\ UNCHANGED <<responseChan, pc, outcome>>

\* The ways an answer moves: read by a listener, sent into a channel,
\* received.
LEMMA AnswerShapes ==
    TypeOK /\ [Next]_vars =>
        \/ Unrouted /\ UNCHANGED responseChan
        \/ \E r \in Request : Unrouted /\ Receive(r)
        \/ \E i \in Slot : Send(i)
        \/ \E i \in Slot, f \in frames, t \in Request : Routed(i, f, t)
<1> SUFFICES ASSUME TypeOK, [Next]_vars
             PROVE  \/ Unrouted /\ UNCHANGED responseChan
                    \/ \E r \in Request : Unrouted /\ Receive(r)
                    \/ \E i \in Slot : Send(i)
                    \/ \E i \in Slot, f \in frames, t \in Request : Routed(i, f, t)
  OBVIOUS
<1> DEFINE Silent == Unrouted /\ UNCHANGED responseChan
<1>1. ASSUME NEW r \in Request,
             Begin(r) \/ Pick(r) \/ Write(r) \/ WriteLost(r) \/ WriteFails(r) \/ TimesOut(r)
                \/ Cancelled(r) \/ Cleanup(r) \/ ContextDone(r)
      PROVE  Silent
  BY <1>1
  DEF Begin, Pick, Write, WriteLost, WriteFails, TimesOut, Cancelled, Cleanup, ContextDone,
      Unrouted, listenerVars
<1>2. ASSUME NEW r \in Request, Receive(r) PROVE Unrouted
  BY <1>2 DEF Receive, Unrouted, listenerVars
<1>3. ASSUME NEW i \in Slot, ReadFrame(i)
      PROVE  Silent \/ \E f \in frames, t \in Request : Routed(i, f, t)
  <2>1. PICK f \in On(connectionPool[i], {"in"}) :
           LET target == pendingTransactions[f.corrID] IN
           /\ frames' = (frames \ {f}) \cup Move({f}, "gone")
           /\ IF target = NoRequest
              THEN Listen(i, "check") /\ UNCHANGED routing
              ELSE /\ Listen(i, "send")
                   /\ routing' = [routing EXCEPT ![i] = [answer |-> f.req, target |-> target]]
    BY <1>3 DEF ReadFrame
  <2>2. f \in frames /\ f.stage = "in" /\ f.corrID \in CorrID
    BY DEF On, TypeOK, Frame
  <2>3. UNCHANGED <<responseChan, pc, outcome>> /\ listenerPc[i] = "read"
    BY <1>3 DEF ReadFrame, callVars
  <2>4. CASE pendingTransactions[f.corrID] = NoRequest
    BY <2>1, <2>3, <2>4 DEF Unrouted, Listen, TypeOK
  <2>5. CASE pendingTransactions[f.corrID] # NoRequest
    <3>1. pendingTransactions[f.corrID] \in Request
      BY <2>2, <2>5 DEF TypeOK
    <3>2. Routed(i, f, pendingTransactions[f.corrID])
      BY <2>1, <2>2, <2>3, <2>5 DEF Routed, Listen
    <3> QED
      BY <2>2, <3>1, <3>2
  <2> QED
    BY <2>4, <2>5
<1>4. ASSUME NEW i \in Slot, Listener(i), ~ReadFrame(i), ~Send(i) PROVE Silent
  BY <1>4
  DEF Listener, LoopCheck, Ensure, Dialed, DialFails, Fetch, CheckShutdown, ReadTimesOut,
      ReadFails, CloseConnection, Unrouted, Listen, TypeOK
<1>5. ASSUME StopBegins \/ CloseAllConnections \/ UNCHANGED vars PROVE Silent
  BY <1>5 DEF StopBegins, CloseAllConnections, vars, listenerVars, Unrouted
<1>6. ASSUME NEW s \in Socket, PeerResets(s) PROVE Silent
  BY <1>6 DEF PeerResets, listenerVars, Unrouted
<1>7. ASSUME NEW f \in frames, NEW from, NEW to, Forward(f, from, to) PROVE Silent
  BY <1>7 DEF Forward, listenerVars, Unrouted
<1> QED
  BY <1>1, <1>2, <1>3, <1>4, <1>5, <1>6, <1>7
  DEF Next, Handler, IssuerReads, IssuerAnswers, IssuerDeclines

\* The channel found under the identifier of a frame is that of its request.
LEMMA FoundIsOwner ==
    ASSUME TypeOK, IdsUnique, PendingExact, FramesFaithful,
           NEW f \in frames, NEW t \in Request, t = pendingTransactions[f.corrID]
    PROVE  t = f.req /\ pc[t] \notin BeforeSend
<1>1. f.req \in Request /\ f.corrID \in CorrID
  BY DEF TypeOK, Frame
<1>2. f.corrID = corrID[f.req] /\ pc[f.req] \notin BeforeSend
  BY DEF FramesFaithful
<1>3. pc[t] # "idle" /\ corrID[t] = f.corrID
  BY <1>1 DEF PendingExact
<1> QED
  BY <1>1, <1>2, <1>3 DEF IdsUnique, Begun, BeforeSend

\* A listener holds the channel of the request whose answer it holds.
LEMMA RoutedStep ==
    Inv /\ [Next]_vars => AnswersRouted'
<1> SUFFICES ASSUME Inv, [Next]_vars PROVE AnswersRouted'
  OBVIOUS
<1> USE DEF Inv
<1>1. CASE Unrouted
  BY <1>1 DEF Unrouted, AnswersRouted
<1>2. ASSUME NEW i \in Slot, Send(i) PROVE AnswersRouted'
  BY <1>2, SwitchAssumption
  DEF Send, Listen, NothingToRoute, AnswersRouted, TypeOK, SwitchAssumption
<1>3. ASSUME NEW i \in Slot, NEW f \in frames, NEW t \in Request, Routed(i, f, t)
      PROVE  AnswersRouted'
  <2>1. t = f.req /\ t # NoRequest
    BY <1>3, FoundIsOwner DEF Routed
  <2>2. \A j \in Slot : routing[j].target # t
    BY <1>3, <2>1 DEF Routed, OneAnswer, Quiet
  <2>3. /\ routing' = [routing EXCEPT ![i] = [answer |-> t, target |-> t]]
        /\ listenerPc' = [listenerPc EXCEPT ![i] = "send"]
    BY <1>3, <2>1 DEF Routed
  <2> QED
    BY <2>1, <2>2, <2>3 DEF AnswersRouted, TypeOK
<1> QED
  BY <1>1, <1>2, <1>3, AnswerShapes

\* A frame that is not lost was not lost before, or is being written.
LEMMA LiveFrames ==
    ASSUME TypeOK, [Next]_vars, NEW g \in frames', g.stage # "gone"
    PROVE  \/ \E f \in frames : f.req = g.req /\ f.stage # "gone"
           \/ g.req \in Request /\ pc[g.req] = "write"
<1>1. CASE UNCHANGED frames
  BY <1>1
<1>2. ASSUME NEW r \in Request, NEW st \in Stage, pc[r] = "write",
             frames' = frames \cup {FrameOf(r, st)}
      PROVE  \/ \E f \in frames : f.req = g.req /\ f.stage # "gone"
             \/ g.req \in Request /\ pc[g.req] = "write"
  <2>1. FrameOf(r, st).req = r
    BY DEF FrameOf
  <2> QED
    BY <1>2, <2>1
<1>3. ASSUME NEW S \in SUBSET frames, NEW st \in Stage, frames' = (frames \ S) \cup Move(S, st),
             st # "gone" => \A f \in S : f.stage # "gone"
      PROVE  \E f \in frames : f.req = g.req /\ f.stage # "gone"
  <2>1. frames \subseteq Frame
    BY DEF TypeOK
  <2>2. \A h \in frames' : \E f \in frames :
           /\ h.req = f.req /\ h.corrID = f.corrID /\ h = Moved(f, S, st)
           /\ h.stage = IF f \in S THEN st ELSE f.stage
    BY <1>3, <2>1, MovedFrames
  <2>3. PICK f \in frames : /\ g.req = f.req /\ g.corrID = f.corrID /\ g = Moved(f, S, st)
                            /\ g.stage = IF f \in S THEN st ELSE f.stage
    BY <2>2
  <2> QED
    BY <1>3, <2>3
<1> QED
  BY <1>1, <1>2, <1>3, FrameShapes

\* An answer is in one place: a frame, a listener, the channel, or its call.
LEMMA OneAnswerStep == Inv /\ [Next]_vars => OneAnswer'
<1> SUFFICES ASSUME Inv, [Next]_vars PROVE OneAnswer'
  OBVIOUS
<1> USE DEF Inv
<1>1. \A r \in Request : pc'[r] \in BeforeSend => pc[r] \in BeforeSend
  BY CallShapes DEF CallShape, BeforeSend
<1>2. \A g \in frames' : g.stage # "gone" => g.req \in Request /\ Quiet(g.req)
  <2>1. \A f \in frames : f.req \in Request
    BY DEF TypeOK, Frame
  <2> QED
    BY <2>1, LiveFrames DEF OneAnswer, BeforeSend
<1>3. ASSUME \A r \in Request : Quiet(r) => Quiet(r)',
             \A i \in Slot : listenerPc'[i] = "send" => responseChan'[routing'[i].target] = NoRequest
      PROVE  OneAnswer'
  BY <1>1, <1>2, <1>3 DEF OneAnswer
<1>4. CASE Unrouted /\ UNCHANGED responseChan
  BY <1>3, <1>4 DEF Unrouted, Quiet, OneAnswer
<1>5. ASSUME NEW r \in Request, Unrouted, Receive(r) PROVE OneAnswer'
  <2>1. responseChan' = [responseChan EXCEPT ![r] = NoRequest]
    BY <1>5 DEF Receive
  <2> QED
    BY <1>3, <1>5, <2>1 DEF Unrouted, Quiet, OneAnswer, TypeOK
<1>6. ASSUME NEW i \in Slot, Send(i) PROVE OneAnswer'
  <2> DEFINE t == routing[i].target
  <2>1. listenerPc[i] = "send" /\ t \in Request
    BY <1>6 DEF Send, AnswersRouted, TypeOK
  <2>2. /\ \A r \in Request : r # t => responseChan'[r] = responseChan[r]
        /\ routing' = [routing EXCEPT ![i] = NothingToRoute]
        /\ listenerPc' = [listenerPc EXCEPT ![i] = "check"]
    BY <1>6, <2>1 DEF Send, Listen, TypeOK
  <2>3. \A r \in Request : Quiet(r) => Quiet(r)'
    BY <2>1, <2>2, SwitchAssumption DEF Quiet, NothingToRoute, TypeOK, SwitchAssumption
  <2>4. ASSUME NEW j \in Slot, listenerPc'[j] = "send"
        PROVE  responseChan'[routing'[j].target] = NoRequest
    <3>1. j # i /\ listenerPc[j] = "send" /\ routing'[j] = routing[j]
      BY <2>2, <2>4 DEF TypeOK
    <3>2. routing[j].target # t /\ routing[j].target \in Request
      BY <2>1, <3>1 DEF AnswersRouted, TypeOK
    <3> QED
      BY <2>2, <3>1, <3>2 DEF OneAnswer
  <2> QED
    BY <1>3, <2>3, <2>4
<1>7. ASSUME NEW i \in Slot, NEW f \in frames, NEW t \in Request, Routed(i, f, t)
      PROVE  OneAnswer'
  <2>1. t = f.req /\ pc[t] \notin BeforeSend /\ Quiet(t)
    BY <1>7, FoundIsOwner DEF Routed, OneAnswer
  <2>2. \A r \in Request : r # t /\ Quiet(r) => Quiet(r)'
    BY <1>7, <2>1 DEF Routed, Quiet, TypeOK
  <2>3. \A r \in Request : pc'[r] \in BeforeSend => Quiet(r)'
    BY <1>1, <2>1, <2>2 DEF OneAnswer
  <2>4. ASSUME NEW g \in frames', g.stage # "gone" PROVE g.req # t
    <3>1. PICK S \in SUBSET frames : S = {f} /\ frames' = (frames \ S) \cup Move(S, "gone")
      BY <1>7 DEF Routed
    <3>2. \A h \in frames' : \E e \in frames :
             /\ h.req = e.req /\ h.corrID = e.corrID /\ h = Moved(e, S, "gone")
             /\ h.stage = IF e \in S THEN "gone" ELSE e.stage
      <4>1. frames \subseteq Frame
        BY DEF TypeOK
      <4>2. "gone" \in Stage
        BY DEF Stage
      <4> QED
        BY <3>1, <4>1, <4>2, MovedFrames
    <3>3. PICK e \in frames : /\ g.req = e.req /\ g.corrID = e.corrID
                              /\ g = Moved(e, S, "gone")
                              /\ g.stage = IF e \in S THEN "gone" ELSE e.stage
      BY <3>2
    <3>4. e # f
      BY <2>4, <3>1, <3>3
    <3> QED
      BY <2>1, <3>3, <3>4 DEF FramesFaithful
  <2>5. ASSUME NEW j \in Slot, listenerPc'[j] = "send"
        PROVE  responseChan'[routing'[j].target] = NoRequest
    BY <1>7, <2>1, <2>5 DEF Routed, Quiet, OneAnswer, TypeOK
  <2> QED
    BY <1>2, <2>2, <2>3, <2>4, <2>5 DEF OneAnswer
<1> QED
  BY <1>4, <1>5, <1>6, <1>7, AnswerShapes

\* No step hands a call the answer to another.
LEMMA DeliveryStep == Inv /\ [Next]_vars => NoCrossDelivery'
<1> SUFFICES ASSUME Inv, [Next]_vars PROVE NoCrossDelivery'
  OBVIOUS
<1> USE DEF Inv
<1>1. \A r \in Request : outcome'[r].kind = "response" => outcome'[r].answer = r
  BY CallShapes DEF CallShape, NoCrossDelivery
<1>2. \A r \in Request : responseChan'[r] \in {r, NoRequest}
  <2>1. CASE UNCHANGED responseChan
    BY <2>1 DEF NoCrossDelivery
  <2>2. ASSUME NEW r \in Request, Receive(r)
        PROVE  \A q \in Request : responseChan'[q] \in {q, NoRequest}
    BY <2>2 DEF Receive, NoCrossDelivery, TypeOK
  <2>3. ASSUME NEW i \in Slot, Send(i)
        PROVE  \A q \in Request : responseChan'[q] \in {q, NoRequest}
    BY <2>3 DEF Send, AnswersRouted, NoCrossDelivery, TypeOK
  <2> QED
    BY <2>1, <2>2, <2>3, AnswerShapes DEF Routed
<1> QED
  BY <1>1, <1>2 DEF NoCrossDelivery

------------------------------------------------------------------------------
\* The invariant holds at the start.
LEMMA InvInit == Init => Inv
<1> SUFFICES ASSUME Init PROVE Inv
  OBVIOUS
<1>1. TypeOK /\ Connected
  BY TypeInit
<1>2. Begun = {}
  BY DEF Init, Begun
<1>3. IdsUnique
  BY <1>2, FS_EmptySet DEF Init, IdsUnique
<1>4. PendingExact
  BY SwitchAssumption DEF Init, PendingExact, SwitchAssumption
<1>5. FramesFaithful /\ NoCrossDelivery
  BY DEF Init, FramesFaithful, NoCrossDelivery
<1>6. AnswersRouted /\ OneAnswer
  BY SwitchAssumption
  DEF Init, AnswersRouted, OneAnswer, Quiet, NothingToRoute, SwitchAssumption
<1> QED
  BY <1>1, <1>3, <1>4, <1>5, <1>6 DEF Inv

\* The invariant holds in every reachable state.
THEOREM SwitchInvariant == Spec => []Inv
<1>1. Inv /\ [Next]_vars => Inv'
  BY TypeStep, IdsStep, PendingStep, FramesStep, RoutedStep, OneAnswerStep, DeliveryStep
  DEF Inv
<1> QED
  BY InvInit, <1>1, PTL DEF Spec

\* HandleTerminalRequest never returns, and no channel ever holds, the answer
\* to another request.
THEOREM SwitchNeverCrossDelivers == Spec => []NoCrossDelivery
<1>1. Inv => NoCrossDelivery
  BY DEF Inv
<1> QED
  BY <1>1, SwitchInvariant, PTL

\* pendingTransactions holds exactly the calls in progress.
THEOREM SwitchPendingExact == Spec => []PendingExact
<1>1. Inv => PendingExact
  BY DEF Inv
<1> QED
  BY <1>1, SwitchInvariant, PTL

\* The retries of sendToIssuer never write a request twice, and a call that
\* reports a send error wrote none.
THEOREM SwitchSendsAtMostOnce == Spec => []SentAtMostOnce
<1>1. Inv => SentAtMostOnce
  <2> SUFFICES ASSUME Inv, NEW r \in Request
               PROVE  LET sent == {f \in frames : f.req = r} IN
                      /\ Cardinality(sent) <= 1
                      /\ outcome[r].kind = "sendError" => sent = {}
    BY DEF SentAtMostOnce
  <2> DEFINE sent == {f \in frames : f.req = r}
  <2>1. \A f, g \in sent : f = g
    BY DEF Inv, FramesFaithful
  <2>2. Cardinality(sent) <= 1
    <3>1. CASE sent = {}
      BY <3>1, FS_EmptySet
    <3>2. CASE sent # {}
      <4>1. PICK f : f \in sent
        BY <3>2
      <4>2. sent = {f}
        BY <2>1, <4>1
      <4>3. Cardinality({f}) = 1
        BY FS_Singleton
      <4> HIDE DEF sent
      <4>4. Cardinality(sent) = 1
        BY <4>2, <4>3, Zenon
      <4> QED
        BY <4>4
    <3> QED
      BY <3>1, <3>2
  <2>3. outcome[r].kind = "sendError" => sent = {}
    BY DEF Inv, FramesFaithful
  <2> QED
    BY <2>2, <2>3
<1> QED
  BY <1>1, SwitchInvariant, PTL

\* The listener's send into the channel of size one never meets a full channel.
THEOREM SwitchChannelNeverFull == Spec => []ChannelNeverFull
<1>1. Inv => ChannelNeverFull
  BY DEF Inv, OneAnswer, ChannelNeverFull
<1> QED
  BY <1>1, SwitchInvariant, PTL

------------------------------------------------------------------------------
\* The connections.

\* A connection that is not closed is in the one slot whose listener will close
\* it, and a listener dials for an empty slot, with the mutex held.
PoolInv ==
    /\ \A i \in Slot :
          listenerPc[i] = "dialing" => poolMutex = i /\ connectionPool[i] = NoSocket
    /\ \A i \in Slot : connectionPool[i] # NoSocket =>
          /\ sockets[connectionPool[i]] \in {"open", "reset"}
          /\ \A j \in Slot : connectionPool[j] = connectionPool[i] => j = i
    /\ \A s \in Socket : sockets[s] \in {"open", "reset"} => \E i \in Slot : connectionPool[i] = s
    /\ stopPc = "stopped" => \A i \in Slot : listenerPc[i] = "done" /\ connectionPool[i] = NoSocket

\* No step loses a connection that is open, or opens one after Stop.
LEMMA PoolStep == TypeOK /\ PoolInv /\ [Next]_vars => PoolInv'
<1> SUFFICES ASSUME TypeOK, PoolInv, [Next]_vars PROVE PoolInv'
  OBVIOUS
<1>0. NoSocket \notin Socket /\ Nobody \notin Slot
  BY SwitchAssumption DEF NoSocket, Socket, Nobody, Slot, SwitchAssumption
<1> USE DEF poolVars, stopVars, netVars, listenerVars
<1>1. ASSUME UNCHANGED <<poolMutex, connectionPool, stopPc, sockets, listenerPc>> PROVE PoolInv'
  BY <1>1 DEF PoolInv
<1>2. ASSUME NEW r \in Request, Begin(r) \/ Pick(r) \/ Handler(r) \/ ContextDone(r) PROVE PoolInv'
  BY <1>1, <1>2
  DEF Begin, Pick, Handler, Write, WriteLost, WriteFails, Receive, TimesOut, Cancelled, Cleanup,
      ContextDone
<1>3. ASSUME NEW i \in Slot, NEW loc \in ListenerPc \ {"dialing"}, Listen(i, loc),
             listenerPc[i] # "done", UNCHANGED <<poolMutex, connectionPool, stopPc, sockets>>
      PROVE  PoolInv'
  BY <1>3 DEF PoolInv, Listen, TypeOK
<1>4. ASSUME NEW i \in Slot, Listener(i) PROVE PoolInv'
  <2>1. CASE LoopCheck(i) \/ Fetch(i) \/ CheckShutdown(i) \/ ReadTimesOut(i) \/ ReadFails(i)
             \/ Send(i)
    BY <1>3, <2>1
    DEF LoopCheck, Fetch, CheckShutdown, ReadTimesOut, ReadFails, Send, ListenerPc
  <2>2. CASE ReadFrame(i)
    BY <1>3, <2>2 DEF ReadFrame, ListenerPc
  <2>3. CASE Ensure(i)
    <3>1. CASE connectionPool[i] # NoSocket
      BY <1>3, <2>3, <3>1 DEF Ensure, ListenerPc
    <3>2. CASE connectionPool[i] = NoSocket
      BY <1>0, <2>3, <3>2 DEF Ensure, Listen, PoolInv, TypeOK
    <3> QED
      BY <3>1, <3>2
  <2>4. CASE Dialed(i)
    <3>1. PICK s \in Socket : /\ sockets[s] = "unused" /\ sockets' = [sockets EXCEPT ![s] = "open"]
                              /\ connectionPool' = [connectionPool EXCEPT ![i] = s]
      BY <2>4 DEF Dialed
    <3>2. /\ listenerPc[i] = "dialing" /\ poolMutex = i /\ stopPc' = stopPc /\ stopPc # "stopped"
          /\ listenerPc' = [listenerPc EXCEPT ![i] = "fetch"] /\ connectionPool[i] = NoSocket
      BY <2>4 DEF Dialed, Listen, PoolInv
    <3>3. \A j \in Slot : connectionPool[j] # s
      BY <1>0, <3>1 DEF PoolInv, TypeOK
    <3>4. \A j \in Slot : listenerPc'[j] # "dialing"
      BY <3>2 DEF PoolInv, TypeOK
    <3>5. ASSUME NEW j \in Slot, connectionPool'[j] # NoSocket
          PROVE  /\ sockets'[connectionPool'[j]] \in {"open", "reset"}
                 /\ \A k \in Slot : connectionPool'[k] = connectionPool'[j] => k = j
      BY <3>1, <3>3, <3>5 DEF PoolInv, TypeOK
    <3>6. ASSUME NEW t \in Socket, sockets'[t] \in {"open", "reset"}
          PROVE  \E j \in Slot : connectionPool'[j] = t
      <4>1. CASE t = s
        BY <3>1, <4>1 DEF TypeOK
      <4>2. CASE t # s
        <5>1. PICK j \in Slot : connectionPool[j] = t
          BY <3>1, <3>6, <4>2 DEF PoolInv, TypeOK
        <5>2. j # i
          BY <1>0, <3>2, <5>1
        <5> QED
          BY <3>1, <5>1, <5>2 DEF TypeOK
      <4> QED
        BY <4>1, <4>2
    <3> QED
      BY <3>2, <3>4, <3>5, <3>6 DEF PoolInv
  <2>5. CASE DialFails(i)
    BY <2>5 DEF DialFails, Listen, PoolInv, TypeOK
  <2>6. CASE CloseConnection(i)
    <3>1. /\ poolMutex = Nobody /\ listenerPc[i] = "close" /\ UNCHANGED <<poolMutex, stopPc>>
          /\ listenerPc' = [listenerPc EXCEPT ![i] = "loop"]
          /\ connectionPool' = [connectionPool EXCEPT ![i] = NoSocket]
          /\ sockets' = IF connectionPool[i] = NoSocket THEN sockets
                        ELSE [sockets EXCEPT ![connectionPool[i]] = "closed"]
      BY <2>6 DEF CloseConnection, Listen
    <3>2. stopPc # "stopped" /\ \A j \in Slot : listenerPc'[j] # "dialing"
      BY <1>0, <3>1 DEF PoolInv, TypeOK
    <3>3. ASSUME NEW j \in Slot, connectionPool'[j] # NoSocket
          PROVE  /\ sockets'[connectionPool'[j]] \in {"open", "reset"}
                 /\ \A k \in Slot : connectionPool'[k] = connectionPool'[j] => k = j
      BY <3>1, <3>3 DEF PoolInv, TypeOK
    <3>4. ASSUME NEW t \in Socket, sockets'[t] \in {"open", "reset"}
          PROVE  \E j \in Slot : connectionPool'[j] = t
      <4>1. PICK j \in Slot : connectionPool[j] = t
        BY <3>1, <3>4 DEF PoolInv, TypeOK
      <4>2. j # i
        BY <1>0, <3>1, <3>4, <4>1 DEF TypeOK
      <4> QED
        BY <3>1, <4>1, <4>2 DEF TypeOK
    <3> QED
      BY <3>1, <3>2, <3>3, <3>4 DEF PoolInv
  <2> QED
    BY <1>4, <2>1, <2>2, <2>3, <2>4, <2>5, <2>6 DEF Listener
<1>5. CASE StopBegins
  BY <1>5 DEF StopBegins, PoolInv
<1>6. CASE CloseAllConnections
  <2>1. /\ \A i \in Slot : listenerPc'[i] = "done" /\ connectionPool'[i] = NoSocket
        /\ \A s \in Socket : sockets'[s] = IF \E i \in Slot : connectionPool[i] = s
                                           THEN "closed" ELSE sockets[s]
    BY <1>6 DEF CloseAllConnections
  <2>2. \A s \in Socket : sockets'[s] \notin {"open", "reset"}
    BY <2>1 DEF PoolInv
  <2> QED
    BY <2>1, <2>2 DEF PoolInv
<1>7. ASSUME NEW s \in Socket, PeerResets(s) PROVE PoolInv'
  BY <1>0, <1>7 DEF PeerResets, PoolInv, TypeOK
<1>8. ASSUME NEW f \in frames, IssuerReads(f) \/ IssuerAnswers(f) \/ IssuerDeclines(f) PROVE PoolInv'
  BY <1>1, <1>8 DEF IssuerReads, IssuerAnswers, IssuerDeclines, Forward
<1>9. CASE UNCHANGED vars
  BY <1>1, <1>9 DEF vars
<1> QED
  BY <1>2, <1>4, <1>5, <1>6, <1>7, <1>8, <1>9 DEF Next

\* Where every connection is, in every state.
THEOREM SwitchPoolInvariant == Spec => []PoolInv
<1>1. Init => PoolInv
  BY DEF Init, PoolInv
<1> QED
  BY <1>1, PoolStep, SwitchTypeCorrect, PTL DEF Spec

\* closeConnection, the dial under poolMutex and closeAllConnections leave no
\* open connection outside the pool, nor in two of its slots.
THEOREM SwitchNoSocketLeak == Spec => []NoSocketLeak
<1>1. TypeOK /\ PoolInv => NoSocketLeak
  <2> SUFFICES ASSUME TypeOK, PoolInv, NEW s \in Socket, sockets[s] \in {"open", "reset"}
               PROVE  Cardinality({i \in Slot : connectionPool[i] = s}) = 1
    BY DEF NoSocketLeak
  <2>1. PICK i \in Slot : connectionPool[i] = s
    BY DEF PoolInv
  <2>2. s # NoSocket
    BY DEF Socket, NoSocket
  <2>3. {j \in Slot : connectionPool[j] = s} = {i}
    BY <2>1, <2>2 DEF PoolInv
  <2> QED
    BY <2>3, FS_Singleton
<1> QED
  BY <1>1, SwitchPoolInvariant, SwitchTypeCorrect, PTL

\* Stop waits for the listeners before it closes the connections, so that
\* nothing is dialed afterwards.
THEOREM SwitchStoppedForGood == Spec => []StoppedForGood
<1>1. TypeOK /\ PoolInv => StoppedForGood
  <2> SUFFICES ASSUME TypeOK, PoolInv, stopPc = "stopped", NEW s \in Socket
               PROVE  sockets[s] \in {"unused", "closed"}
    BY DEF StoppedForGood, PoolInv
  <2>1. s # NoSocket
    BY DEF Socket, NoSocket
  <2> QED
    BY <2>1 DEF PoolInv, TypeOK
<1> QED
  BY <1>1, SwitchPoolInvariant, SwitchTypeCorrect, PTL

------------------------------------------------------------------------------
\* One more invariant: who waits, or holds an answer, has a frame.
HasFrame(r) == \E f \in frames : f.req = r

WaitSent == \A r \in Request : pc[r] = "wait" \/ AnswerHeld(r) => HasFrame(r)

SwitchInv == Inv /\ WaitSent

\* A call waits for its answer after it has written its frame.
LEMMA WaitEntered ==
    ASSUME TypeOK, [Next]_vars, NEW r \in Request, pc[r] # "wait", pc'[r] = "wait"
    PROVE  \E st \in Stage : frames' = frames \cup {FrameOf(r, st)}
<1>1. ASSUME NEW q \in Request, Write(q) \/ WriteLost(q)
      PROVE  \E st \in Stage : frames' = frames \cup {FrameOf(r, st)}
  <2>1. q = r
    BY <1>1 DEF Write, WriteLost, Goto, TypeOK
  <2> QED
    BY <1>1, <2>1 DEF Write, WriteLost, Stage
<1>2. ASSUME NEW q \in Request, Begin(q) \/ Cleanup(q) \/ ContextDone(q) PROVE FALSE
  BY <1>2 DEF Begin, Cleanup, ContextDone, callVars, Goto, TypeOK
<1>3. ASSUME NEW q \in Request, Pick(q) \/ WriteFails(q) PROVE FALSE
  BY <1>3 DEF Pick, WriteFails, Retry, Return, Goto, TypeOK
<1>4. ASSUME NEW q \in Request, Receive(q) \/ TimesOut(q) \/ Cancelled(q) PROVE FALSE
  BY <1>4 DEF Receive, TimesOut, Cancelled, Return, Goto, TypeOK
<1>5. ASSUME NEW i \in Slot, Listener(i) PROVE FALSE
  BY <1>5
  DEF Listener, LoopCheck, Ensure, Dialed, DialFails, Fetch, CheckShutdown, ReadFrame,
      ReadTimesOut, ReadFails, Send, CloseConnection, callVars
<1>6. ASSUME StopBegins \/ CloseAllConnections \/ UNCHANGED vars PROVE FALSE
  BY <1>6 DEF StopBegins, CloseAllConnections, vars, callVars
<1>7. ASSUME NEW s \in Socket, PeerResets(s) PROVE FALSE
  BY <1>7 DEF PeerResets, callVars
<1>8. ASSUME NEW f \in frames, NEW from, NEW to, Forward(f, from, to) PROVE FALSE
  BY <1>8 DEF Forward, callVars
<1> QED
  BY <1>1, <1>2, <1>3, <1>4, <1>5, <1>6, <1>7, <1>8
  DEF Next, Handler, IssuerReads, IssuerAnswers, IssuerDeclines

\* A frame that moves on is still its request's, and the only one.
LEMMA MovedOne ==
    ASSUME TypeOK, NEW S \in SUBSET frames, NEW st \in Stage,
           frames' = (frames \ S) \cup Move(S, st), NEW f \in frames
    PROVE  /\ Moved(f, S, st) \in frames' /\ Moved(f, S, st).req = f.req
           /\ Moved(f, S, st).stage = IF f \in S THEN st ELSE f.stage
<1>1. f \in Frame
  BY DEF TypeOK
<1>2. [f EXCEPT !.stage = st] = [req |-> f.req, corrID |-> f.corrID, attempt |-> f.attempt,
                                 sock |-> f.sock, stage |-> st]
  BY <1>1 DEF Frame
<1> QED
  BY <1>2 DEF Moved, Move

\* Frames are never forgotten.
LEMMA FramesStay == ASSUME TypeOK, [Next]_vars, NEW r \in Request, HasFrame(r) PROVE HasFrame(r)'
<1>1. PICK f \in frames : f.req = r
  BY DEF HasFrame
<1>2. ASSUME NEW S \in SUBSET frames, NEW st \in Stage, frames' = (frames \ S) \cup Move(S, st)
      PROVE  HasFrame(r)'
  BY <1>1, <1>2, MovedOne DEF HasFrame
<1> QED
  BY <1>1, <1>2, FrameShapes DEF HasFrame

\* An answer is held when it has been held before, or has just been read from
\* a frame.
LEMMA HeldEntered ==
    ASSUME Inv, [Next]_vars, NEW r \in Request, AnswerHeld(r)'
    PROVE  AnswerHeld(r) \/ HasFrame(r)
<1> USE SwitchAssumption DEF AnswerHeld, HasFrame, Inv, TypeOK, SwitchAssumption
<1>1. CASE Unrouted /\ UNCHANGED responseChan
  BY <1>1 DEF Unrouted
<1>2. ASSUME NEW q \in Request, Unrouted, Receive(q) PROVE AnswerHeld(r)
  BY <1>2 DEF Unrouted, Receive
<1>3. ASSUME NEW i \in Slot, Send(i) PROVE AnswerHeld(r)
  BY <1>3 DEF Send, NothingToRoute
<1>4. ASSUME NEW i \in Slot, NEW f \in frames, NEW t \in Request, Routed(i, f, t)
      PROVE  AnswerHeld(r) \/ HasFrame(r)
  BY <1>4 DEF Routed
<1> QED
  BY <1>1, <1>2, <1>3, <1>4, AnswerShapes

\* Both invariants hold in every reachable state.
LEMMA SwitchInvHolds == Spec => []SwitchInv
<1>1. Init => WaitSent
  BY SwitchAssumption DEF Init, WaitSent, AnswerHeld, NothingToRoute, SwitchAssumption
<1>2. Inv /\ WaitSent /\ [Next]_vars => WaitSent'
  <2> SUFFICES ASSUME Inv, WaitSent, [Next]_vars, NEW r \in Request,
                      pc'[r] = "wait" \/ AnswerHeld(r)'
               PROVE  HasFrame(r)'
    BY DEF WaitSent
  <2>1. TypeOK
    BY DEF Inv
  <2>2. CASE HasFrame(r)
    BY <2>1, <2>2, FramesStay
  <2>3. CASE ~HasFrame(r)
    <3>1. pc[r] # "wait" /\ pc'[r] = "wait"
      BY <2>3, HeldEntered DEF WaitSent
    <3>2. FrameOf(r, "out").req = r /\ \A st \in Stage : FrameOf(r, st).req = r
      BY DEF FrameOf
    <3> QED
      BY <2>1, <3>1, <3>2, WaitEntered DEF HasFrame
  <2> QED
    BY <2>2, <2>3
<1> QED
  BY <1>1, <1>2, SwitchInvariant, PTL DEF Spec, SwitchInv

------------------------------------------------------------------------------
\* Where a request, or its answer, is for Exchange.
FrameAt(f) == IF f.stage = "gone" /\ AnswerHeld(f.req) THEN "in" ELSE f.stage

Placed ==
    /\ \A f \in frames : f.req \in Request /\ MsgBar[f.req] = FrameAt(f)
    /\ \A r \in Request : ~HasFrame(r) => MsgBar[r] = "unsent"
    /\ \A r \in Request : pc[r] \in BeforeSend => ~HasFrame(r)
    /\ \A r \in Request : outcome[r].kind = "sendError" => ~HasFrame(r)
    /\ \A r \in Request : AnswerHeld(r) => MsgBar[r] = "in"

\* The one frame of a request says where it is.
LEMMA PlacedHolds == SwitchInv => Placed
<1> SUFFICES ASSUME SwitchInv PROVE Placed
  OBVIOUS
<1>1. \A r \in Request : pc[r] \in BeforeSend => ~HasFrame(r)
  BY DEF SwitchInv, Inv, FramesFaithful, HasFrame
<1>2. \A r \in Request : outcome[r].kind = "sendError" => ~HasFrame(r)
  BY DEF SwitchInv, Inv, FramesFaithful, HasFrame
<1>3. ASSUME NEW f \in frames
      PROVE  /\ f.req \in Request /\ f.stage \in Stage /\ StagesOf(f.req) = {f.stage}
             /\ f.stage # "gone" => ~AnswerHeld(f.req)
  <2>1. f.req \in Request /\ f.stage \in Stage
    BY DEF SwitchInv, Inv, TypeOK, Frame
  <2>2. {g \in frames : g.req = f.req} = {f}
    BY DEF SwitchInv, Inv, FramesFaithful
  <2>3. f.stage # "gone" => ~AnswerHeld(f.req)
    BY <2>1, SwitchAssumption
    DEF SwitchInv, Inv, OneAnswer, AnswersRouted, Quiet, AnswerHeld, SwitchAssumption
  <2> QED
    BY <2>1, <2>2, <2>3 DEF StagesOf
<1>4. ASSUME NEW f \in frames PROVE MsgBar[f.req] = FrameAt(f)
  BY <1>3 DEF MsgBar, FrameAt, Stage
<1>5. ASSUME NEW r \in Request, ~HasFrame(r) PROVE MsgBar[r] = "unsent"
  <2>1. StagesOf(r) = {}
    BY <1>5 DEF StagesOf, HasFrame
  <2>2. ~AnswerHeld(r)
    BY <1>5 DEF SwitchInv, WaitSent
  <2> QED
    BY <2>1, <2>2 DEF MsgBar
<1>6. ASSUME NEW r \in Request, AnswerHeld(r) PROVE MsgBar[r] = "in"
  <2>1. PICK f \in frames : f.req = r
    BY <1>6 DEF SwitchInv, WaitSent, HasFrame
  <2> QED
    BY <1>3, <1>4, <1>6, <2>1 DEF FrameAt
<1> QED
  BY <1>1, <1>2, <1>3, <1>4, <1>5, <1>6 DEF Placed

\* The same in the next state.
LEMMA PlacedNext == SwitchInv' => Placed'
  BY PlacedHolds, PTL

\* What the caller sees of a call that has begun is what it returned.
LEMMA CallSeen ==
    ASSUME SwitchInv, NEW r \in Request
    PROVE  /\ pc[r] = "idle" => CallBar[r] = "idle"
           /\ pc[r] # "idle" =>
                 /\ outcome[r].kind = "none" => CallBar[r] = "calling"
                 /\ outcome[r].kind = "sendError" => CallBar[r] = "notSent"
                 /\ outcome[r].kind \in {"timeout", "cancelled"} => CallBar[r] = "unknown"
                 /\ outcome[r].kind = "response" => CallBar[r] = "answered"
  BY DEF CallBar, Seen, SwitchInv, Inv, NoCrossDelivery

\* The same in the next state.
LEMMA CallSeenNext ==
    SwitchInv' =>
        \A r \in Request :
           /\ pc'[r] = "idle" => CallBar'[r] = "idle"
           /\ pc'[r] # "idle" =>
                 /\ outcome'[r].kind = "none" => CallBar'[r] = "calling"
                 /\ outcome'[r].kind = "sendError" => CallBar'[r] = "notSent"
                 /\ outcome'[r].kind \in {"timeout", "cancelled"} => CallBar'[r] = "unknown"
                 /\ outcome'[r].kind = "response" => CallBar'[r] = "answered"
  BY DEF CallBar, Seen, SwitchInv, Inv, NoCrossDelivery

\* What goes on inside a call that has not returned is hidden from its caller.
LEMMA CallsKept ==
    ASSUME SwitchInv, \A r \in Request : outcome'[r] = outcome[r],
           \A r \in Request : pc'[r] = "idle" <=> pc[r] = "idle"
    PROVE  UNCHANGED CallBar
  BY DEF CallBar

\* A step of one call is seen by its caller alone.
LEMMA CallMoves ==
    ASSUME NEW r \in Request,
           \A q \in Request \ {r} : pc'[q] = pc[q] /\ outcome'[q] = outcome[q]
    PROVE  CallBar' = [CallBar EXCEPT ![r] = CallBar'[r]]
  BY DEF CallBar

\* Requests and answers that stay where they are.
LEMMA MsgsKept ==
    ASSUME UNCHANGED frames, \A r \in Request : AnswerHeld(r)' <=> AnswerHeld(r)
    PROVE  UNCHANGED MsgBar
<1>1. \A r \in Request : StagesOf(r)' = StagesOf(r)
  BY DEF StagesOf
<1> QED
  BY <1>1 DEF MsgBar

------------------------------------------------------------------------------
\* Steps of frames.

\* The requests of the frames in S move with them; the others stay.
LEMMA MsgsMove ==
    ASSUME SwitchInv, SwitchInv', NEW S \in SUBSET frames, NEW st \in Stage,
           frames' = (frames \ S) \cup Move(S, st),
           \A r \in Request : AnswerHeld(r)' <=> AnswerHeld(r)
    PROVE  /\ \A f \in S : MsgBar'[f.req] = IF st = "gone" /\ AnswerHeld(f.req) THEN "in" ELSE st
           /\ \A r \in Request : (\A f \in S : f.req # r) => MsgBar'[r] = MsgBar[r]
<1>1. TypeOK /\ Placed /\ Placed'
  BY PlacedHolds, PlacedNext DEF SwitchInv, Inv
<1>2. ASSUME NEW f \in frames
      PROVE  MsgBar'[f.req] = LET to == IF f \in S THEN st ELSE f.stage IN
                              IF to = "gone" /\ AnswerHeld(f.req) THEN "in" ELSE to
  <2> DEFINE g == Moved(f, S, st)
  <2>1. g \in frames' /\ g.req = f.req /\ g.stage = IF f \in S THEN st ELSE f.stage
    BY <1>1, MovedOne
  <2>2. f.req \in Request
    BY <1>1 DEF Placed
  <2>3. MsgBar'[g.req] = FrameAt(g)'
    BY <1>1, <2>1 DEF Placed
  <2>4. FrameAt(g)' = IF g.stage = "gone" /\ AnswerHeld(f.req)' THEN "in" ELSE g.stage
    BY <2>1 DEF FrameAt
  <2> QED
    BY <2>1, <2>2, <2>3, <2>4
<1>3. ASSUME NEW r \in Request, \A f \in S : f.req # r PROVE MsgBar'[r] = MsgBar[r]
  <2>1. CASE HasFrame(r)
    <3>1. PICK f \in frames : f.req = r
      BY <2>1 DEF HasFrame
    <3> QED
      BY <1>1, <1>2, <1>3, <3>1 DEF Placed, FrameAt
  <2>2. CASE ~HasFrame(r)
    <3>1. ~HasFrame(r)'
      <4>1. \A g \in frames' : \E f \in frames :
               /\ g.req = f.req /\ g.corrID = f.corrID /\ g = Moved(f, S, st)
               /\ g.stage = IF f \in S THEN st ELSE f.stage
        <5>1. frames \subseteq Frame
          BY <1>1 DEF TypeOK
        <5> QED
          BY <5>1, MovedFrames
      <4> QED
        BY <2>2, <4>1 DEF HasFrame
    <3> QED
      BY <1>1, <2>2, <3>1 DEF Placed
  <2> QED
    BY <2>1, <2>2
<1> QED
  BY <1>2, <1>3

\* Frames that the network, the issuer or a listener loses are lost to their
\* callers, unless their answer has been read before.
LEMMA LosesMapped ==
    ASSUME SwitchInv, SwitchInv', NEW S \in SUBSET frames,
           frames' = (frames \ S) \cup Move(S, "gone"), UNCHANGED CallBar,
           \A r \in Request : AnswerHeld(r)' <=> AnswerHeld(r)
    PROVE  Promise!Next
<1> DEFINE R == {r \in Request : \E f \in S : f.req = r /\ f.stage # "gone"}
<1>1. Placed /\ "gone" \in Stage
  BY PlacedHolds DEF Stage
<1>2. ASSUME NEW r \in R
      PROVE  MsgBar[r] \in {"out", "issuer", "in"} /\ MsgBar'[r] = "gone"
  <2>1. PICK f \in S : f.req = r /\ f.stage # "gone"
    OBVIOUS
  <2>2. f.stage \in {"out", "issuer", "in"}
    BY <2>1 DEF SwitchInv, Inv, TypeOK, Frame, Stage
  <2>3. ~AnswerHeld(r)
    BY <2>1, SwitchAssumption
    DEF SwitchInv, Inv, TypeOK, OneAnswer, AnswersRouted, Quiet, AnswerHeld, SwitchAssumption
  <2>4. MsgBar[r] = f.stage
    BY <1>1, <2>1 DEF Placed, FrameAt
  <2> QED
    BY <1>1, <2>1, <2>2, <2>3, <2>4, MsgsMove
<1>3. ASSUME NEW r \in Request, r \notin R PROVE MsgBar'[r] = MsgBar[r]
  <2>1. CASE \A f \in S : f.req # r
    BY <1>1, <2>1, MsgsMove
  <2>2. ASSUME NEW f \in S, f.req = r PROVE MsgBar'[r] = MsgBar[r]
    BY <1>1, <1>3, <2>2, MsgsMove DEF Placed, FrameAt
  <2> QED
    BY <2>1, <2>2
<1>4. MsgBar' = [r \in Request |-> IF r \in R THEN "gone" ELSE MsgBar[r]]
  <2>1. MsgBar' = [r \in Request |-> MsgBar'[r]]
    BY DEF MsgBar
  <2> QED
    BY <1>2, <1>3, <2>1
<1>5. Promise!Lose(R)
  BY <1>2, <1>4 DEF Promise!Lose
<1> QED
  BY <1>5 DEF Promise!Next

\* A frame that the issuer takes, or answers, is that for its caller.
LEMMA ForwardMapped ==
    ASSUME SwitchInv, SwitchInv', NEW f \in frames, UNCHANGED CallBar,
           IssuerReads(f) \/ IssuerAnswers(f)
    PROVE  Promise!Next
<1>1. Placed /\ f.req \in Request
  BY PlacedHolds DEF Placed
<1>2. PICK to \in {"issuer", "in"} :
          /\ frames' = (frames \ {f}) \cup Move({f}, to)
          /\ f.stage = (IF to = "issuer" THEN "out" ELSE "issuer")
          /\ UNCHANGED <<routing, responseChan>>
  BY DEF IssuerReads, IssuerAnswers, Forward, listenerVars
<1>3. /\ MsgBar'[f.req] = to
      /\ \A r \in Request : f.req # r => MsgBar'[r] = MsgBar[r]
  <2>1. {f} \in SUBSET frames /\ to \in Stage
    BY DEF Stage
  <2>2. \A r \in Request : AnswerHeld(r)' <=> AnswerHeld(r)
    BY <1>2 DEF AnswerHeld
  <2> QED
    BY <1>2, <2>1, <2>2, MsgsMove
<1>4. MsgBar' = [MsgBar EXCEPT ![f.req] = to]
  <2>1. MsgBar' = [r \in Request |-> MsgBar'[r]] /\ MsgBar = [r \in Request |-> MsgBar[r]]
    BY DEF MsgBar
  <2> QED
    BY <1>3, <2>1
<1>5. MsgBar[f.req] = f.stage
  BY <1>1, <1>2 DEF Placed, FrameAt
<1>6. Promise!Take(f.req) \/ Promise!Reply(f.req)
  BY <1>2, <1>4, <1>5 DEF Promise!Take, Promise!Reply, Promise!Goes
<1> QED
  BY <1>1, <1>6 DEF Promise!Next

\* Closed and reset connections, packets lost at the issuer.
LEMMA NetworkMapped ==
    ASSUME SwitchInv, SwitchInv', NEW S \in SUBSET frames,
           frames' = (frames \ S) \cup Move(S, "gone"), UNCHANGED <<callVars, routing, responseChan>>
    PROVE  Promise!Next
<1>1. UNCHANGED CallBar
  BY DEF callVars, CallBar
<1>2. \A r \in Request : AnswerHeld(r)' <=> AnswerHeld(r)
  BY DEF AnswerHeld
<1> QED
  BY <1>1, <1>2, LosesMapped

------------------------------------------------------------------------------
\* Steps of a call.

\* Begin starts the call its caller sees.
LEMMA BeginMapped == ASSUME SwitchInv, SwitchInv', NEW r \in Request, Begin(r) PROVE Promise!Begin(r)
<1>1. /\ pc[r] = "idle" /\ pc' = [pc EXCEPT ![r] = "pick"]
      /\ UNCHANGED <<outcome, frames, routing, responseChan>>
  BY DEF Begin, Goto, listenerVars, netVars
<1>2. outcome[r].kind = "none"
  BY <1>1 DEF SwitchInv, Inv, FramesFaithful, BeforeSend
<1>3. CallBar[r] = "idle" /\ CallBar'[r] = "calling"
  BY <1>1, <1>2, CallSeen, CallSeenNext DEF SwitchInv, Inv, TypeOK
<1>4. CallBar' = [CallBar EXCEPT ![r] = CallBar'[r]]
  BY <1>1, CallMoves DEF SwitchInv, Inv, TypeOK
<1>5. UNCHANGED MsgBar
  BY <1>1, MsgsKept DEF AnswerHeld
<1> QED
  BY <1>3, <1>4, <1>5 DEF Promise!Begin, Promise!End

\* A failed attempt is hidden, or ends the call before anything was sent.
LEMMA RetryMapped ==
    ASSUME SwitchInv, SwitchInv', NEW r \in Request, pc[r] \in {"pick", "write"}, Retry(r),
           UNCHANGED <<frames, routing, responseChan>>
    PROVE  Promise!NotSent(r) \/ UNCHANGED <<CallBar, MsgBar>>
<1>1. outcome[r].kind = "none" /\ CallBar[r] = "calling"
  BY CallSeen DEF SwitchInv, Inv, FramesFaithful, BeforeSend
<1>2. UNCHANGED MsgBar
  BY MsgsKept DEF AnswerHeld
<1>3. CASE attempt[r] < MaxAttempts - 1
  <2>1. pc' = [pc EXCEPT ![r] = "pick"] /\ UNCHANGED outcome
    BY <1>3 DEF Retry, Goto
  <2>2. UNCHANGED CallBar
    BY <2>1, CallsKept DEF SwitchInv, Inv, TypeOK
  <2> QED
    BY <1>2, <2>2
<1>4. CASE ~(attempt[r] < MaxAttempts - 1)
  <2>1. /\ pc' = [pc EXCEPT ![r] = "cleanup"]
        /\ outcome' = [outcome EXCEPT ![r] = [kind |-> "sendError", answer |-> NoRequest]]
    BY <1>4 DEF Retry, Return, Goto
  <2>2. pc'[r] = "cleanup" /\ outcome'[r].kind = "sendError"
    BY <2>1 DEF SwitchInv, Inv, TypeOK
  <2>3. CallBar' = [CallBar EXCEPT ![r] = "notSent"]
    BY <2>1, <2>2, CallMoves, CallSeenNext DEF SwitchInv, Inv, TypeOK
  <2>4. MsgBar[r] = "unsent"
    BY PlacedHolds DEF Placed, BeforeSend
  <2> QED
    BY <1>1, <1>2, <2>3, <2>4 DEF Promise!NotSent, Promise!End
<1> QED
  BY <1>3, <1>4

\* The write is the send, even into a connection that is gone.
LEMMA WriteMapped ==
    ASSUME SwitchInv, SwitchInv', NEW r \in Request, Write(r) \/ WriteLost(r)
    PROVE  Promise!Send(r)
<1>1. PICK st \in {"out", "gone"} :
          /\ pc[r] = "write" /\ pc' = [pc EXCEPT ![r] = "wait"]
          /\ frames' = frames \cup {FrameOf(r, st)}
          /\ UNCHANGED <<outcome, routing, responseChan>>
  BY DEF Write, WriteLost, Goto, listenerVars
<1>2. outcome[r].kind = "none" /\ CallBar[r] = "calling"
  BY <1>1, CallSeen DEF SwitchInv, Inv, FramesFaithful, BeforeSend
<1>3. UNCHANGED CallBar
  BY <1>1, CallsKept DEF SwitchInv, Inv, TypeOK
<1>4. Placed /\ Placed' /\ \A q \in Request : AnswerHeld(q)' <=> AnswerHeld(q)
  BY <1>1, PlacedHolds, PlacedNext DEF AnswerHeld
<1>5. ~HasFrame(r) /\ ~AnswerHeld(r)
  BY <1>1, <1>4 DEF Placed, BeforeSend, SwitchInv, WaitSent
<1>6. MsgBar'[r] = st
  <2>1. PICK f \in frames' : f.req = r /\ f.stage = st
    <3>1. FrameOf(r, st) \in frames'
      BY <1>1
    <3>2. FrameOf(r, st).req = r /\ FrameOf(r, st).stage = st
      BY DEF FrameOf
    <3> QED
      BY <3>1, <3>2
  <2>2. MsgBar'[f.req] = FrameAt(f)'
    BY <1>4, <2>1 DEF Placed
  <2>3. FrameAt(f)' = IF f.stage = "gone" /\ AnswerHeld(r)' THEN "in" ELSE f.stage
    BY <2>1 DEF FrameAt
  <2> QED
    BY <1>4, <1>5, <2>1, <2>2, <2>3
<1>7. ASSUME NEW q \in Request, q # r PROVE MsgBar'[q] = MsgBar[q]
  <2>1. FrameOf(r, st).req = r
    BY DEF FrameOf
  <2>2. StagesOf(q)' = StagesOf(q)
    BY <1>1, <1>7, <2>1 DEF StagesOf
  <2> QED
    BY <1>4, <2>2 DEF MsgBar
<1>8. MsgBar' = [MsgBar EXCEPT ![r] = st]
  <2>1. MsgBar' = [q \in Request |-> MsgBar'[q]] /\ MsgBar = [q \in Request |-> MsgBar[q]]
    BY DEF MsgBar
  <2> QED
    BY <1>6, <1>7, <2>1
<1>9. MsgBar[r] = "unsent"
  BY <1>4, <1>5 DEF Placed
<1> QED
  BY <1>2, <1>3, <1>8, <1>9 DEF Promise!Send, Promise!Goes

\* The answer a call takes from its channel is the one that has come in.
LEMMA ReceiveMapped ==
    ASSUME SwitchInv, SwitchInv', NEW r \in Request, Receive(r)
    PROVE  Promise!Receive(r)
<1>1. /\ pc[r] = "wait" /\ pc' = [pc EXCEPT ![r] = "cleanup"]
      /\ responseChan[r] # NoRequest /\ responseChan' = [responseChan EXCEPT ![r] = NoRequest]
      /\ outcome' = [outcome EXCEPT ![r] = [kind |-> "response", answer |-> responseChan[r]]]
      /\ UNCHANGED <<frames, routing>>
  BY DEF Receive, Return, Goto, listenerVars, netVars
<1>2. responseChan[r] = r /\ AnswerHeld(r)
  BY <1>1 DEF SwitchInv, Inv, NoCrossDelivery, AnswerHeld
<1>3. CallBar[r] = "calling" /\ MsgBar[r] = "in"
  BY <1>1, <1>2, CallSeen, PlacedHolds DEF SwitchInv, Inv, FramesFaithful, Placed
<1>4. CallBar' = [CallBar EXCEPT ![r] = "answered"]
  <2>1. pc'[r] = "cleanup" /\ outcome'[r].kind = "response"
    BY <1>1 DEF SwitchInv, Inv, TypeOK
  <2> QED
    BY <1>1, <2>1, CallMoves, CallSeenNext DEF SwitchInv, Inv, TypeOK
<1>5. ~AnswerHeld(r)'
  <2>1. \A i \in Slot : routing[i].answer # r
    BY <1>1, SwitchAssumption
    DEF SwitchInv, Inv, AnswersRouted, OneAnswer, SwitchAssumption
  <2> QED
    BY <1>1, <2>1, SwitchAssumption DEF AnswerHeld, SwitchInv, Inv, TypeOK, SwitchAssumption
<1>6. \A q \in Request : q # r => (AnswerHeld(q)' <=> AnswerHeld(q))
  BY <1>1 DEF AnswerHeld, SwitchInv, Inv, TypeOK
<1>7. MsgBar'[r] = "gone"
  <2>1. PICK f \in frames : f.req = r
    BY <1>2 DEF SwitchInv, WaitSent, HasFrame
  <2>2. f.stage = "gone"
    BY <1>1, <1>2, <2>1 DEF SwitchInv, Inv, OneAnswer, Quiet
  <2>3. MsgBar'[f.req] = FrameAt(f)'
    BY <1>1, <2>1, PlacedNext DEF Placed
  <2> QED
    BY <1>5, <2>1, <2>2, <2>3 DEF FrameAt
<1>8. MsgBar' = [MsgBar EXCEPT ![r] = "gone"]
  <2>1. \A q \in Request : StagesOf(q)' = StagesOf(q)
    BY <1>1 DEF StagesOf
  <2>2. \A q \in Request : q # r => MsgBar'[q] = MsgBar[q]
    BY <1>6, <2>1 DEF MsgBar
  <2>3. MsgBar' = [q \in Request |-> MsgBar'[q]] /\ MsgBar = [q \in Request |-> MsgBar[q]]
    BY DEF MsgBar
  <2> QED
    BY <1>7, <2>2, <2>3
<1> QED
  BY <1>3, <1>4, <1>8 DEF Promise!Receive, Promise!End, Promise!Goes

\* A call that times out, or whose client leaves, has sent its request.
LEMMA GiveUpMapped ==
    ASSUME SwitchInv, SwitchInv', NEW r \in Request, TimesOut(r) \/ Cancelled(r)
    PROVE  Promise!GiveUp(r)
<1>1. PICK kind \in {"timeout", "cancelled"} :
          /\ pc[r] = "wait" /\ pc' = [pc EXCEPT ![r] = "cleanup"]
          /\ outcome' = [outcome EXCEPT ![r] = [kind |-> kind, answer |-> NoRequest]]
          /\ UNCHANGED <<frames, routing, responseChan>>
  BY DEF TimesOut, Cancelled, Return, Goto, listenerVars, netVars
<1>2. CallBar[r] = "calling"
  BY <1>1, CallSeen DEF SwitchInv, Inv, FramesFaithful
<1>3. CallBar' = [CallBar EXCEPT ![r] = "unknown"]
  <2>1. pc'[r] = "cleanup" /\ outcome'[r].kind \in {"timeout", "cancelled"}
    BY <1>1 DEF SwitchInv, Inv, TypeOK
  <2> QED
    BY <1>1, <2>1, CallMoves, CallSeenNext DEF SwitchInv, Inv, TypeOK
<1>4. UNCHANGED MsgBar
  BY <1>1, MsgsKept DEF AnswerHeld
<1>5. MsgBar[r] # "unsent"
  <2>1. PICK f \in frames : f.req = r
    BY <1>1 DEF SwitchInv, WaitSent, HasFrame
  <2>2. f.stage # "unsent"
    BY DEF SwitchInv, Inv, TypeOK, Frame, Stage
  <2> QED
    BY <2>1, <2>2, PlacedHolds DEF Placed, FrameAt
<1> QED
  BY <1>2, <1>3, <1>4, <1>5 DEF Promise!GiveUp, Promise!End

------------------------------------------------------------------------------
\* Steps of a listener.

\* A listener that reads a packet keeps its answer, or drops that of a call
\* that is over.
LEMMA ReadFrameMapped ==
    ASSUME SwitchInv, SwitchInv', NEW i \in Slot, ReadFrame(i)
    PROVE  Promise!Next \/ UNCHANGED <<CallBar, MsgBar>>
<1>1. PICK f \in On(connectionPool[i], {"in"}) :
         LET target == pendingTransactions[f.corrID] IN
         /\ frames' = (frames \ {f}) \cup Move({f}, "gone")
         /\ IF target = NoRequest
            THEN Listen(i, "check") /\ UNCHANGED routing
            ELSE /\ Listen(i, "send")
                 /\ routing' = [routing EXCEPT ![i] = [answer |-> f.req, target |-> target]]
  BY DEF ReadFrame
<1>2. /\ f \in frames /\ f.stage = "in" /\ listenerPc[i] = "read"
      /\ UNCHANGED <<callVars, responseChan>>
  BY <1>1 DEF On, ReadFrame
<1>3. {f} \in SUBSET frames
  BY <1>2
<1>4. CASE pendingTransactions[f.corrID] = NoRequest
  BY <1>1, <1>2, <1>3, <1>4, NetworkMapped
<1>5. CASE pendingTransactions[f.corrID] # NoRequest
  <2>1. routing' = [routing EXCEPT ![i] = [answer |-> f.req,
                                           target |-> pendingTransactions[f.corrID]]]
    BY <1>1, <1>5
  <2>2. f.req \in Request /\ Placed /\ Placed'
    BY <1>2, PlacedHolds, PlacedNext DEF Placed
  <2>3. AnswerHeld(f.req)'
    BY <2>1 DEF AnswerHeld, SwitchInv, Inv, TypeOK
  <2>4. MsgBar[f.req] = "in" /\ MsgBar'[f.req] = "in"
    <3>1. MsgBar[f.req] = "in"
      BY <1>2, <2>2 DEF Placed, FrameAt
    <3> QED
      BY <2>2, <2>3, <3>1 DEF Placed
  <2>5. ASSUME NEW r \in Request, r # f.req PROVE MsgBar'[r] = MsgBar[r]
    <3>1. AnswerHeld(r)' <=> AnswerHeld(r)
      <4>1. routing[i].answer = NoRequest
        BY <1>2 DEF SwitchInv, Inv, AnswersRouted
      <4> QED
        BY <1>2, <2>1, <2>5, <4>1, SwitchAssumption
        DEF AnswerHeld, SwitchInv, Inv, TypeOK, SwitchAssumption
    <3>2. [f EXCEPT !.stage = "gone"].req = f.req
      <4>1. f \in Frame
        BY <1>2 DEF SwitchInv, Inv, TypeOK
      <4> QED
        BY <4>1 DEF Frame
    <3>3. StagesOf(r)' = StagesOf(r)
      BY <1>1, <2>5, <3>2 DEF StagesOf, Move
    <3> QED
      BY <3>1, <3>3 DEF MsgBar
  <2>6. UNCHANGED MsgBar
    <3>1. MsgBar' = [q \in Request |-> MsgBar'[q]] /\ MsgBar = [q \in Request |-> MsgBar[q]]
      BY DEF MsgBar
    <3> QED
      BY <2>4, <2>5, <3>1
  <2>7. UNCHANGED CallBar
    BY <1>2 DEF callVars, CallBar
  <2> QED
    BY <2>6, <2>7
<1> QED
  BY <1>4, <1>5

\* An answer goes from a listener into the empty channel of its call.
LEMMA SendMapped ==
    ASSUME SwitchInv, NEW i \in Slot, Send(i)
    PROVE  UNCHANGED <<CallBar, MsgBar>>
<1>1. PICK t \in Request : /\ listenerPc[i] = "send" /\ routing[i].target = t
                          /\ responseChan[t] = NoRequest /\ routing[i].answer = t
  BY DEF Send, SwitchInv, Inv, TypeOK, AnswersRouted, OneAnswer
<1>2. /\ responseChan' = [responseChan EXCEPT ![t] = t]
      /\ routing' = [routing EXCEPT ![i] = NothingToRoute]
      /\ UNCHANGED <<callVars, frames>>
  BY <1>1 DEF Send, netVars
<1>3. AnswerHeld(t) /\ AnswerHeld(t)'
  BY <1>1, <1>2 DEF AnswerHeld, SwitchInv, Inv, TypeOK
<1>4. ASSUME NEW r \in Request, r # t PROVE AnswerHeld(r)' <=> AnswerHeld(r)
  BY <1>1, <1>2, <1>4, SwitchAssumption
  DEF AnswerHeld, NothingToRoute, SwitchInv, Inv, TypeOK, SwitchAssumption
<1>5. UNCHANGED MsgBar
  BY <1>2, <1>3, <1>4, MsgsKept
<1>6. UNCHANGED CallBar
  BY <1>2 DEF callVars, CallBar
<1> QED
  BY <1>5, <1>6

------------------------------------------------------------------------------
\* The refinement.

\* Before any call the switch looks like one that nobody has called.
LEMMA PromiseInit == Init => Promise!Init
<1> SUFFICES ASSUME Init PROVE Promise!Init
  OBVIOUS
<1>1. \A r \in Request : StagesOf(r) = {} /\ ~AnswerHeld(r)
  BY SwitchAssumption
  DEF Init, StagesOf, AnswerHeld, NothingToRoute, SwitchAssumption
<1>2. MsgBar = [r \in Request |-> "unsent"]
  BY <1>1 DEF MsgBar
<1>3. CallBar = [r \in Request |-> "idle"]
  BY DEF Init, CallBar
<1> QED
  BY <1>2, <1>3 DEF Promise!Init

\* Every step is one of Exchange or is hidden from the callers.
LEMMA StepsMapped ==
    SwitchInv /\ SwitchInv' /\ [Next]_vars => [Promise!Next]_<<CallBar, MsgBar>>
<1> SUFFICES ASSUME SwitchInv, SwitchInv', [Next]_vars
             PROVE  Promise!Next \/ UNCHANGED <<CallBar, MsgBar>>
  OBVIOUS
<1> DEFINE Mapped == Promise!Next \/ UNCHANGED <<CallBar, MsgBar>>
<1>1. ASSUME UNCHANGED <<frames, routing, responseChan>>, UNCHANGED outcome,
             \A r \in Request : pc'[r] = "idle" <=> pc[r] = "idle"
      PROVE  UNCHANGED <<CallBar, MsgBar>>
  BY <1>1, CallsKept, MsgsKept DEF AnswerHeld
<1>2. ASSUME NEW r \in Request, Begin(r) PROVE Mapped
  BY <1>2, BeginMapped DEF Promise!Next
<1>3. ASSUME NEW r \in Request, Pick(r) PROVE Mapped
  <2>1. pc[r] = "pick" /\ UNCHANGED <<frames, routing, responseChan>>
    BY <1>3 DEF Pick, listenerVars, netVars
  <2>2. CASE Retry(r)
    BY <2>1, <2>2, RetryMapped DEF Promise!Next
  <2>3. CASE pc' = [pc EXCEPT ![r] = "write"] /\ UNCHANGED outcome
    BY <1>1, <2>1, <2>3 DEF SwitchInv, Inv, TypeOK
  <2> QED
    BY <1>3, <2>2, <2>3 DEF Pick, Goto
<1>4. ASSUME NEW r \in Request, WriteFails(r) PROVE Mapped
  BY <1>4, RetryMapped DEF WriteFails, listenerVars, netVars, Promise!Next
<1>5. ASSUME NEW r \in Request, Write(r) \/ WriteLost(r) PROVE Mapped
  BY <1>5, WriteMapped DEF Promise!Next
<1>6. ASSUME NEW r \in Request, Receive(r) PROVE Mapped
  BY <1>6, ReceiveMapped DEF Promise!Next
<1>7. ASSUME NEW r \in Request, TimesOut(r) \/ Cancelled(r) PROVE Mapped
  BY <1>7, GiveUpMapped DEF Promise!Next
<1>8. ASSUME NEW r \in Request, Cleanup(r) PROVE Mapped
  BY <1>1, <1>8 DEF Cleanup, Goto, listenerVars, netVars, SwitchInv, Inv, TypeOK
<1>9. ASSUME NEW r \in Request, ContextDone(r) PROVE Mapped
  BY <1>1, <1>9 DEF ContextDone, callVars, listenerVars, netVars
<1>10. ASSUME NEW i \in Slot, ReadFrame(i) PROVE Mapped
  BY <1>10, ReadFrameMapped
<1>11. ASSUME NEW i \in Slot, Send(i) PROVE Mapped
  BY <1>11, SendMapped
<1>12. ASSUME NEW i \in Slot, Listener(i), ~ReadFrame(i), ~Send(i) PROVE Mapped
  <2>1. UNCHANGED <<callVars, frames, routing, responseChan>>
    BY <1>12
    DEF Listener, LoopCheck, Ensure, Dialed, DialFails, Fetch, CheckShutdown, ReadTimesOut,
        ReadFails, CloseConnection, netVars
  <2> QED
    BY <1>1, <2>1 DEF callVars
<1>13. ASSUME StopBegins \/ UNCHANGED vars PROVE Mapped
  BY <1>1, <1>13 DEF StopBegins, vars, callVars, listenerVars, netVars
<1>14. ASSUME CloseAllConnections PROVE Mapped
  <2>1. {f \in frames : sockets'[f.sock] = "closed"} \in SUBSET frames
    OBVIOUS
  <2> QED
    BY <1>14, <2>1, NetworkMapped DEF CloseAllConnections, listenerVars
<1>15. ASSUME NEW s \in Socket, PeerResets(s) PROVE Mapped
  <2>1. On(s, Stage) \in SUBSET frames
    BY DEF On
  <2> QED
    BY <1>15, <2>1, NetworkMapped DEF PeerResets, listenerVars
<1>16. ASSUME NEW f \in frames, IssuerReads(f) \/ IssuerAnswers(f) PROVE Mapped
  <2>1. UNCHANGED CallBar
    BY <1>16 DEF IssuerReads, IssuerAnswers, Forward, callVars, CallBar
  <2> QED
    BY <1>16, <2>1, ForwardMapped
<1>17. ASSUME NEW f \in frames, IssuerDeclines(f) PROVE Mapped
  <2>1. {f} \in SUBSET frames
    OBVIOUS
  <2> QED
    BY <1>17, <2>1, NetworkMapped DEF IssuerDeclines, Forward, listenerVars
<1> QED
  BY <1>2, <1>3, <1>4, <1>5, <1>6, <1>7, <1>8, <1>9, <1>10, <1>11, <1>12, <1>13, <1>14, <1>15,
     <1>16, <1>17
  DEF Next, Handler

\* HandleTerminalRequest sends a request at most once and returns the answer to
\* it, a true report that nothing was sent, or an error that tells neither: for
\* any pool, number of attempts and calls fewer than the identifiers.
THEOREM SwitchImplementsExchange == Spec => ImplementsExchange
<1>1. SwitchInv /\ SwitchInv' /\ [Next]_vars => [Promise!Next]_<<CallBar, MsgBar>>
  BY StepsMapped
<1> QED
  BY <1>1, PromiseInit, SwitchInvHolds, PTL
  DEF Spec, ImplementsExchange, Promise!Spec, Promise!vars

==============================================================================
