---------------------------- MODULE AcquirerSwitch ----------------------------
(***************************************************************************)
(* internal/acquirer/switch.go: many HTTP goroutines share a pool of TCP   *)
(* connections to the issuer.  Every call puts a fresh correlation         *)
(* identifier into the TPDU header; one listener goroutine per connection  *)
(* reads the answers and hands each to the call that waits for it.         *)
(*                                                                         *)
(* A frame keeps the request it belongs to, its identifier, the attempt    *)
(* and the socket that carried it, and how far it got.  The issuer is      *)
(* external here: it reads frames, answers them in any order, or does not. *)
(***************************************************************************)
EXTENDS Naturals, FiniteSets

CONSTANTS
    Request,      \* calls of HandleTerminalRequest, each made once
    NoRequest,    \* no response channel
    PoolSize,     \* ACQUIRER_TCP_POOL
    MaxAttempts,  \* the literal 3 of sendToIssuer
    CorrMod,      \* corrIDCounter is a uint32: it wraps at 2^32
    SendBuf,      \* bound: frames a socket takes before Write blocks
    MaxDials,     \* bound: connections that can be established in a behaviour
    MayStop       \* whether Stop is called at all: cmd/acquirer never does

\* Fewer calls than identifiers: with 2^32 identifiers and calls that last
\* seconds, two calls in progress never share one.
ASSUME SwitchAssumption ==
    /\ IsFiniteSet(Request) /\ NoRequest \notin Request
    /\ PoolSize \in Nat \ {0} /\ MaxAttempts \in Nat \ {0}
    /\ CorrMod \in Nat /\ Cardinality(Request) < CorrMod
    /\ SendBuf \in Nat \ {0} /\ MaxDials \in Nat
    /\ MayStop \in BOOLEAN

Slot     == 0 .. PoolSize - 1
CorrID   == 0 .. CorrMod - 1
Socket   == 1 .. MaxDials
NoSocket == 0
Nobody   == PoolSize             \* poolMutex is free

VARIABLES
    corrIDCounter,       \* s.corrIDCounter
    pendingTransactions, \* s.pendingTransactions: whose channel is stored under an identifier
    connectionPool,      \* s.connectionPool
    currentConnIndex,    \* s.currentConnIndex
    poolMutex,           \* the listener that holds s.poolMutex while it dials
    shutdown,            \* s.shutdownChan is closed
    stopPc,              \* where Stop is
    pc,                  \* where each call of HandleTerminalRequest is
    corrID,              \* the identifier of each call
    attempt,             \* the attempt of sendToIssuer each call is at
    conn,                \* the connection each call took from the pool
    responseChan,        \* the buffered channel of each call: the request the answer in it is for
    outcome,             \* what each call returned, and the request its answer was for
    ctxDone,             \* the context of each call is done
    listenerPc,          \* where each listener goroutine is
    routing,             \* a listener's answer on its way: the request it is for, the channel found
    sockets,             \* state of each socket
    frames               \* every frame written to a socket

localVars    == <<corrID, attempt, conn>>
callVars     == <<pc, localVars, outcome>>
listenerVars == <<listenerPc, routing>>
poolVars     == <<connectionPool, currentConnIndex, poolMutex>>
mapVars      == <<corrIDCounter, pendingTransactions>>
stopVars     == <<shutdown, stopPc>>
netVars      == <<sockets, frames>>
vars == <<callVars, listenerVars, poolVars, mapVars, stopVars, netVars,
          responseChan, ctxDone>>

CallPc     == {"idle", "pick", "write", "wait", "cleanup", "done"}
ListenerPc == {"loop", "ensure", "dialing", "fetch", "check", "read", "send",
               "close", "done"}
Outcome    == {"none", "response", "sendError", "timeout", "cancelled"}
Stage      == {"out", "issuer", "in", "gone"}
Frame      == [req : Request, corrID : CorrID, attempt : 0 .. MaxAttempts - 1,
               sock : Socket, stage : Stage]

NothingToRoute == [answer |-> NoRequest, target |-> NoRequest]

Init ==
    /\ corrIDCounter = 0
    /\ pendingTransactions = [c \in CorrID |-> NoRequest]
    /\ connectionPool = [i \in Slot |-> NoSocket]
    /\ currentConnIndex = 0
    /\ poolMutex = Nobody
    /\ shutdown = FALSE /\ stopPc = "idle"
    /\ pc = [r \in Request |-> "idle"]
    /\ corrID = [r \in Request |-> 0]
    /\ attempt = [r \in Request |-> 0]
    /\ conn = [r \in Request |-> NoSocket]
    /\ responseChan = [r \in Request |-> NoRequest]
    /\ outcome = [r \in Request |-> [kind |-> "none", answer |-> NoRequest]]
    /\ ctxDone = [r \in Request |-> FALSE]
    /\ listenerPc = [i \in Slot |-> "loop"]
    /\ routing = [i \in Slot |-> NothingToRoute]
    /\ sockets = [s \in Socket |-> "unused"]
    /\ frames = {}

On(s, stages)   == {f \in frames : f.sock = s /\ f.stage \in stages}
Move(fs, stage) == {[f EXCEPT !.stage = stage] : f \in fs}

\* The frame a call writes, at the given stage.
FrameOf(r, stage) ==
    [req |-> r, corrID |-> corrID[r], attempt |-> attempt[r],
     sock |-> conn[r], stage |-> stage]

Goto(r, loc)   == pc' = [pc EXCEPT ![r] = loc]
Listen(i, loc) == listenerPc' = [listenerPc EXCEPT ![i] = loc]

\* The call leaves with a result; the deferred Delete is still to come.
Return(r, kind, answer) ==
    /\ outcome' = [outcome EXCEPT ![r] = [kind |-> kind, answer |-> answer]]
    /\ Goto(r, "cleanup")

\* A fault, not part of Next: the attempts are not counted.
UncountedRetry(r) == Goto(r, "pick") /\ UNCHANGED <<attempt, outcome>>

\* An attempt failed: the next one after a pause, or the error after the last.
Retry(r) ==
    IF attempt[r] < MaxAttempts - 1
    THEN /\ attempt' = [attempt EXCEPT ![r] = @ + 1]
         /\ Goto(r, "pick") /\ UNCHANGED outcome
    ELSE Return(r, "sendError", NoRequest) /\ UNCHANGED attempt

------------------------------------------------------------------------------
\* Faults that a change to the code could introduce; each breaks a property
\* below.  None is part of Next.

\* The counter is read but not advanced.
SharedIdBegin(r) ==
    LET c == (corrIDCounter + 1) % CorrMod IN
    /\ pc[r] = "idle"
    /\ pendingTransactions' = [pendingTransactions EXCEPT ![c] = r]
    /\ corrID' = [corrID EXCEPT ![r] = c]
    /\ Goto(r, "pick")
    /\ UNCHANGED <<corrIDCounter, attempt, conn, outcome, listenerVars, poolVars,
                   stopVars, netVars, responseChan, ctxDone>>

\* A missing answer is retried like a failed write.
RetriedTimesOut(r) ==
    /\ pc[r] = "wait"
    /\ Retry(r)
    /\ UNCHANGED <<corrID, conn, listenerVars, poolVars, mapVars, stopVars,
                   netVars, responseChan, ctxDone>>

\* The entry is deleted on the normal way out only.
LeakyCleanup(r) ==
    /\ pc[r] = "cleanup"
    /\ pendingTransactions' = IF outcome[r].kind = "response"
                              THEN [pendingTransactions EXCEPT ![corrID[r]] = NoRequest]
                              ELSE pendingTransactions
    /\ attempt' = [attempt EXCEPT ![r] = 0]
    /\ conn' = [conn EXCEPT ![r] = NoSocket]
    /\ ctxDone' = [ctxDone EXCEPT ![r] = FALSE]
    /\ Goto(r, "done")
    /\ UNCHANGED <<corrIDCounter, corrID, outcome, listenerVars, poolVars,
                   stopVars, netVars, responseChan>>

\* The read loop does not look at shutdownChan.
DeafCheckShutdown(i) ==
    /\ listenerPc[i] = "check"
    /\ Listen(i, "read")
    /\ UNCHANGED <<callVars, routing, poolVars, mapVars, stopVars, netVars,
                   responseChan, ctxDone>>

\* The slot is emptied, the connection is not closed.
LeakyCloseConnection(i) ==
    /\ listenerPc[i] = "close" /\ poolMutex = Nobody
    /\ connectionPool' = [connectionPool EXCEPT ![i] = NoSocket]
    /\ Listen(i, "loop")
    /\ UNCHANGED <<callVars, routing, currentConnIndex, poolMutex, mapVars,
                   stopVars, netVars, responseChan, ctxDone>>

\* Stop does not wait for the listeners.
HastyCloseAllConnections ==
    /\ stopPc = "waiting" /\ poolMutex = Nobody
    /\ sockets' = [s \in Socket |-> IF \E i \in Slot : connectionPool[i] = s
                                    THEN "closed" ELSE sockets[s]]
    /\ connectionPool' = [i \in Slot |-> NoSocket]
    /\ stopPc' = "stopped"
    /\ UNCHANGED <<callVars, listenerVars, currentConnIndex, poolMutex, mapVars,
                   shutdown, frames, responseChan, ctxDone>>

------------------------------------------------------------------------------
\* HandleTerminalRequest and sendToIssuer.

\* Take an identifier and store the channel under it.  Nobody can know the
\* identifier before the store, so the two are one step.
Begin(r) ==
    LET c == (corrIDCounter + 1) % CorrMod IN
    /\ pc[r] = "idle"
    /\ corrIDCounter' = c
    /\ pendingTransactions' = [pendingTransactions EXCEPT ![c] = r]
    /\ corrID' = [corrID EXCEPT ![r] = c]
    /\ Goto(r, "pick")
    /\ UNCHANGED <<attempt, conn, outcome, listenerVars, poolVars, stopVars,
                   netVars, responseChan, ctxDone>>

\* Next connection of the pool, round-robin; an empty slot fails the attempt.
Pick(r) ==
    LET s == connectionPool[currentConnIndex] IN
    /\ pc[r] = "pick" /\ poolMutex = Nobody
    /\ currentConnIndex' = (currentConnIndex + 1) % PoolSize
    /\ IF s = NoSocket
       THEN Retry(r) /\ UNCHANGED conn
       ELSE /\ conn' = [conn EXCEPT ![r] = s]
            /\ Goto(r, "write") /\ UNCHANGED <<attempt, outcome>>
    /\ UNCHANGED <<corrID, connectionPool, poolMutex, listenerVars, mapVars,
                   stopVars, netVars, responseChan, ctxDone>>

\* conn.Write under the connection's write mutex.  It has no deadline: while
\* the peer takes nothing and the buffer is full, the call stays here.
Write(r) ==
    LET s == conn[r] IN
    /\ pc[r] = "write"
    /\ sockets[s] = "open" /\ Cardinality(On(s, {"out"})) < SendBuf
    /\ frames' = frames \cup {FrameOf(r, "out")}
    /\ Goto(r, "wait")
    /\ UNCHANGED <<localVars, outcome, listenerVars, poolVars, mapVars, stopVars,
                   sockets, responseChan, ctxDone>>

\* The peer is gone but the kernel does not know yet: Write succeeds, the
\* frame is lost.
WriteLost(r) ==
    /\ pc[r] = "write" /\ sockets[conn[r]] = "reset"
    /\ frames' = frames \cup {FrameOf(r, "gone")}
    /\ Goto(r, "wait")
    /\ UNCHANGED <<localVars, outcome, listenerVars, poolVars, mapVars, stopVars,
                   sockets, responseChan, ctxDone>>

\* Write returns an error: no complete frame has reached the issuer.
WriteFails(r) ==
    /\ pc[r] = "write" /\ sockets[conn[r]] \in {"reset", "closed"}
    /\ Retry(r)
    /\ UNCHANGED <<corrID, conn, listenerVars, poolVars, mapVars, stopVars,
                   netVars, responseChan, ctxDone>>

\* The three cases of the select; when several are ready Go picks any.
Receive(r) ==
    /\ pc[r] = "wait" /\ responseChan[r] # NoRequest
    /\ Return(r, "response", responseChan[r])
    /\ responseChan' = [responseChan EXCEPT ![r] = NoRequest]
    /\ UNCHANGED <<localVars, listenerVars, poolVars, mapVars, stopVars, netVars,
                   ctxDone>>

TimesOut(r) ==
    /\ pc[r] = "wait"
    /\ Return(r, "timeout", NoRequest)
    /\ UNCHANGED <<localVars, listenerVars, poolVars, mapVars, stopVars, netVars,
                   responseChan, ctxDone>>

Cancelled(r) ==
    /\ pc[r] = "wait" /\ ctxDone[r]
    /\ Return(r, "cancelled", NoRequest)
    /\ UNCHANGED <<localVars, listenerVars, poolVars, mapVars, stopVars, netVars,
                   responseChan, ctxDone>>

\* The deferred Delete, on every way out; the locals and the context of the
\* call are gone with it.
Cleanup(r) ==
    /\ pc[r] = "cleanup"
    /\ pendingTransactions' = [pendingTransactions EXCEPT ![corrID[r]] = NoRequest]
    /\ attempt' = [attempt EXCEPT ![r] = 0]
    /\ conn' = [conn EXCEPT ![r] = NoSocket]
    /\ ctxDone' = [ctxDone EXCEPT ![r] = FALSE]
    /\ Goto(r, "done")
    /\ UNCHANGED <<corrIDCounter, corrID, outcome, listenerVars, poolVars,
                   stopVars, netVars, responseChan>>

\* The client goes away or the request's deadline passes.
ContextDone(r) ==
    /\ pc[r] \notin {"idle", "cleanup", "done"} /\ ~ctxDone[r]
    /\ ctxDone' = [ctxDone EXCEPT ![r] = TRUE]
    /\ UNCHANGED <<callVars, listenerVars, poolVars, mapVars, stopVars, netVars,
                   responseChan>>

------------------------------------------------------------------------------
\* issuerListener, ensureConnection, listenForResponses, closeConnection.

LoopCheck(i) ==
    /\ listenerPc[i] = "loop"
    /\ Listen(i, IF shutdown THEN "done" ELSE "ensure")
    /\ UNCHANGED <<callVars, routing, poolVars, mapVars, stopVars, netVars,
                   responseChan, ctxDone>>

\* Dial unless the slot is filled.  poolMutex is held for the whole dial.
Ensure(i) ==
    /\ listenerPc[i] = "ensure" /\ poolMutex = Nobody
    /\ IF connectionPool[i] # NoSocket
       THEN Listen(i, "fetch") /\ UNCHANGED poolMutex
       ELSE Listen(i, "dialing") /\ poolMutex' = i
    /\ UNCHANGED <<callVars, routing, connectionPool, currentConnIndex, mapVars,
                   stopVars, netVars, responseChan, ctxDone>>

Dialed(i) ==
    LET s == CHOOSE t \in Socket : sockets[t] = "unused" IN
    /\ listenerPc[i] = "dialing" /\ \E t \in Socket : sockets[t] = "unused"
    /\ sockets' = [sockets EXCEPT ![s] = "open"]
    /\ connectionPool' = [connectionPool EXCEPT ![i] = s]
    /\ poolMutex' = Nobody
    /\ Listen(i, "fetch")
    /\ UNCHANGED <<callVars, routing, currentConnIndex, mapVars, stopVars, frames,
                   responseChan, ctxDone>>

DialFails(i) ==
    /\ listenerPc[i] = "dialing"
    /\ poolMutex' = Nobody
    /\ Listen(i, "loop")
    /\ UNCHANGED <<callVars, routing, connectionPool, currentConnIndex, mapVars,
                   stopVars, netVars, responseChan, ctxDone>>

\* listenForResponses takes the connection out of the pool's slot.
Fetch(i) ==
    /\ listenerPc[i] = "fetch" /\ poolMutex = Nobody
    /\ Listen(i, IF connectionPool[i] = NoSocket THEN "close" ELSE "check")
    /\ UNCHANGED <<callVars, routing, poolVars, mapVars, stopVars, netVars,
                   responseChan, ctxDone>>

CheckShutdown(i) ==
    /\ listenerPc[i] = "check"
    /\ Listen(i, IF shutdown THEN "loop" ELSE "read")
    /\ UNCHANGED <<callVars, routing, poolVars, mapVars, stopVars, netVars,
                   responseChan, ctxDone>>

\* One complete packet, and the lookup of its identifier.  An answer nobody
\* waits for is dropped.
ReadFrame(i) ==
    /\ listenerPc[i] = "read"
    /\ \E f \in On(connectionPool[i], {"in"}) :
          LET target == pendingTransactions[f.corrID] IN
          /\ frames' = (frames \ {f}) \cup Move({f}, "gone")
          /\ IF target = NoRequest
             THEN Listen(i, "check") /\ UNCHANGED routing
             ELSE /\ Listen(i, "send")
                  /\ routing' = [routing EXCEPT ![i] = [answer |-> f.req, target |-> target]]
    /\ UNCHANGED <<callVars, poolVars, mapVars, stopVars, sockets, responseChan,
                   ctxDone>>

\* The read deadline of 60s passes between two packets.
ReadTimesOut(i) ==
    /\ listenerPc[i] = "read"
    /\ Listen(i, "check")
    /\ UNCHANGED <<callVars, routing, poolVars, mapVars, stopVars, netVars,
                   responseChan, ctxDone>>

ReadFails(i) ==
    /\ listenerPc[i] = "read" /\ sockets[connectionPool[i]] = "reset"
    /\ Listen(i, "close")
    /\ UNCHANGED <<callVars, routing, poolVars, mapVars, stopVars, netVars,
                   responseChan, ctxDone>>

\* The non-blocking send; the call may be over by now, its channel still exists.
Send(i) ==
    LET t == routing[i].target IN
    /\ listenerPc[i] = "send"
    /\ responseChan' = IF responseChan[t] = NoRequest
                       THEN [responseChan EXCEPT ![t] = routing[i].answer]
                       ELSE responseChan
    /\ routing' = [routing EXCEPT ![i] = NothingToRoute]
    /\ Listen(i, "check")
    /\ UNCHANGED <<callVars, poolVars, mapVars, stopVars, netVars, ctxDone>>

CloseConnection(i) ==
    LET s == connectionPool[i] IN
    /\ listenerPc[i] = "close" /\ poolMutex = Nobody
    /\ sockets' = IF s = NoSocket THEN sockets ELSE [sockets EXCEPT ![s] = "closed"]
    /\ connectionPool' = [connectionPool EXCEPT ![i] = NoSocket]
    /\ Listen(i, "loop")
    /\ UNCHANGED <<callVars, routing, currentConnIndex, poolMutex, mapVars,
                   stopVars, frames, responseChan, ctxDone>>

------------------------------------------------------------------------------
\* Stop: close shutdownChan, wait for the listeners, close all connections.

StopBegins ==
    /\ MayStop /\ stopPc = "idle"
    /\ shutdown' = TRUE /\ stopPc' = "waiting"
    /\ UNCHANGED <<callVars, listenerVars, poolVars, mapVars, netVars,
                   responseChan, ctxDone>>

CloseAllConnections ==
    /\ stopPc = "waiting" /\ poolMutex = Nobody
    /\ \A i \in Slot : listenerPc[i] = "done"
    /\ sockets' = [s \in Socket |-> IF \E i \in Slot : connectionPool[i] = s
                                    THEN "closed" ELSE sockets[s]]
    /\ connectionPool' = [i \in Slot |-> NoSocket]
    /\ frames' = (frames \ {f \in frames : sockets'[f.sock] = "closed"})
                 \cup Move({f \in frames : sockets'[f.sock] = "closed"}, "gone")
    /\ stopPc' = "stopped"
    /\ UNCHANGED <<callVars, listenerVars, currentConnIndex, poolMutex, mapVars,
                   shutdown, responseChan, ctxDone>>

------------------------------------------------------------------------------
\* The issuer and the network.

\* The peer goes away; what is on the socket is lost.
PeerResets(s) ==
    /\ sockets[s] = "open"
    /\ sockets' = [sockets EXCEPT ![s] = "reset"]
    /\ frames' = (frames \ On(s, Stage)) \cup Move(On(s, Stage), "gone")
    /\ UNCHANGED <<callVars, listenerVars, poolVars, mapVars, stopVars,
                   responseChan, ctxDone>>

Forward(f, from, to) ==
    /\ f.stage = from
    /\ frames' = (frames \ {f}) \cup Move({f}, to)
    /\ UNCHANGED <<callVars, listenerVars, poolVars, mapVars, stopVars, sockets,
                   responseChan, ctxDone>>

IssuerReads(f)    == Forward(f, "out", "issuer")
IssuerAnswers(f)  == Forward(f, "issuer", "in")
IssuerDeclines(f) == Forward(f, "issuer", "gone")   \* busy, shutting down, or failed

------------------------------------------------------------------------------
Handler(r) ==
    \/ Write(r) \/ WriteLost(r) \/ WriteFails(r)
    \/ Receive(r) \/ TimesOut(r) \/ Cancelled(r) \/ Cleanup(r)

Listener(i) ==
    \/ LoopCheck(i) \/ Ensure(i) \/ Dialed(i) \/ DialFails(i) \/ Fetch(i)
    \/ CheckShutdown(i) \/ ReadFrame(i) \/ ReadTimesOut(i) \/ ReadFails(i)
    \/ Send(i) \/ CloseConnection(i)

Next ==
    \/ \E r \in Request : Begin(r) \/ Pick(r) \/ Handler(r) \/ ContextDone(r)
    \/ \E i \in Slot : Listener(i)
    \/ StopBegins \/ CloseAllConnections
    \/ \E s \in Socket : PeerResets(s)
    \/ \E f \in frames : IssuerReads(f) \/ IssuerAnswers(f) \/ IssuerDeclines(f)

Spec == Init /\ [][Next]_vars


\* The goroutines run; the timer of every waiting call fires.  poolMutex is
\* fair to waiters (Go hands it over after 1ms), hence SF where a listener that
\* dials again and again competes for it.
LocalFairness ==
    /\ \A r \in Request : WF_vars(Handler(r)) /\ SF_vars(Pick(r))
    /\ \A i \in Slot : WF_vars(Listener(i)) /\ SF_vars(Ensure(i) \/ CloseConnection(i))
    /\ WF_vars(CloseAllConnections)

\* The issuer keeps reading: its reader never waits longer than its own
\* acquire timeout (internal/issuer/tcp_server.go, handleConn).
IssuerFairness == WF_vars(\E f \in frames : IssuerReads(f))

FairSpec    == Spec /\ LocalFairness /\ IssuerFairness
StalledSpec == Spec /\ LocalFairness

------------------------------------------------------------------------------
TypeOK ==
    /\ corrIDCounter \in CorrID
    /\ pendingTransactions \in [CorrID -> Request \cup {NoRequest}]
    /\ connectionPool \in [Slot -> Socket \cup {NoSocket}]
    /\ currentConnIndex \in Slot
    /\ poolMutex \in Slot \cup {Nobody}
    /\ shutdown \in BOOLEAN /\ stopPc \in {"idle", "waiting", "stopped"}
    /\ pc \in [Request -> CallPc]
    /\ corrID \in [Request -> CorrID]
    /\ attempt \in [Request -> 0 .. MaxAttempts - 1]
    /\ conn \in [Request -> Socket \cup {NoSocket}]
    /\ responseChan \in [Request -> Request \cup {NoRequest}]
    /\ outcome \in [Request -> [kind : Outcome, answer : Request \cup {NoRequest}]]
    /\ ctxDone \in [Request -> BOOLEAN]
    /\ listenerPc \in [Slot -> ListenerPc]
    /\ routing \in [Slot -> [answer : Request \cup {NoRequest},
                             target : Request \cup {NoRequest}]]
    /\ sockets \in [Socket -> {"unused", "open", "reset", "closed"}]
    /\ frames \subseteq Frame

\* HandleTerminalRequest returns the answer to its own request or none: however
\* timeouts, late answers and reconnections interleave, no call is ever handed
\* the answer to another one.
NoCrossDelivery ==
    \A r \in Request :
        /\ responseChan[r] \in {r, NoRequest}
        /\ outcome[r].kind = "response" => outcome[r].answer = r

\* A call is registered from its first step to its deferred Delete, so that an
\* answer always finds it, and no identifier outlives its call.
PendingExact ==
    \A c \in CorrID, r \in Request :
        pendingTransactions[c] = r <=> pc[r] \notin {"idle", "done"} /\ corrID[r] = c

\* sendToIssuer retries only what has not been sent: the issuer sees a request
\* at most once, and a call that reports a send error was never seen at all.
SentAtMostOnce ==
    \A r \in Request :
        LET sent == {f \in frames : f.req = r} IN
        /\ Cardinality(sent) <= 1
        /\ outcome[r].kind = "sendError" => sent = {}

\* switch.go:269: the channel of size one is never full when the listener
\* sends, so no answer is dropped for that reason.
ChannelNeverFull ==
    \A i \in Slot : listenerPc[i] = "send" => responseChan[routing[i].target] = NoRequest

\* Every connection that has not been closed is in exactly one slot of the
\* pool, where its listener will close it.
NoSocketLeak ==
    \A s \in Socket : sockets[s] \in {"open", "reset"} =>
        Cardinality({i \in Slot : connectionPool[i] = s}) = 1

\* When Stop has returned no listener runs, no connection is open, none will be.
StoppedForGood ==
    stopPc = "stopped" =>
        /\ \A i \in Slot : listenerPc[i] = "done" /\ connectionPool[i] = NoSocket
        /\ \A s \in Socket : sockets[s] \in {"unused", "closed"}

\* Every call returns: dials that hold poolMutex, lost frames, resets and a
\* silent issuer delay it, none of them blocks it for ever.
CallsReturn == \A r \in Request : pc[r] = "pick" ~> pc[r] = "done"

\* Stop returns although listeners may be dialing, reading or closing.
StopReturns == stopPc = "waiting" ~> stopPc = "stopped"

\* The pool, its listeners and its identifiers forgotten: where a call stands
\* for its caller, and where its request or the answer to it is.
Seen == [none |-> "calling", response |-> "answered", sendError |-> "notSent",
         timeout |-> "unknown", cancelled |-> "unknown"]

CallBar ==
    [r \in Request |->
        IF pc[r] = "idle" THEN "idle"
        ELSE IF outcome[r].kind = "response" /\ outcome[r].answer # r THEN "crossed"
        ELSE Seen[outcome[r].kind]]

StagesOf(r) == {f.stage : f \in {g \in frames : g.req = r}}

\* Read by a listener, on its way to the call or in its channel.
AnswerHeld(r) ==
    \/ \E i \in Slot : routing[i].answer = r
    \/ responseChan[r] = r

MsgBar ==
    [r \in Request |->
        LET at == StagesOf(r) IN
        CASE "out" \in at                     -> "out"
          [] "issuer" \in at                  -> "issuer"
          [] "in" \in at \/ AnswerHeld(r)     -> "in"
          [] at = {"gone"} /\ ~AnswerHeld(r)  -> "gone"
          [] OTHER                            -> "unsent"]

Promise == INSTANCE Exchange WITH call <- CallBar, msg <- MsgBar

\* However retries, resets, late answers and reused channels interleave, a
\* call sends its request at most once and ends with the answer to it, with an
\* error that is true when it says that nothing was sent, or not knowing.
ImplementsExchange == Promise!Spec

------------------------------------------------------------------------------
\* What a comment claims of the code.

\* http.go:284: the blocking call has a timeout.
BlockingCallHasTimeout == \A r \in Request : pc[r] = "write" ~> pc[r] = "done"

==============================================================================
