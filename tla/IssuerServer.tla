------------------------------ MODULE IssuerServer ------------------------------
(***************************************************************************)
(* internal/issuer/tcp_server.go: one reader goroutine per connection takes *)
(* frames off its socket, gets a slot of the worker pool that all           *)
(* connections share, and starts a goroutine that authorizes the request    *)
(* and writes the answer under the connection's write mutex.                *)
(*                                                                          *)
(* A request stands for its TPDU header.  What the authorization does to    *)
(* the cards is one statement here (CardLedger has the details); what       *)
(* matters is when it takes effect and what the acquirer is told of it.     *)
(***************************************************************************)
EXTENDS Naturals, Sequences, FiniteSets

CONSTANTS
    Conn,       \* connections the issuer has accepted
    Request,    \* requests the acquirer sends, each once
    None,       \* no request, no connection
    PoolSize,   \* ISSUER_WORKER_POOL
    SendBuf     \* bound: answers a socket takes before Write blocks

ASSUME IssuerAssumption ==
    /\ IsFiniteSet(Request) /\ None \notin Request /\ None \notin Conn
    /\ PoolSize \in Nat \ {0} /\ SendBuf \in Nat \ {0}

VARIABLES
    via,         \* the connection each request was sent on
    inbox,       \* frames each socket holds that have not been read
    outbox,      \* answers each socket holds that the acquirer has not read
    received,    \* answers the acquirer has read
    peer,        \* whether the acquirer's end of each connection is there
    readerPc,    \* where the goroutine of handleConn is
    current,     \* the request a reader waits for a slot with
    turnedAway,  \* the requests dropped because the pool was saturated
    workerPool,  \* len(workerPool)
    workerPc,    \* where the goroutine of each request is
    ctxDone,     \* reqCtx is cancelled or past its deadline
    writeMu,     \* who holds the write mutex of each connection
    stmt,        \* the statement of each request at the database
    broken,      \* the requests whose database connection broke
    answer       \* what HandleHex returned for each request

netVars    == <<via, inbox, outbox, received, peer>>
readerVars == <<readerPc, current, turnedAway>>
workerVars == <<workerPc, writeMu, answer>>
dbVars     == <<stmt, broken>>
vars       == <<netVars, readerVars, workerPool, workerVars, ctxDone, dbVars>>

ReaderPc == {"read", "acquire", "close", "done"}
Working  == {"check", "handle", "await", "recheck", "lock", "write", "release"}
Verdict  == {"approved", "refused"}
Frame    == [tpdu : Request, answer : Verdict]

Init ==
    /\ via = [r \in Request |-> None]
    /\ inbox = [c \in Conn |-> <<>>]
    /\ outbox = [c \in Conn |-> <<>>]
    /\ received = [c \in Conn |-> <<>>]
    /\ peer = [c \in Conn |-> TRUE]
    /\ readerPc = [c \in Conn |-> "read"]
    /\ current = [c \in Conn |-> None]
    /\ turnedAway = {}
    /\ workerPool = 0
    /\ workerPc = [r \in Request |-> "none"]
    /\ ctxDone = [r \in Request |-> FALSE]
    /\ writeMu = [c \in Conn |-> None]
    /\ stmt = [r \in Request |-> "none"]
    /\ broken = {}
    /\ answer = [r \in Request |-> "none"]

Goto(r, loc) == workerPc' = [workerPc EXCEPT ![r] = loc]

\* HandleHex returns a response.
Decide(r, verdict) == answer' = [answer EXCEPT ![r] = verdict] /\ Goto(r, "recheck")

------------------------------------------------------------------------------
\* Faults that a change to the code could introduce; each breaks a property
\* below.  None is part of Next.

\* The slot is released at the end of the goroutine only, not by a defer.
LeakyCheck(r) ==
    /\ workerPc[r] = "check"
    /\ Goto(r, IF ctxDone[r] THEN "done" ELSE "handle")
    /\ UNCHANGED <<netVars, readerVars, workerPool, writeMu, answer, ctxDone, dbVars>>

\* The context is not looked at again before the write.
UncheckedRecheck(r) ==
    /\ workerPc[r] = "recheck"
    /\ Goto(r, "lock")
    /\ UNCHANGED <<netVars, readerVars, workerPool, writeMu, answer, ctxDone, dbVars>>

\* A saturated pool makes the reader wait until a slot is free.
PatientAcquireTimesOut(c) == FALSE /\ UNCHANGED vars

\* The goroutine writes the header variable of the read loop, not its own copy.
SharedHeaderWrite(r) ==
    LET c == via[r]
        t == IF current[c] = None THEN r ELSE current[c]
    IN
    /\ workerPc[r] = "write"
    /\ peer[c] /\ readerPc[c] # "done" /\ Len(outbox[c]) < SendBuf
    /\ outbox' = [outbox EXCEPT ![c] = Append(@, [tpdu |-> t, answer |-> answer[r]])]
    /\ writeMu' = [writeMu EXCEPT ![c] = None]
    /\ Goto(r, "release")
    /\ UNCHANGED <<via, inbox, received, peer, readerVars, workerPool, answer,
                   ctxDone, dbVars>>

\* The mutex is not given back when the write fails.
LockedWriteFails(r) ==
    /\ workerPc[r] = "write"
    /\ ~peer[via[r]] \/ readerPc[via[r]] = "done"
    /\ Goto(r, "release")
    /\ UNCHANGED <<netVars, readerVars, workerPool, writeMu, answer, ctxDone, dbVars>>

------------------------------------------------------------------------------
\* The acquirer's end of the sockets.

SendFrame(r, c) ==
    /\ via[r] = None /\ peer[c]
    /\ via' = [via EXCEPT ![r] = c]
    /\ inbox' = [inbox EXCEPT ![c] = Append(@, r)]
    /\ UNCHANGED <<outbox, received, peer, readerVars, workerPool, workerVars,
                   ctxDone, dbVars>>

AcquirerReads(c) ==
    /\ peer[c] /\ outbox[c] # <<>>
    /\ received' = [received EXCEPT ![c] = Append(@, Head(outbox[c]))]
    /\ outbox' = [outbox EXCEPT ![c] = Tail(@)]
    /\ UNCHANGED <<via, inbox, peer, readerVars, workerPool, workerVars, ctxDone, dbVars>>

\* The acquirer closes the connection, or the network breaks it: answers that
\* it has not read are lost.
PeerGone(c) ==
    /\ peer[c]
    /\ peer' = [peer EXCEPT ![c] = FALSE]
    /\ outbox' = [outbox EXCEPT ![c] = <<>>]
    /\ UNCHANGED <<via, inbox, received, readerVars, workerPool, workerVars,
                   ctxDone, dbVars>>

------------------------------------------------------------------------------
\* handleConn: the reader.

ReadFrame(c) ==
    /\ readerPc[c] = "read" /\ inbox[c] # <<>>
    /\ current' = [current EXCEPT ![c] = Head(inbox[c])]
    /\ inbox' = [inbox EXCEPT ![c] = Tail(@)]
    /\ readerPc' = [readerPc EXCEPT ![c] = "acquire"]
    /\ UNCHANGED <<via, outbox, received, peer, turnedAway, workerPool, workerVars,
                   ctxDone, dbVars>>

\* A slot is free: start the goroutine with a context of its own.
Acquire(c) ==
    /\ readerPc[c] = "acquire" /\ workerPool < PoolSize
    /\ workerPool' = workerPool + 1
    /\ Goto(current[c], "check")
    /\ current' = [current EXCEPT ![c] = None]
    /\ readerPc' = [readerPc EXCEPT ![c] = "read"]
    /\ UNCHANGED <<netVars, turnedAway, writeMu, answer, ctxDone, dbVars>>

\* The acquire timer fires: the request is dropped without an answer.  Go
\* picks any ready case, so a slot may have become free by now.
AcquireTimesOut(c) ==
    /\ readerPc[c] = "acquire"
    /\ turnedAway' = turnedAway \cup {current[c]}
    /\ current' = [current EXCEPT ![c] = None]
    /\ readerPc' = [readerPc EXCEPT ![c] = "read"]
    /\ UNCHANGED <<netVars, workerPool, workerVars, ctxDone, dbVars>>

\* The read fails and handleConn returns.  The deferred cancel ends the
\* contexts of the connection's requests.
ReadFails(c) ==
    /\ readerPc[c] = "read" /\ ~peer[c]
    /\ readerPc' = [readerPc EXCEPT ![c] = "close"]
    /\ ctxDone' = [r \in Request |-> ctxDone[r] \/ (via[r] = c /\ workerPc[r] \in Working)]
    /\ UNCHANGED <<netVars, current, turnedAway, workerPool, workerVars, dbVars>>

\* Then the deferred Close; what the socket still holds is gone.
Close(c) ==
    /\ readerPc[c] = "close"
    /\ readerPc' = [readerPc EXCEPT ![c] = "done"]
    /\ inbox' = [inbox EXCEPT ![c] = <<>>]
    /\ UNCHANGED <<via, outbox, received, peer, current, turnedAway, workerPool,
                   workerVars, ctxDone, dbVars>>

------------------------------------------------------------------------------
\* The goroutine of a request.

Check(r) ==
    /\ workerPc[r] = "check"
    /\ Goto(r, IF ctxDone[r] THEN "release" ELSE "handle")
    /\ UNCHANGED <<netVars, readerVars, workerPool, writeMu, answer, ctxDone, dbVars>>

\* HandleHex returns an error: the request cannot be parsed, or the response
\* that has been decided cannot be packed.
HandleFails(r) ==
    /\ workerPc[r] \in {"handle", "recheck"}
    /\ Goto(r, "release")
    /\ UNCHANGED <<netVars, readerVars, workerPool, writeMu, answer, ctxDone, dbVars>>

\* Refused before the database is asked: a bad amount, or no connection of the
\* pool could be had, which is sure when the context is done.
RefuseEarly(r) ==
    /\ workerPc[r] = "handle"
    /\ Decide(r, "refused")
    /\ UNCHANGED <<netVars, readerVars, workerPool, writeMu, ctxDone, dbVars>>

StartStatement(r) ==
    /\ workerPc[r] = "handle" /\ ~ctxDone[r]
    /\ stmt' = [stmt EXCEPT ![r] = "running"]
    /\ Goto(r, "await")
    /\ UNCHANGED <<netVars, readerVars, workerPool, writeMu, answer, ctxDone, broken>>

\* The database, whether anybody waits for it or not.
Execute(r) ==
    /\ stmt[r] = "running"
    /\ \E result \in {"committed", "refused"} : stmt' = [stmt EXCEPT ![r] = result]
    /\ UNCHANGED <<netVars, readerVars, workerPool, workerVars, ctxDone, broken>>

StatementReturns(r) ==
    /\ workerPc[r] = "await" /\ stmt[r] \in {"committed", "refused"}
    /\ Decide(r, IF stmt[r] = "committed" THEN "approved" ELSE "refused")
    /\ UNCHANGED <<netVars, readerVars, workerPool, writeMu, ctxDone, dbVars>>

\* pgx gives up waiting when the context is done; Authorize answers 96.
StatementCancelled(r) ==
    /\ workerPc[r] = "await" /\ ctxDone[r]
    /\ Decide(r, "refused")
    /\ UNCHANGED <<netVars, readerVars, workerPool, writeMu, ctxDone, dbVars>>

\* The connection to the database breaks; Authorize answers 96.
DatabaseLost(r) ==
    /\ workerPc[r] = "await"
    /\ broken' = broken \cup {r}
    /\ Decide(r, "refused")
    /\ UNCHANGED <<netVars, readerVars, workerPool, writeMu, ctxDone, stmt>>

\* The second look at the context, before the write.
Recheck(r) ==
    /\ workerPc[r] = "recheck"
    /\ Goto(r, IF ctxDone[r] THEN "release" ELSE "lock")
    /\ UNCHANGED <<netVars, readerVars, workerPool, writeMu, answer, ctxDone, dbVars>>

Lock(r) ==
    /\ workerPc[r] = "lock" /\ writeMu[via[r]] = None
    /\ writeMu' = [writeMu EXCEPT ![via[r]] = r]
    /\ Goto(r, "write")
    /\ UNCHANGED <<netVars, readerVars, workerPool, answer, ctxDone, dbVars>>

\* Write and unlock.  Write has no deadline: while the socket is full and the
\* acquirer does not read, the goroutine stays here and holds the mutex.
Write(r) ==
    LET c == via[r] IN
    /\ workerPc[r] = "write"
    /\ peer[c] /\ readerPc[c] # "done" /\ Len(outbox[c]) < SendBuf
    /\ outbox' = [outbox EXCEPT ![c] = Append(@, [tpdu |-> r, answer |-> answer[r]])]
    /\ writeMu' = [writeMu EXCEPT ![c] = None]
    /\ Goto(r, "release")
    /\ UNCHANGED <<via, inbox, received, peer, readerVars, workerPool, answer,
                   ctxDone, dbVars>>

\* The answer is lost, whether Write reports it or not.
WriteFails(r) ==
    /\ workerPc[r] = "write"
    /\ ~peer[via[r]] \/ readerPc[via[r]] = "done"
    /\ writeMu' = [writeMu EXCEPT ![via[r]] = None]
    /\ Goto(r, "release")
    /\ UNCHANGED <<netVars, readerVars, workerPool, answer, ctxDone, dbVars>>

\* The deferred release of the slot, and reqCancel; the response is gone with
\* the goroutine.
Release(r) ==
    /\ workerPc[r] = "release"
    /\ workerPool' = workerPool - 1
    /\ ctxDone' = [ctxDone EXCEPT ![r] = TRUE]
    /\ answer' = [answer EXCEPT ![r] = "none"]
    /\ Goto(r, "done")
    /\ UNCHANGED <<netVars, readerVars, writeMu, dbVars>>

\* REQUEST_TIMEOUT_SEC passes.
DeadlinePasses(r) ==
    /\ workerPc[r] \in Working /\ ~ctxDone[r]
    /\ ctxDone' = [ctxDone EXCEPT ![r] = TRUE]
    /\ UNCHANGED <<netVars, readerVars, workerPool, workerVars, dbVars>>

------------------------------------------------------------------------------
Reader(c) == ReadFrame(c) \/ Acquire(c) \/ AcquireTimesOut(c) \/ ReadFails(c) \/ Close(c)

Worker(r) ==
    \/ Check(r) \/ HandleFails(r) \/ RefuseEarly(r) \/ StartStatement(r)
    \/ StatementReturns(r) \/ StatementCancelled(r) \/ DatabaseLost(r)
    \/ Recheck(r) \/ Lock(r) \/ Write(r) \/ WriteFails(r) \/ Release(r)

Next ==
    \/ \E r \in Request, c \in Conn : SendFrame(r, c)
    \/ \E c \in Conn : AcquirerReads(c) \/ PeerGone(c) \/ Reader(c)
    \/ \E r \in Request : Worker(r) \/ Execute(r) \/ DeadlinePasses(r)

Spec == Init /\ [][Next]_vars

\* The readers run and the acquire timer fires; nothing is assumed about the
\* workers, the database or the acquirer.
ReaderSpec == Spec /\ \A c \in Conn : WF_vars(Reader(c))

\* The workers run too, the write mutex is fair to those who wait for it, and
\* every deadline passes.
WorkersRun ==
    \A r \in Request :
        WF_vars(Worker(r)) /\ SF_vars(Lock(r)) /\ WF_vars(DeadlinePasses(r))

\* The listeners of AcquirerSwitch read on.
AcquirerReadsOn == \A c \in Conn : WF_vars(AcquirerReads(c))

------------------------------------------------------------------------------
Workers == {r \in Request : workerPc[r] \in Working}

\* The answers on the sockets of a connection, read or not.
Answers(c) == received[c] \o outbox[c]

TypeOK ==
    /\ via \in [Request -> Conn \cup {None}]
    /\ inbox \in [Conn -> Seq(Request)]
    /\ outbox \in [Conn -> Seq(Frame)] /\ \A c \in Conn : Len(outbox[c]) <= SendBuf
    /\ received \in [Conn -> Seq(Frame)]
    /\ peer \in [Conn -> BOOLEAN]
    /\ readerPc \in [Conn -> ReaderPc]
    /\ current \in [Conn -> Request \cup {None}]
    /\ turnedAway \subseteq Request
    /\ workerPool \in 0 .. PoolSize
    /\ workerPc \in [Request -> Working \cup {"none", "done"}]
    /\ ctxDone \in [Request -> BOOLEAN]
    /\ writeMu \in [Conn -> Request \cup {None}]
    /\ stmt \in [Request -> {"none", "running", "committed", "refused"}]
    /\ broken \subseteq Request
    /\ answer \in [Request -> Verdict \cup {"none"}]

\* The slots taken are exactly the goroutines at work, over all connections,
\* and never more than the pool has: none leaks on an early return, none is
\* given back twice.
PoolExact == workerPool = Cardinality(Workers) /\ workerPool <= PoolSize

\* Whatever deadline, disconnect or late commit intervenes, an answer on a
\* socket is true: an approved request has been debited, a refused one never
\* will be, unless the database connection broke under it.
AnswersTruthful ==
    \A c \in Conn : \A k \in 1 .. Len(Answers(c)) :
        LET f == Answers(c)[k] IN
        IF f.answer = "approved"
        THEN stmt[f.tpdu] = "committed"
        ELSE f.tpdu \in broken \/ stmt[f.tpdu] \in {"none", "refused"}

\* A request is answered at most once, on the connection it came on.
AnsweredOnce ==
    \A c \in Conn : \A k \in 1 .. Len(Answers(c)) :
        LET r == Answers(c)[k].tpdu IN
        /\ via[r] = c /\ workerPc[r] \in {"release", "done"}
        /\ \A j \in 1 .. Len(Answers(c)) : Answers(c)[j].tpdu = r => j = k

\* A saturated pool, a stuck database or an acquirer that does not read delay
\* a connection's reader, but never stop it.
FramesConsumed ==
    \A r \in Request : via[r] # None ~>
        \/ workerPc[r] # "none" \/ r \in turnedAway
        \/ \E c \in Conn : via[r] = c /\ readerPc[c] = "done"

\* If the acquirer reads its answers, every goroutine ends and gives its slot
\* back, whatever fails on its way and whether or not the database answers.
WorkersFinish ==
    WorkersRun /\ AcquirerReadsOn =>
        \A r \in Request : workerPc[r] = "check" ~> workerPc[r] = "done"

------------------------------------------------------------------------------
\* Connections, slots, contexts and mutexes forgotten: how the issuer stands to
\* a request, and what it has decided or answered.
Answered(r) == via[r] # None /\ \E k \in 1 .. Len(Answers(via[r])) : Answers(via[r])[k].tpdu = r

AnswerTo(r) ==
    LET sent == Answers(via[r]) IN
    sent[CHOOSE k \in 1 .. Len(sent) : sent[k].tpdu = r].answer

SeatBar ==
    [r \in Request |->
        IF Answered(r) THEN "replied"
        ELSE IF workerPc[r] \in Working \ {"release"} THEN "busy"
        ELSE IF workerPc[r] = "none" /\ r \notin turnedAway THEN "idle"
        ELSE "dropped"]

VerdictBar ==
    [r \in Request |->
        IF SeatBar[r] = "replied" THEN AnswerTo(r)
        ELSE IF SeatBar[r] = "busy" THEN answer[r]
        ELSE "none"]

Promise == INSTANCE Authorizer WITH
    seat <- SeatBar, effect <- stmt, verdict <- VerdictBar, unclear <- broken

\* Whatever deadline, disconnect, full socket or late commit intervenes, a
\* request moves money at most once, and an answer that leaves the issuer stays
\* what was decided and is true of the money.
ImplementsAuthorizer == Promise!Spec

==============================================================================
