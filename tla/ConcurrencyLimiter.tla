-------------------------- MODULE ConcurrencyLimiter --------------------------
(***************************************************************************)
(* internal/acquirer/middleware.go: the limiter every POST /v1/transaction *)
(* passes.  Each request runs the middleware in its own goroutine; all     *)
(* they share is three atomic counters.  Every access to a counter is one  *)
(* step here, so the interleavings are those of the lock-free code.        *)
(***************************************************************************)
EXTENDS Naturals, FiniteSets

CONSTANTS
    Request,    \* the requests that arrive, each once
    Limit,      \* cl.limit    (CONCURRENT_LIMIT)
    MaxQueue,   \* cl.maxQueue (MAX_QUEUE)
    HasTimer    \* cl.queueWaitTimeout > 0; QUEUE_WAIT_TIMEOUT_MS=0 makes it FALSE

\* envInt never yields a number below one, so neither limit can be zero; the
\* branch of Middleware for maxQueue = 0 is unreachable and is left out.
ASSUME LimiterAssumption ==
    /\ IsFiniteSet(Request)
    /\ Limit \in Nat \ {0}
    /\ MaxQueue \in Nat \ {0}
    /\ HasTimer \in BOOLEAN

VARIABLES
    inflight,       \* cl.inflight
    queued,         \* cl.queued
    rejectedTotal,  \* cl.rejectedTotal
    pc,             \* where each request's goroutine is in Middleware
    seen,           \* the value of inflight a goroutine loaded in tryAcquire
    ctxDone,        \* the request's context is cancelled or past its deadline
    timerFired      \* the queue-wait timer of the request has fired

vars == <<inflight, queued, rejectedTotal, pc, seen, ctxDone, timerFired>>

Polling  == {"pollLoad", "pollCAS", "checkCtx", "checkTimer"}
Finished == {"served", "rejected"}
Location == {"idle", "fastLoad", "fastCAS", "serveFast", "enqueue", "queueFull",
             "countFull", "serveSlow", "leaveServed", "leaveRejected"}
            \cup Polling \cup Finished

At(locs) == {r \in Request : pc[r] \in locs}

Init ==
    /\ inflight = 0
    /\ queued = 0
    /\ rejectedTotal = 0
    /\ pc = [r \in Request |-> "idle"]
    /\ seen = [r \in Request |-> 0]
    /\ ctxDone = [r \in Request |-> FALSE]
    /\ timerFired = [r \in Request |-> FALSE]

Goto(r, loc) == pc' = [pc EXCEPT ![r] = loc]

Arrive(r) ==
    /\ pc[r] = "idle"
    /\ Goto(r, "fastLoad")
    /\ UNCHANGED <<inflight, queued, rejectedTotal, seen, ctxDone, timerFired>>

------------------------------------------------------------------------------
\* Faults that a change to the code could introduce; each breaks a property
\* below.  None is part of Next.

\* An add in place of the compare-and-swap.
BlindAcquireCAS(r, from, again, got) ==
    /\ pc[r] = from
    /\ Goto(r, got)
    /\ inflight' = inflight + 1
    /\ UNCHANGED <<queued, rejectedTotal, seen, ctxDone, timerFired>>

\* The swap is retried with the value that was loaded before it failed.
StaleAcquireCAS(r, from, again, got) ==
    /\ pc[r] = from
    /\ IF inflight = seen[r]
       THEN Goto(r, got) /\ inflight' = inflight + 1
       ELSE UNCHANGED <<pc, inflight>>
    /\ UNCHANGED <<queued, rejectedTotal, seen, ctxDone, timerFired>>

\* The limit compared with > instead of >=.
OffByOneAcquireLoad(r, from, cas, none) ==
    /\ pc[r] = from
    /\ IF inflight > Limit
       THEN Goto(r, none) /\ UNCHANGED seen
       ELSE Goto(r, cas) /\ seen' = [seen EXCEPT ![r] = inflight]
    /\ UNCHANGED <<inflight, queued, rejectedTotal, ctxDone, timerFired>>

\* maxQueue compared with the value from before the increment.
OffByOneEnqueue(r) ==
    /\ pc[r] = "enqueue"
    /\ queued' = queued + 1
    /\ Goto(r, IF queued > MaxQueue THEN "queueFull" ELSE "pollLoad")
    /\ UNCHANGED <<inflight, rejectedTotal, seen, ctxDone, timerFired>>

\* A 408 that is not counted.
UncountedCheckCtx(r) ==
    /\ pc[r] = "checkCtx"
    /\ Goto(r, IF ctxDone[r] THEN "leaveRejected" ELSE "checkTimer")
    /\ UNCHANGED <<inflight, queued, rejectedTotal, seen, ctxDone, timerFired>>

------------------------------------------------------------------------------
\* tryAcquire, called once on the fast path and once per polling round.

\* Load inflight; give up at once when the limit is reached.
AcquireLoad(r, from, cas, none) ==
    /\ pc[r] = from
    /\ IF inflight >= Limit
       THEN Goto(r, none) /\ UNCHANGED seen
       ELSE Goto(r, cas) /\ seen' = [seen EXCEPT ![r] = inflight]
    /\ UNCHANGED <<inflight, queued, rejectedTotal, ctxDone, timerFired>>

\* Compare-and-swap; a goroutine that lost the race loads again.
AcquireCAS(r, from, again, got) ==
    /\ pc[r] = from
    /\ IF inflight = seen[r]
       THEN Goto(r, got) /\ inflight' = inflight + 1
       ELSE Goto(r, again) /\ UNCHANGED inflight
    /\ UNCHANGED <<queued, rejectedTotal, seen, ctxDone, timerFired>>

------------------------------------------------------------------------------
\* Fast path.

FastLoad(r) == AcquireLoad(r, "fastLoad", "fastCAS", "enqueue")
FastCAS(r)  == AcquireCAS(r, "fastCAS", "fastLoad", "serveFast")

\* The handler returns (or panics): the deferred release.
FinishFast(r) ==
    /\ pc[r] = "serveFast"
    /\ inflight' = inflight - 1
    /\ Goto(r, "served")
    /\ UNCHANGED <<queued, rejectedTotal, seen, ctxDone, timerFired>>

------------------------------------------------------------------------------
\* Slow path.

\* queuedNow := AddInt64(&cl.queued, 1), then the comparison with maxQueue.
Enqueue(r) ==
    /\ pc[r] = "enqueue"
    /\ queued' = queued + 1
    /\ Goto(r, IF queued + 1 > MaxQueue THEN "queueFull" ELSE "pollLoad")
    /\ UNCHANGED <<inflight, rejectedTotal, seen, ctxDone, timerFired>>

\* 429 queue_full: take the increment back, then count the rejection.
RejectQueueFull(r) ==
    /\ pc[r] = "queueFull"
    /\ queued' = queued - 1
    /\ Goto(r, "countFull")
    /\ UNCHANGED <<inflight, rejectedTotal, seen, ctxDone, timerFired>>

CountQueueFull(r) ==
    /\ pc[r] = "countFull"
    /\ rejectedTotal' = rejectedTotal + 1
    /\ Goto(r, "rejected")
    /\ UNCHANGED <<inflight, queued, seen, ctxDone, timerFired>>

PollLoad(r) == AcquireLoad(r, "pollLoad", "pollCAS", "checkCtx")
PollCAS(r)  == AcquireCAS(r, "pollCAS", "pollLoad", "serveSlow")

\* 408 when the context is done, otherwise on to the timer.
CheckCtx(r) ==
    /\ pc[r] = "checkCtx"
    /\ IF ctxDone[r]
       THEN Goto(r, "leaveRejected") /\ rejectedTotal' = rejectedTotal + 1
       ELSE Goto(r, "checkTimer") /\ UNCHANGED rejectedTotal
    /\ UNCHANGED <<inflight, queued, seen, ctxDone, timerFired>>

\* 429 queue_wait_timeout when the timer has fired, otherwise poll again.
CheckTimer(r) ==
    /\ pc[r] = "checkTimer"
    /\ IF timerFired[r]
       THEN Goto(r, "leaveRejected") /\ rejectedTotal' = rejectedTotal + 1
       ELSE Goto(r, "pollLoad") /\ UNCHANGED rejectedTotal
    /\ UNCHANGED <<inflight, queued, seen, ctxDone, timerFired>>

\* Deferred calls run last-in first-out: release comes before the decrement
\* of queued, which therefore still counts the request while it is served.
FinishSlow(r) ==
    /\ pc[r] = "serveSlow"
    /\ inflight' = inflight - 1
    /\ Goto(r, "leaveServed")
    /\ UNCHANGED <<queued, rejectedTotal, seen, ctxDone, timerFired>>

LeaveQueue(r) ==
    /\ pc[r] \in {"leaveServed", "leaveRejected"}
    /\ queued' = queued - 1
    /\ Goto(r, IF pc[r] = "leaveServed" THEN "served" ELSE "rejected")
    /\ UNCHANGED <<inflight, rejectedTotal, seen, ctxDone, timerFired>>

------------------------------------------------------------------------------
\* The clock and the client.  Both flags are read by polling goroutines only.

ContextDone(r) ==
    /\ pc[r] \in Polling /\ ~ctxDone[r]
    /\ ctxDone' = [ctxDone EXCEPT ![r] = TRUE]
    /\ UNCHANGED <<inflight, queued, rejectedTotal, pc, seen, timerFired>>

TimerFires(r) ==
    /\ HasTimer
    /\ pc[r] \in Polling /\ ~timerFired[r]
    /\ timerFired' = [timerFired EXCEPT ![r] = TRUE]
    /\ UNCHANGED <<inflight, queued, rejectedTotal, pc, seen, ctxDone>>

\* Every request has been answered; nothing is left to do.
AllAnswered ==
    /\ \A r \in Request : pc[r] \in Finished
    /\ UNCHANGED vars

Handler(r) ==
    \/ FastLoad(r) \/ FastCAS(r) \/ FinishFast(r)
    \/ Enqueue(r) \/ RejectQueueFull(r) \/ CountQueueFull(r)
    \/ PollLoad(r) \/ PollCAS(r) \/ CheckCtx(r) \/ CheckTimer(r)
    \/ FinishSlow(r) \/ LeaveQueue(r)

Next ==
    \/ \E r \in Request :
          Arrive(r) \/ Handler(r) \/ ContextDone(r) \/ TimerFires(r)
    \/ AllAnswered

Spec == Init /\ [][Next]_vars

\* The Go scheduler runs every goroutine, the handler behind the limiter is
\* bounded by its own timeouts, and requestTimeoutMiddleware gives every
\* request a deadline.  Nothing is assumed about the queue-wait timer.
Fairness == \A r \in Request : WF_vars(Handler(r)) /\ WF_vars(ContextDone(r))

FairSpec == Spec /\ Fairness

------------------------------------------------------------------------------
\* Which requests each counter stands for.

Holders  == At({"serveFast", "serveSlow"})
Counted  == At({"queueFull", "serveSlow", "leaveServed", "leaveRejected"} \cup Polling)
Admitted == Counted \ At({"queueFull"})

TypeOK ==
    /\ inflight \in Nat
    /\ queued \in Nat
    /\ rejectedTotal \in Nat
    /\ pc \in [Request -> Location]
    /\ seen \in [Request -> Nat]
    /\ ctxDone \in [Request -> BOOLEAN]
    /\ timerFired \in [Request -> BOOLEAN]

\* The slots in use are exactly the requests being served, and never more
\* than the limit: no interleaving of loads, swaps and releases over-admits,
\* leaks a slot or frees one twice.
SlotsExact == inflight = Cardinality(Holders) /\ inflight <= Limit

\* The counter queued is exact too, and although it overshoots MaxQueue while
\* a request that finds the queue full takes its increment back, no more
\* than MaxQueue requests are ever let into the queue.
QueueExact == queued = Cardinality(Counted) /\ Cardinality(Admitted) <= MaxQueue

\* Every 429 and 408 is counted once in acquirer_rejected_total, and nothing else is.
RejectionsExact == rejectedTotal = Cardinality(At({"rejected", "leaveRejected"}))

\* A request that lost or won a race is answered in the end: served, or
\* rejected when the queue is full, the wait too long or the client gone.
EveryRequestAnswered ==
    \A r \in Request : pc[r] = "fastLoad" ~> pc[r] \in Finished

------------------------------------------------------------------------------
\* What a client sees of a request, for the refinement of Admission.

PhaseAt(loc) ==
    CASE loc = "idle" -> "idle"
      [] loc \in {"serveFast", "serveSlow"} -> "serving"
      [] loc \in {"served", "leaveServed"} -> "served"
      [] loc \in {"rejected", "leaveRejected"} -> "rejected"
      [] OTHER -> "waiting"

Abstract == INSTANCE Admission WITH phase <- [r \in Request |-> PhaseAt(pc[r])]

\* The limiter implements Admission: whatever its goroutines interleave, a
\* client sees requests wait, be served at most Limit at a time, or be refused.
ImplementsAdmission == Abstract!Spec

==============================================================================
