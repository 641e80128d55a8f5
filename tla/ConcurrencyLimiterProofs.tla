----------------------- MODULE ConcurrencyLimiterProofs -----------------------
(***************************************************************************)
(* For every set of requests, every limit and every queue size: the three  *)
(* counters of the limiter are exact, the limits are never exceeded, and   *)
(* the limiter implements Admission.                                       *)
(***************************************************************************)
EXTENDS ConcurrencyLimiter, FiniteSetTheorems, TLAPS

\* A goroutine about to compare-and-swap saw a free slot.
SawFreeSlot ==
    \A r \in Request : pc[r] \in {"fastCAS", "pollCAS"} => seen[r] < Limit

\* The inductive invariant.  SlotsExact alone is not inductive: that the swap
\* keeps inflight within the limit rests on what its goroutine loaded before.
IInv == TypeOK /\ SlotsExact /\ QueueExact /\ RejectionsExact /\ SawFreeSlot

------------------------------------------------------------------------------
\* How many requests of f are at one of the locations locs.
Count(f, locs) == Cardinality({r \in Request : f[r] \in locs})

\* The counts are naturals, and zero before any request has arrived.
LEMMA CountIsNat ==
    ASSUME NEW f, NEW locs
    PROVE  IsFiniteSet({r \in Request : f[r] \in locs}) /\ Count(f, locs) \in Nat
<1>1. {r \in Request : f[r] \in locs} \subseteq Request
  OBVIOUS
<1>2. IsFiniteSet({r \in Request : f[r] \in locs})
  BY <1>1, FS_Subset, LimiterAssumption DEF LimiterAssumption
<1> QED
  BY <1>2, FS_CardinalityType DEF Count

------------------------------------------------------------------------------
\* The counters in terms of Count.
HolderLocs  == {"serveFast", "serveSlow"}
CountedLocs == {"queueFull", "serveSlow", "leaveServed", "leaveRejected"} \cup Polling
AdmittedLocs == CountedLocs \ {"queueFull"}
RefusedLocs == {"rejected", "leaveRejected"}

\* The sets of requests the counters stand for, as counts of places.
LEMMA CountersAsCounts ==
    /\ Cardinality(Holders)  = Count(pc, HolderLocs)
    /\ Cardinality(Counted)  = Count(pc, CountedLocs)
    /\ Cardinality(Admitted) = Count(pc, AdmittedLocs)
    /\ Cardinality(At(RefusedLocs)) = Count(pc, RefusedLocs)
<1>1. Admitted = At(AdmittedLocs)
  BY DEF Admitted, Counted, At, AdmittedLocs, CountedLocs
<1> QED
  BY <1>1 DEF Holders, Counted, At, Count, HolderLocs, CountedLocs, RefusedLocs

\* The part of the invariant that counts, stated without cardinalities.
CountInv ==
    /\ inflight = Count(pc, HolderLocs) /\ inflight <= Limit
    /\ queued = Count(pc, CountedLocs) /\ Count(pc, AdmittedLocs) <= MaxQueue
    /\ rejectedTotal = Count(pc, RefusedLocs)

\* The three properties of the counters, in terms of counts.
LEMMA CountInvMeaning ==
    /\ CountInv <=> SlotsExact /\ QueueExact /\ RejectionsExact
    /\ CountInv' <=> SlotsExact' /\ QueueExact' /\ RejectionsExact'
<1>1. CountInv <=> SlotsExact /\ QueueExact /\ RejectionsExact
  BY CountersAsCounts
  DEF CountInv, SlotsExact, QueueExact, RejectionsExact, RefusedLocs
<1> QED
  BY <1>1, PTL

\* The admitted requests are among the counted ones.
LEMMA AdmittedAmongCounted == Count(pc, AdmittedLocs) <= Count(pc, CountedLocs)
<1> DEFINE A == {r \in Request : pc[r] \in AdmittedLocs}
           C == {r \in Request : pc[r] \in CountedLocs}
<1>1. A \in SUBSET C
  BY DEF AdmittedLocs
<1>2. IsFiniteSet(C)
  BY CountIsNat
<1>3. Cardinality(A) <= Cardinality(C)
  BY <1>1, <1>2, FS_Subset
<1> QED
  BY <1>3 DEF Count

\* The limiter as NewConcurrencyLimiter makes it satisfies the invariant.
LEMMA InitEstablishes == Init => IInv
<1> SUFFICES ASSUME Init PROVE IInv
  OBVIOUS
<1>1. TypeOK /\ SawFreeSlot
  BY LimiterAssumption DEF Init, TypeOK, SawFreeSlot, Location, LimiterAssumption
<1>2. ASSUME NEW locs, "idle" \notin locs
      PROVE  Count(pc, locs) = 0
  <2>1. {r \in Request : pc[r] \in locs} = {}
    BY <1>2 DEF Init
  <2> QED
    BY <2>1, FS_EmptySet DEF Count
<1>3. CountInv
  <2>1. /\ "idle" \notin HolderLocs
        /\ "idle" \notin CountedLocs
        /\ "idle" \notin AdmittedLocs
        /\ "idle" \notin RefusedLocs
    BY DEF HolderLocs, CountedLocs, AdmittedLocs, RefusedLocs, Polling
  <2> QED
    BY <1>2, <2>1, LimiterAssumption DEF CountInv, Init, LimiterAssumption
<1> QED
  BY <1>1, <1>3, CountInvMeaning DEF IInv

------------------------------------------------------------------------------
\* Moving one request from one location to another changes the count of a set
\* of locations by one when the request enters or leaves the set, and else not.
LEMMA CountsAfterMove ==
    ASSUME TypeOK, NEW r \in Request, NEW loc \in Location, Goto(r, loc), NEW locs
    PROVE  /\ pc[r] \notin locs /\ loc \in locs => Count(pc', locs) = Count(pc, locs) + 1
           /\ pc[r] \in locs /\ loc \notin locs =>
                /\ Count(pc', locs) = Count(pc, locs) - 1
                /\ Count(pc, locs) > 0
           /\ (pc[r] \in locs <=> loc \in locs) => Count(pc', locs) = Count(pc, locs)
           /\ Count(pc, locs) \in Nat
<1> DEFINE A == {q \in Request : pc[q] \in locs}
           B == {q \in Request : pc'[q] \in locs}
<1>0. pc \in [Request -> Location] /\ pc' = [pc EXCEPT ![r] = loc]
  BY DEF TypeOK, Goto
<1>1. IsFiniteSet(A) /\ Cardinality(A) \in Nat
  BY CountIsNat DEF Count
<1>2. ASSUME pc[r] \notin locs, loc \in locs
      PROVE  Count(pc', locs) = Count(pc, locs) + 1
  <2>1. B = A \cup {r} /\ r \notin A
    BY <1>0, <1>2
  <2> HIDE DEF A, B
  <2>2. Cardinality(B) = Cardinality(A) + 1
    BY <1>1, <2>1, FS_AddElement
  <2> QED
    BY <2>2 DEF Count, A, B
<1>3. ASSUME pc[r] \in locs, loc \notin locs
      PROVE  Count(pc', locs) = Count(pc, locs) - 1 /\ Count(pc, locs) > 0
  <2>1. B = A \ {r} /\ r \in A
    BY <1>0, <1>3
  <2> HIDE DEF A, B
  <2>2. Cardinality(B) = Cardinality(A) - 1
    BY <1>1, <2>1, FS_RemoveElement
  <2>3. Cardinality(A) # 0
    BY <1>1, <2>1, FS_EmptySet
  <2> QED
    BY <1>1, <2>2, <2>3 DEF Count, A, B
<1>4. ASSUME pc[r] \in locs <=> loc \in locs
      PROVE  Count(pc', locs) = Count(pc, locs)
  <2>1. B = A
    BY <1>0, <1>4
  <2> QED
    BY <2>1 DEF Count
<1> QED
  BY <1>1, <1>2, <1>3, <1>4 DEF Count

\* What the step of one goroutine has to keep.
Kept == TypeOK' /\ CountInv' /\ SawFreeSlot'

\* Every access to a counter keeps the invariant.
LEMMA StepsKeepInvariant == IInv /\ [Next]_vars => IInv'
<1> SUFFICES ASSUME IInv, [Next]_vars PROVE Kept
  BY CountInvMeaning DEF IInv, Kept
<1> USE DEF Kept
<1>0. /\ CountInv /\ TypeOK /\ SawFreeSlot
      /\ Limit \in Nat /\ MaxQueue \in Nat
      /\ Count(pc, HolderLocs) \in Nat /\ Count(pc, CountedLocs) \in Nat
      /\ Count(pc, AdmittedLocs) \in Nat /\ Count(pc, RefusedLocs) \in Nat
      /\ Count(pc, AdmittedLocs) <= Count(pc, CountedLocs)
  BY CountInvMeaning, LimiterAssumption, CountIsNat, AdmittedAmongCounted
  DEF IInv, LimiterAssumption
<1>1. ASSUME NEW r \in Request, Arrive(r) PROVE Kept
  <2>1. pc[r] = "idle" /\ Goto(r, "fastLoad") /\ "fastLoad" \in Location
    BY <1>1 DEF Arrive, Location, Polling, Finished
  <2>2. /\ Count(pc', HolderLocs) = Count(pc, HolderLocs)
        /\ Count(pc', CountedLocs) = Count(pc, CountedLocs)
        /\ Count(pc', AdmittedLocs) = Count(pc, AdmittedLocs)
        /\ Count(pc', RefusedLocs) = Count(pc, RefusedLocs)
    BY <1>0, <2>1, CountsAfterMove
    DEF HolderLocs, CountedLocs, AdmittedLocs, RefusedLocs, Polling
  <2>3. CountInv'
    BY <1>0, <1>1, <2>1, <2>2
    DEF Arrive, CountInv, TypeOK
  <2>4. TypeOK' /\ SawFreeSlot'
    BY <1>0, <1>1, <2>1, <2>2, <2>3
    DEF Arrive, Goto, CountInv, TypeOK, SawFreeSlot
  <2> QED
    BY <2>3, <2>4
<1>2. ASSUME NEW r \in Request, FastLoad(r) PROVE Kept
  <2>1. CASE inflight >= Limit
    <3>1. pc[r] = "fastLoad" /\ Goto(r, "enqueue") /\ "enqueue" \in Location
      BY <1>2, <2>1 DEF FastLoad, AcquireLoad, Location, Polling, Finished
    <3>2. /\ Count(pc', HolderLocs) = Count(pc, HolderLocs)
          /\ Count(pc', CountedLocs) = Count(pc, CountedLocs)
          /\ Count(pc', AdmittedLocs) = Count(pc, AdmittedLocs)
          /\ Count(pc', RefusedLocs) = Count(pc, RefusedLocs)
      BY <1>0, <3>1, CountsAfterMove
      DEF HolderLocs, CountedLocs, AdmittedLocs, RefusedLocs, Polling
    <3>3. CountInv'
      BY <1>0, <1>2, <2>1, <3>1, <3>2
      DEF FastLoad, AcquireLoad, CountInv, TypeOK
    <3>4. TypeOK' /\ SawFreeSlot'
      BY <1>0, <1>2, <2>1, <3>1, <3>2, <3>3
      DEF FastLoad, AcquireLoad, Goto, CountInv, TypeOK, SawFreeSlot
    <3> QED
      BY <3>3, <3>4
  <2>2. CASE ~(inflight >= Limit)
    <3>1. pc[r] = "fastLoad" /\ Goto(r, "fastCAS") /\ "fastCAS" \in Location
      BY <1>2, <2>2 DEF FastLoad, AcquireLoad, Location, Polling, Finished
    <3>2. /\ Count(pc', HolderLocs) = Count(pc, HolderLocs)
          /\ Count(pc', CountedLocs) = Count(pc, CountedLocs)
          /\ Count(pc', AdmittedLocs) = Count(pc, AdmittedLocs)
          /\ Count(pc', RefusedLocs) = Count(pc, RefusedLocs)
      BY <1>0, <3>1, CountsAfterMove
      DEF HolderLocs, CountedLocs, AdmittedLocs, RefusedLocs, Polling
    <3>3. CountInv'
      BY <1>0, <1>2, <2>2, <3>1, <3>2
      DEF FastLoad, AcquireLoad, CountInv, TypeOK
    <3>4. TypeOK' /\ SawFreeSlot'
      BY <1>0, <1>2, <2>2, <3>1, <3>2, <3>3
      DEF FastLoad, AcquireLoad, Goto, CountInv, TypeOK, SawFreeSlot
    <3> QED
      BY <3>3, <3>4
  <2> QED
    BY <1>2, <2>1, <2>2
<1>3. ASSUME NEW r \in Request, FastCAS(r) PROVE Kept
  <2>1. CASE inflight = seen[r]
    <3>1. pc[r] = "fastCAS" /\ inflight < Limit /\ inflight' = inflight + 1
      BY <1>0, <1>3, <2>1 DEF FastCAS, AcquireCAS, SawFreeSlot
    <3>2. pc[r] = "fastCAS" /\ Goto(r, "serveFast") /\ "serveFast" \in Location
      BY <1>3, <2>1 DEF FastCAS, AcquireCAS, Location, Polling, Finished
    <3>3. /\ Count(pc', HolderLocs) = Count(pc, HolderLocs) + 1
          /\ Count(pc', CountedLocs) = Count(pc, CountedLocs)
          /\ Count(pc', AdmittedLocs) = Count(pc, AdmittedLocs)
          /\ Count(pc', RefusedLocs) = Count(pc, RefusedLocs)
      BY <1>0, <3>2, CountsAfterMove
      DEF HolderLocs, CountedLocs, AdmittedLocs, RefusedLocs, Polling
    <3>4. UNCHANGED <<queued, rejectedTotal>>
      BY <1>3, <2>1 DEF FastCAS, AcquireCAS
    <3>5. CountInv'
      BY <1>0, <3>1, <3>3, <3>4
      DEF CountInv, TypeOK
    <3>6. TypeOK' /\ SawFreeSlot'
      BY <1>0, <1>3, <2>1, <3>2, <3>3, <3>5
      DEF FastCAS, AcquireCAS, Goto, CountInv, TypeOK, SawFreeSlot
    <3> QED
      BY <3>5, <3>6
  <2>2. CASE inflight # seen[r]
    <3>1. pc[r] = "fastCAS" /\ Goto(r, "fastLoad") /\ "fastLoad" \in Location
      BY <1>3, <2>2 DEF FastCAS, AcquireCAS, Location, Polling, Finished
    <3>2. /\ Count(pc', HolderLocs) = Count(pc, HolderLocs)
          /\ Count(pc', CountedLocs) = Count(pc, CountedLocs)
          /\ Count(pc', AdmittedLocs) = Count(pc, AdmittedLocs)
          /\ Count(pc', RefusedLocs) = Count(pc, RefusedLocs)
      BY <1>0, <3>1, CountsAfterMove
      DEF HolderLocs, CountedLocs, AdmittedLocs, RefusedLocs, Polling
    <3>3. CountInv'
      BY <1>0, <1>3, <2>2, <3>1, <3>2
      DEF FastCAS, AcquireCAS, CountInv, TypeOK
    <3>4. TypeOK' /\ SawFreeSlot'
      BY <1>0, <1>3, <2>2, <3>1, <3>2, <3>3
      DEF FastCAS, AcquireCAS, Goto, CountInv, TypeOK, SawFreeSlot
    <3> QED
      BY <3>3, <3>4
  <2> QED
    BY <1>3, <2>1, <2>2
<1>4. ASSUME NEW r \in Request, FinishFast(r) PROVE Kept
  <2>1. pc[r] = "serveFast" /\ Goto(r, "served") /\ "served" \in Location
    BY <1>4 DEF FinishFast, Location, Polling, Finished
  <2>2. /\ Count(pc', HolderLocs) = Count(pc, HolderLocs) - 1
        /\ Count(pc', CountedLocs) = Count(pc, CountedLocs)
        /\ Count(pc', AdmittedLocs) = Count(pc, AdmittedLocs)
        /\ Count(pc', RefusedLocs) = Count(pc, RefusedLocs)
        /\ Count(pc', HolderLocs) \in Nat
    BY <1>0, <2>1, CountsAfterMove, CountIsNat
    DEF HolderLocs, CountedLocs, AdmittedLocs, RefusedLocs, Polling
  <2>3. CountInv'
    BY <1>0, <1>4, <2>1, <2>2
    DEF FinishFast, CountInv, TypeOK
  <2>4. TypeOK' /\ SawFreeSlot'
    BY <1>0, <1>4, <2>1, <2>2, <2>3
    DEF FinishFast, Goto, CountInv, TypeOK, SawFreeSlot
  <2> QED
    BY <2>3, <2>4
<1>5. ASSUME NEW r \in Request, Enqueue(r) PROVE Kept
  <2>1. CASE queued + 1 > MaxQueue
    <3>1. pc[r] = "enqueue" /\ Goto(r, "queueFull") /\ "queueFull" \in Location
      BY <1>5, <2>1 DEF Enqueue, Location, Polling, Finished
    <3>2. /\ Count(pc', HolderLocs) = Count(pc, HolderLocs)
          /\ Count(pc', CountedLocs) = Count(pc, CountedLocs) + 1
          /\ Count(pc', AdmittedLocs) = Count(pc, AdmittedLocs)
          /\ Count(pc', RefusedLocs) = Count(pc, RefusedLocs)
      BY <1>0, <3>1, CountsAfterMove
      DEF HolderLocs, CountedLocs, AdmittedLocs, RefusedLocs, Polling
    <3>3. CountInv'
      BY <1>0, <1>5, <2>1, <3>1, <3>2
      DEF Enqueue, CountInv, TypeOK
    <3>4. TypeOK' /\ SawFreeSlot'
      BY <1>0, <1>5, <2>1, <3>1, <3>2, <3>3
      DEF Enqueue, Goto, CountInv, TypeOK, SawFreeSlot
    <3> QED
      BY <3>3, <3>4
  <2>2. CASE ~(queued + 1 > MaxQueue)
    <3>1. pc[r] = "enqueue" /\ Goto(r, "pollLoad") /\ "pollLoad" \in Location
      BY <1>5, <2>2 DEF Enqueue, Location, Polling, Finished
    <3>2. /\ Count(pc', HolderLocs) = Count(pc, HolderLocs)
          /\ Count(pc', CountedLocs) = Count(pc, CountedLocs) + 1
          /\ Count(pc', AdmittedLocs) = Count(pc, AdmittedLocs) + 1
          /\ Count(pc', RefusedLocs) = Count(pc, RefusedLocs)
      BY <1>0, <3>1, CountsAfterMove
      DEF HolderLocs, CountedLocs, AdmittedLocs, RefusedLocs, Polling
    <3>3. CountInv'
      BY <1>0, <1>5, <2>2, <3>1, <3>2
      DEF Enqueue, CountInv, TypeOK
    <3>4. TypeOK' /\ SawFreeSlot'
      BY <1>0, <1>5, <2>2, <3>1, <3>2, <3>3
      DEF Enqueue, Goto, CountInv, TypeOK, SawFreeSlot
    <3> QED
      BY <3>3, <3>4
  <2> QED
    BY <1>5, <2>1, <2>2
<1>6. ASSUME NEW r \in Request, RejectQueueFull(r) PROVE Kept
  <2>1. pc[r] = "queueFull" /\ Goto(r, "countFull") /\ "countFull" \in Location
    BY <1>6 DEF RejectQueueFull, Location, Polling, Finished
  <2>2. /\ Count(pc', HolderLocs) = Count(pc, HolderLocs)
        /\ Count(pc', CountedLocs) = Count(pc, CountedLocs) - 1
        /\ Count(pc', AdmittedLocs) = Count(pc, AdmittedLocs)
        /\ Count(pc', RefusedLocs) = Count(pc, RefusedLocs)
        /\ Count(pc', CountedLocs) \in Nat
    BY <1>0, <2>1, CountsAfterMove, CountIsNat
    DEF HolderLocs, CountedLocs, AdmittedLocs, RefusedLocs, Polling
  <2>3. CountInv'
    BY <1>0, <1>6, <2>1, <2>2
    DEF RejectQueueFull, CountInv, TypeOK
  <2>4. TypeOK' /\ SawFreeSlot'
    BY <1>0, <1>6, <2>1, <2>2, <2>3
    DEF RejectQueueFull, Goto, CountInv, TypeOK, SawFreeSlot
  <2> QED
    BY <2>3, <2>4
<1>7. ASSUME NEW r \in Request, CountQueueFull(r) PROVE Kept
  <2>1. pc[r] = "countFull" /\ Goto(r, "rejected") /\ "rejected" \in Location
    BY <1>7 DEF CountQueueFull, Location, Polling, Finished
  <2>2. /\ Count(pc', HolderLocs) = Count(pc, HolderLocs)
        /\ Count(pc', CountedLocs) = Count(pc, CountedLocs)
        /\ Count(pc', AdmittedLocs) = Count(pc, AdmittedLocs)
        /\ Count(pc', RefusedLocs) = Count(pc, RefusedLocs) + 1
    BY <1>0, <2>1, CountsAfterMove
    DEF HolderLocs, CountedLocs, AdmittedLocs, RefusedLocs, Polling
  <2>3. CountInv'
    BY <1>0, <1>7, <2>1, <2>2
    DEF CountQueueFull, CountInv, TypeOK
  <2>4. TypeOK' /\ SawFreeSlot'
    BY <1>0, <1>7, <2>1, <2>2, <2>3
    DEF CountQueueFull, Goto, CountInv, TypeOK, SawFreeSlot
  <2> QED
    BY <2>3, <2>4
<1>8. ASSUME NEW r \in Request, PollLoad(r) PROVE Kept
  <2>1. CASE inflight >= Limit
    <3>1. pc[r] = "pollLoad" /\ Goto(r, "checkCtx") /\ "checkCtx" \in Location
      BY <1>8, <2>1 DEF PollLoad, AcquireLoad, Location, Polling, Finished
    <3>2. /\ Count(pc', HolderLocs) = Count(pc, HolderLocs)
          /\ Count(pc', CountedLocs) = Count(pc, CountedLocs)
          /\ Count(pc', AdmittedLocs) = Count(pc, AdmittedLocs)
          /\ Count(pc', RefusedLocs) = Count(pc, RefusedLocs)
      BY <1>0, <3>1, CountsAfterMove
      DEF HolderLocs, CountedLocs, AdmittedLocs, RefusedLocs, Polling
    <3>3. CountInv'
      BY <1>0, <1>8, <2>1, <3>1, <3>2
      DEF PollLoad, AcquireLoad, CountInv, TypeOK
    <3>4. TypeOK' /\ SawFreeSlot'
      BY <1>0, <1>8, <2>1, <3>1, <3>2, <3>3
      DEF PollLoad, AcquireLoad, Goto, CountInv, TypeOK, SawFreeSlot
    <3> QED
      BY <3>3, <3>4
  <2>2. CASE ~(inflight >= Limit)
    <3>1. pc[r] = "pollLoad" /\ Goto(r, "pollCAS") /\ "pollCAS" \in Location
      BY <1>8, <2>2 DEF PollLoad, AcquireLoad, Location, Polling, Finished
    <3>2. /\ Count(pc', HolderLocs) = Count(pc, HolderLocs)
          /\ Count(pc', CountedLocs) = Count(pc, CountedLocs)
          /\ Count(pc', AdmittedLocs) = Count(pc, AdmittedLocs)
          /\ Count(pc', RefusedLocs) = Count(pc, RefusedLocs)
      BY <1>0, <3>1, CountsAfterMove
      DEF HolderLocs, CountedLocs, AdmittedLocs, RefusedLocs, Polling
    <3>3. CountInv'
      BY <1>0, <1>8, <2>2, <3>1, <3>2
      DEF PollLoad, AcquireLoad, CountInv, TypeOK
    <3>4. TypeOK' /\ SawFreeSlot'
      BY <1>0, <1>8, <2>2, <3>1, <3>2, <3>3
      DEF PollLoad, AcquireLoad, Goto, CountInv, TypeOK, SawFreeSlot
    <3> QED
      BY <3>3, <3>4
  <2> QED
    BY <1>8, <2>1, <2>2
<1>9. ASSUME NEW r \in Request, PollCAS(r) PROVE Kept
  <2>1. CASE inflight = seen[r]
    <3>1. pc[r] = "pollCAS" /\ inflight < Limit /\ inflight' = inflight + 1
      BY <1>0, <1>9, <2>1 DEF PollCAS, AcquireCAS, SawFreeSlot
    <3>2. pc[r] = "pollCAS" /\ Goto(r, "serveSlow") /\ "serveSlow" \in Location
      BY <1>9, <2>1 DEF PollCAS, AcquireCAS, Location, Polling, Finished
    <3>3. /\ Count(pc', HolderLocs) = Count(pc, HolderLocs) + 1
          /\ Count(pc', CountedLocs) = Count(pc, CountedLocs)
          /\ Count(pc', AdmittedLocs) = Count(pc, AdmittedLocs)
          /\ Count(pc', RefusedLocs) = Count(pc, RefusedLocs)
      BY <1>0, <3>2, CountsAfterMove
      DEF HolderLocs, CountedLocs, AdmittedLocs, RefusedLocs, Polling
    <3>4. UNCHANGED <<queued, rejectedTotal>>
      BY <1>9, <2>1 DEF PollCAS, AcquireCAS
    <3>5. CountInv'
      BY <1>0, <3>1, <3>3, <3>4
      DEF CountInv, TypeOK
    <3>6. TypeOK' /\ SawFreeSlot'
      BY <1>0, <1>9, <2>1, <3>2, <3>3, <3>5
      DEF PollCAS, AcquireCAS, Goto, CountInv, TypeOK, SawFreeSlot
    <3> QED
      BY <3>5, <3>6
  <2>2. CASE inflight # seen[r]
    <3>1. pc[r] = "pollCAS" /\ Goto(r, "pollLoad") /\ "pollLoad" \in Location
      BY <1>9, <2>2 DEF PollCAS, AcquireCAS, Location, Polling, Finished
    <3>2. /\ Count(pc', HolderLocs) = Count(pc, HolderLocs)
          /\ Count(pc', CountedLocs) = Count(pc, CountedLocs)
          /\ Count(pc', AdmittedLocs) = Count(pc, AdmittedLocs)
          /\ Count(pc', RefusedLocs) = Count(pc, RefusedLocs)
      BY <1>0, <3>1, CountsAfterMove
      DEF HolderLocs, CountedLocs, AdmittedLocs, RefusedLocs, Polling
    <3>3. CountInv'
      BY <1>0, <1>9, <2>2, <3>1, <3>2
      DEF PollCAS, AcquireCAS, CountInv, TypeOK
    <3>4. TypeOK' /\ SawFreeSlot'
      BY <1>0, <1>9, <2>2, <3>1, <3>2, <3>3
      DEF PollCAS, AcquireCAS, Goto, CountInv, TypeOK, SawFreeSlot
    <3> QED
      BY <3>3, <3>4
  <2> QED
    BY <1>9, <2>1, <2>2
<1>10. ASSUME NEW r \in Request, CheckCtx(r) PROVE Kept
  <2>1. CASE ctxDone[r]
    <3>1. pc[r] = "checkCtx" /\ Goto(r, "leaveRejected") /\ "leaveRejected" \in Location
      BY <1>10, <2>1 DEF CheckCtx, Location, Polling, Finished
    <3>2. /\ Count(pc', HolderLocs) = Count(pc, HolderLocs)
          /\ Count(pc', CountedLocs) = Count(pc, CountedLocs)
          /\ Count(pc', AdmittedLocs) = Count(pc, AdmittedLocs)
          /\ Count(pc', RefusedLocs) = Count(pc, RefusedLocs) + 1
      BY <1>0, <3>1, CountsAfterMove
      DEF HolderLocs, CountedLocs, AdmittedLocs, RefusedLocs, Polling
    <3>3. CountInv'
      BY <1>0, <1>10, <2>1, <3>1, <3>2
      DEF CheckCtx, CountInv, TypeOK
    <3>4. TypeOK' /\ SawFreeSlot'
      BY <1>0, <1>10, <2>1, <3>1, <3>2, <3>3
      DEF CheckCtx, Goto, CountInv, TypeOK, SawFreeSlot
    <3> QED
      BY <3>3, <3>4
  <2>2. CASE ~ctxDone[r]
    <3>1. pc[r] = "checkCtx" /\ Goto(r, "checkTimer") /\ "checkTimer" \in Location
      BY <1>10, <2>2 DEF CheckCtx, Location, Polling, Finished
    <3>2. /\ Count(pc', HolderLocs) = Count(pc, HolderLocs)
          /\ Count(pc', CountedLocs) = Count(pc, CountedLocs)
          /\ Count(pc', AdmittedLocs) = Count(pc, AdmittedLocs)
          /\ Count(pc', RefusedLocs) = Count(pc, RefusedLocs)
      BY <1>0, <3>1, CountsAfterMove
      DEF HolderLocs, CountedLocs, AdmittedLocs, RefusedLocs, Polling
    <3>3. CountInv'
      BY <1>0, <1>10, <2>2, <3>1, <3>2
      DEF CheckCtx, CountInv, TypeOK
    <3>4. TypeOK' /\ SawFreeSlot'
      BY <1>0, <1>10, <2>2, <3>1, <3>2, <3>3
      DEF CheckCtx, Goto, CountInv, TypeOK, SawFreeSlot
    <3> QED
      BY <3>3, <3>4
  <2> QED
    BY <1>10, <2>1, <2>2
<1>11. ASSUME NEW r \in Request, CheckTimer(r) PROVE Kept
  <2>1. CASE timerFired[r]
    <3>1. pc[r] = "checkTimer" /\ Goto(r, "leaveRejected") /\ "leaveRejected" \in Location
      BY <1>11, <2>1 DEF CheckTimer, Location, Polling, Finished
    <3>2. /\ Count(pc', HolderLocs) = Count(pc, HolderLocs)
          /\ Count(pc', CountedLocs) = Count(pc, CountedLocs)
          /\ Count(pc', AdmittedLocs) = Count(pc, AdmittedLocs)
          /\ Count(pc', RefusedLocs) = Count(pc, RefusedLocs) + 1
      BY <1>0, <3>1, CountsAfterMove
      DEF HolderLocs, CountedLocs, AdmittedLocs, RefusedLocs, Polling
    <3>3. CountInv'
      BY <1>0, <1>11, <2>1, <3>1, <3>2
      DEF CheckTimer, CountInv, TypeOK
    <3>4. TypeOK' /\ SawFreeSlot'
      BY <1>0, <1>11, <2>1, <3>1, <3>2, <3>3
      DEF CheckTimer, Goto, CountInv, TypeOK, SawFreeSlot
    <3> QED
      BY <3>3, <3>4
  <2>2. CASE ~timerFired[r]
    <3>1. pc[r] = "checkTimer" /\ Goto(r, "pollLoad") /\ "pollLoad" \in Location
      BY <1>11, <2>2 DEF CheckTimer, Location, Polling, Finished
    <3>2. /\ Count(pc', HolderLocs) = Count(pc, HolderLocs)
          /\ Count(pc', CountedLocs) = Count(pc, CountedLocs)
          /\ Count(pc', AdmittedLocs) = Count(pc, AdmittedLocs)
          /\ Count(pc', RefusedLocs) = Count(pc, RefusedLocs)
      BY <1>0, <3>1, CountsAfterMove
      DEF HolderLocs, CountedLocs, AdmittedLocs, RefusedLocs, Polling
    <3>3. CountInv'
      BY <1>0, <1>11, <2>2, <3>1, <3>2
      DEF CheckTimer, CountInv, TypeOK
    <3>4. TypeOK' /\ SawFreeSlot'
      BY <1>0, <1>11, <2>2, <3>1, <3>2, <3>3
      DEF CheckTimer, Goto, CountInv, TypeOK, SawFreeSlot
    <3> QED
      BY <3>3, <3>4
  <2> QED
    BY <1>11, <2>1, <2>2
<1>12. ASSUME NEW r \in Request, FinishSlow(r) PROVE Kept
  <2>1. pc[r] = "serveSlow" /\ Goto(r, "leaveServed") /\ "leaveServed" \in Location
    BY <1>12 DEF FinishSlow, Location, Polling, Finished
  <2>2. /\ Count(pc', HolderLocs) = Count(pc, HolderLocs) - 1
        /\ Count(pc', CountedLocs) = Count(pc, CountedLocs)
        /\ Count(pc', AdmittedLocs) = Count(pc, AdmittedLocs)
        /\ Count(pc', RefusedLocs) = Count(pc, RefusedLocs)
        /\ Count(pc', HolderLocs) \in Nat
    BY <1>0, <2>1, CountsAfterMove, CountIsNat
    DEF HolderLocs, CountedLocs, AdmittedLocs, RefusedLocs, Polling
  <2>3. CountInv'
    BY <1>0, <1>12, <2>1, <2>2
    DEF FinishSlow, CountInv, TypeOK
  <2>4. TypeOK' /\ SawFreeSlot'
    BY <1>0, <1>12, <2>1, <2>2, <2>3
    DEF FinishSlow, Goto, CountInv, TypeOK, SawFreeSlot
  <2> QED
    BY <2>3, <2>4
<1>13. ASSUME NEW r \in Request, LeaveQueue(r) PROVE Kept
  <2>1. CASE pc[r] = "leaveServed"
    <3>1. pc[r] = "leaveServed" /\ Goto(r, "served") /\ "served" \in Location
      BY <1>13, <2>1 DEF LeaveQueue, Location, Polling, Finished
    <3>2. /\ Count(pc', HolderLocs) = Count(pc, HolderLocs)
          /\ Count(pc', CountedLocs) = Count(pc, CountedLocs) - 1
          /\ Count(pc', AdmittedLocs) = Count(pc, AdmittedLocs) - 1
          /\ Count(pc', RefusedLocs) = Count(pc, RefusedLocs)
          /\ Count(pc', CountedLocs) \in Nat
      BY <1>0, <3>1, CountsAfterMove, CountIsNat
      DEF HolderLocs, CountedLocs, AdmittedLocs, RefusedLocs, Polling
    <3>3. CountInv'
      BY <1>0, <1>13, <2>1, <3>1, <3>2
      DEF LeaveQueue, CountInv, TypeOK
    <3>4. TypeOK' /\ SawFreeSlot'
      BY <1>0, <1>13, <2>1, <3>1, <3>2, <3>3
      DEF LeaveQueue, Goto, CountInv, TypeOK, SawFreeSlot
    <3> QED
      BY <3>3, <3>4
  <2>2. CASE pc[r] = "leaveRejected"
    <3>1. pc[r] = "leaveRejected" /\ Goto(r, "rejected") /\ "rejected" \in Location
      BY <1>13, <2>2 DEF LeaveQueue, Location, Polling, Finished
    <3>2. /\ Count(pc', HolderLocs) = Count(pc, HolderLocs)
          /\ Count(pc', CountedLocs) = Count(pc, CountedLocs) - 1
          /\ Count(pc', AdmittedLocs) = Count(pc, AdmittedLocs) - 1
          /\ Count(pc', RefusedLocs) = Count(pc, RefusedLocs)
          /\ Count(pc', CountedLocs) \in Nat
      BY <1>0, <3>1, CountsAfterMove, CountIsNat
      DEF HolderLocs, CountedLocs, AdmittedLocs, RefusedLocs, Polling
    <3>3. CountInv'
      BY <1>0, <1>13, <2>2, <3>1, <3>2
      DEF LeaveQueue, CountInv, TypeOK
    <3>4. TypeOK' /\ SawFreeSlot'
      BY <1>0, <1>13, <2>2, <3>1, <3>2, <3>3
      DEF LeaveQueue, Goto, CountInv, TypeOK, SawFreeSlot
    <3> QED
      BY <3>3, <3>4
  <2> QED
    BY <1>13, <2>1, <2>2 DEF LeaveQueue
<1>14. ASSUME NEW r \in Request, ContextDone(r) PROVE Kept
  BY <1>0, <1>14 DEF ContextDone, TypeOK, CountInv, Count, SawFreeSlot
<1>15. ASSUME NEW r \in Request, TimerFires(r) PROVE Kept
  BY <1>0, <1>15 DEF TimerFires, TypeOK, CountInv, Count, SawFreeSlot
<1>16. ASSUME UNCHANGED vars PROVE Kept
  BY <1>0, <1>16 DEF vars, TypeOK, CountInv, Count, SawFreeSlot
<1> QED
  BY <1>1, <1>2, <1>3, <1>4, <1>5, <1>6, <1>7, <1>8, <1>9, <1>10, <1>11, <1>12, <1>13, <1>14, <1>15, <1>16
  DEF Next, Handler, AllAnswered

------------------------------------------------------------------------------
\* The inductive invariant of the limiter holds in every reachable state.
THEOREM LimiterInvariant == Spec => []IInv
  BY InitEstablishes, StepsKeepInvariant, PTL DEF Spec

\* The variables of the limiter keep their types; no counter is ever negative.
THEOREM LimiterTypeCorrect == Spec => []TypeOK
  BY LimiterInvariant, PTL DEF IInv

\* tryAcquire and release: inflight is the number of requests being served,
\* and at most Limit of them are.
THEOREM LimiterNeverOverAdmits == Spec => []SlotsExact
  BY LimiterInvariant, PTL DEF IInv

\* The queue counter of Middleware is exact, and at most MaxQueue requests are
\* let into the queue.
THEOREM LimiterQueueBounded == Spec => []QueueExact
  BY LimiterInvariant, PTL DEF IInv

\* rejectedTotal counts every 408 and 429, and nothing else.
THEOREM LimiterCountsRejections == Spec => []RejectionsExact
  BY LimiterInvariant, PTL DEF IInv

------------------------------------------------------------------------------
\* The refinement of Admission.

PhaseBar == [r \in Request |-> PhaseAt(pc[r])]

\* Every place in Middleware has a phase a client can see.
LEMMA PhaseBarIsPhase == TypeOK => PhaseBar \in [Request -> Abstract!Phase]
  BY DEF TypeOK, PhaseBar, PhaseAt, Abstract!Phase

\* A request that moves changes its own phase only.
LEMMA PhaseBarMove ==
    ASSUME TypeOK, NEW r \in Request, NEW loc, Goto(r, loc)
    PROVE  /\ PhaseBar[r] = PhaseAt(pc[r])
           /\ PhaseBar' = [PhaseBar EXCEPT ![r] = PhaseAt(loc)]
           /\ PhaseAt(pc[r]) = PhaseAt(loc) => PhaseBar' = PhaseBar
  BY DEF TypeOK, Goto, PhaseBar

\* The abstract requests in service are the holders of a slot.
LEMMA ServingAreHolders == Abstract!Serving = Holders
<1>1. \A loc : PhaseAt(loc) = "serving" <=> loc \in {"serveFast", "serveSlow"}
  BY DEF PhaseAt
<1> QED
  BY <1>1 DEF Abstract!Serving, Holders, At

\* Admission reaches FiniteSets through its instance: the same Cardinality.
LEMMA SameCardinality == \A S : Abstract!Cardinality(S) = Cardinality(S)
  BY DEF Abstract!Cardinality, Cardinality

\* The initial state of the limiter maps to that of Admission.
LEMMA InitMapped == Init => Abstract!Init
  BY DEF Init, Abstract!Init, PhaseAt

\* Every step of the limiter is a step of Admission, or none that a client
\* sees.
LEMMA StepsMapped == IInv /\ [Next]_vars => [Abstract!Next]_PhaseBar
<1> SUFFICES ASSUME IInv, [Next]_vars PROVE [Abstract!Next]_PhaseBar
  OBVIOUS
<1> DEFINE Mapped == Abstract!Next \/ PhaseBar' = PhaseBar
<1>0. /\ TypeOK /\ SawFreeSlot /\ Limit \in Nat
      /\ inflight = Cardinality(Abstract!Serving)
  BY ServingAreHolders, LimiterAssumption DEF IInv, SlotsExact, LimiterAssumption
<1>1. ASSUME NEW r \in Request, Arrive(r) PROVE Mapped
  <2>1. pc[r] = "idle" /\ Goto(r, "fastLoad")
    BY <1>1 DEF Arrive
  <2>2. PhaseAt("idle") = "idle" /\ PhaseAt("fastLoad") = "waiting"
    BY DEF PhaseAt
  <2>3. PhaseBar[r] = "idle" /\ PhaseBar' = [PhaseBar EXCEPT ![r] = "waiting"]
    BY <1>0, <2>1, <2>2, PhaseBarMove
  <2>4. Abstract!Arrive(r)
    BY <2>3 DEF Abstract!Arrive, PhaseBar
  <2> QED
    BY <2>4 DEF Abstract!Next
<1>2. ASSUME NEW r \in Request, FastLoad(r) PROVE Mapped
  <2>1. CASE inflight >= Limit
    <3>1. pc[r] = "fastLoad" /\ Goto(r, "enqueue")
      BY <1>2, <2>1 DEF FastLoad, AcquireLoad
    <3>2. PhaseAt("fastLoad") = "waiting" /\ PhaseAt("enqueue") = "waiting"
      BY DEF PhaseAt
    <3> QED
      BY <1>0, <3>1, <3>2, PhaseBarMove
  <2>2. CASE ~(inflight >= Limit)
    <3>1. pc[r] = "fastLoad" /\ Goto(r, "fastCAS")
      BY <1>2, <2>2 DEF FastLoad, AcquireLoad
    <3>2. PhaseAt("fastLoad") = "waiting" /\ PhaseAt("fastCAS") = "waiting"
      BY DEF PhaseAt
    <3> QED
      BY <1>0, <3>1, <3>2, PhaseBarMove
  <2> QED
    BY <1>2, <2>1, <2>2
<1>3. ASSUME NEW r \in Request, FastCAS(r) PROVE Mapped
  <2>1. CASE inflight = seen[r]
    <3>1. pc[r] = "fastCAS" /\ Goto(r, "serveFast")
      BY <1>3, <2>1 DEF FastCAS, AcquireCAS
    <3>2. PhaseAt("fastCAS") = "waiting" /\ PhaseAt("serveFast") = "serving"
      BY DEF PhaseAt
    <3>3. PhaseBar[r] = "waiting" /\ PhaseBar' = [PhaseBar EXCEPT ![r] = "serving"]
      BY <1>0, <3>1, <3>2, PhaseBarMove
    <3>4. inflight < Limit
      BY <1>0, <1>3, <2>1, <3>1 DEF FastCAS, AcquireCAS, SawFreeSlot
    <3>5. Abstract!Cardinality(Abstract!Serving) < Limit
      BY <1>0, <3>4, SameCardinality
    <3>6. Abstract!Admit(r)
      BY <3>3, <3>5 DEF Abstract!Admit, PhaseBar
    <3> QED
      BY <3>6 DEF Abstract!Next
  <2>2. CASE inflight # seen[r]
    <3>1. pc[r] = "fastCAS" /\ Goto(r, "fastLoad")
      BY <1>3, <2>2 DEF FastCAS, AcquireCAS
    <3>2. PhaseAt("fastCAS") = "waiting" /\ PhaseAt("fastLoad") = "waiting"
      BY DEF PhaseAt
    <3> QED
      BY <1>0, <3>1, <3>2, PhaseBarMove
  <2> QED
    BY <1>3, <2>1, <2>2
<1>4. ASSUME NEW r \in Request, FinishFast(r) PROVE Mapped
  <2>1. pc[r] = "serveFast" /\ Goto(r, "served")
    BY <1>4 DEF FinishFast
  <2>2. PhaseAt("serveFast") = "serving" /\ PhaseAt("served") = "served"
    BY DEF PhaseAt
  <2>3. PhaseBar[r] = "serving" /\ PhaseBar' = [PhaseBar EXCEPT ![r] = "served"]
    BY <1>0, <2>1, <2>2, PhaseBarMove
  <2>4. Abstract!Finish(r)
    BY <2>3 DEF Abstract!Finish, PhaseBar
  <2> QED
    BY <2>4 DEF Abstract!Next
<1>5. ASSUME NEW r \in Request, Enqueue(r) PROVE Mapped
  <2>1. CASE queued + 1 > MaxQueue
    <3>1. pc[r] = "enqueue" /\ Goto(r, "queueFull")
      BY <1>5, <2>1 DEF Enqueue
    <3>2. PhaseAt("enqueue") = "waiting" /\ PhaseAt("queueFull") = "waiting"
      BY DEF PhaseAt
    <3> QED
      BY <1>0, <3>1, <3>2, PhaseBarMove
  <2>2. CASE ~(queued + 1 > MaxQueue)
    <3>1. pc[r] = "enqueue" /\ Goto(r, "pollLoad")
      BY <1>5, <2>2 DEF Enqueue
    <3>2. PhaseAt("enqueue") = "waiting" /\ PhaseAt("pollLoad") = "waiting"
      BY DEF PhaseAt
    <3> QED
      BY <1>0, <3>1, <3>2, PhaseBarMove
  <2> QED
    BY <1>5, <2>1, <2>2
<1>6. ASSUME NEW r \in Request, RejectQueueFull(r) PROVE Mapped
  <2>1. pc[r] = "queueFull" /\ Goto(r, "countFull")
    BY <1>6 DEF RejectQueueFull
  <2>2. PhaseAt("queueFull") = "waiting" /\ PhaseAt("countFull") = "waiting"
    BY DEF PhaseAt
  <2> QED
    BY <1>0, <2>1, <2>2, PhaseBarMove
<1>7. ASSUME NEW r \in Request, CountQueueFull(r) PROVE Mapped
  <2>1. pc[r] = "countFull" /\ Goto(r, "rejected")
    BY <1>7 DEF CountQueueFull
  <2>2. PhaseAt("countFull") = "waiting" /\ PhaseAt("rejected") = "rejected"
    BY DEF PhaseAt
  <2>3. PhaseBar[r] = "waiting" /\ PhaseBar' = [PhaseBar EXCEPT ![r] = "rejected"]
    BY <1>0, <2>1, <2>2, PhaseBarMove
  <2>4. Abstract!Reject(r)
    BY <2>3 DEF Abstract!Reject, PhaseBar
  <2> QED
    BY <2>4 DEF Abstract!Next
<1>8. ASSUME NEW r \in Request, PollLoad(r) PROVE Mapped
  <2>1. CASE inflight >= Limit
    <3>1. pc[r] = "pollLoad" /\ Goto(r, "checkCtx")
      BY <1>8, <2>1 DEF PollLoad, AcquireLoad
    <3>2. PhaseAt("pollLoad") = "waiting" /\ PhaseAt("checkCtx") = "waiting"
      BY DEF PhaseAt
    <3> QED
      BY <1>0, <3>1, <3>2, PhaseBarMove
  <2>2. CASE ~(inflight >= Limit)
    <3>1. pc[r] = "pollLoad" /\ Goto(r, "pollCAS")
      BY <1>8, <2>2 DEF PollLoad, AcquireLoad
    <3>2. PhaseAt("pollLoad") = "waiting" /\ PhaseAt("pollCAS") = "waiting"
      BY DEF PhaseAt
    <3> QED
      BY <1>0, <3>1, <3>2, PhaseBarMove
  <2> QED
    BY <1>8, <2>1, <2>2
<1>9. ASSUME NEW r \in Request, PollCAS(r) PROVE Mapped
  <2>1. CASE inflight = seen[r]
    <3>1. pc[r] = "pollCAS" /\ Goto(r, "serveSlow")
      BY <1>9, <2>1 DEF PollCAS, AcquireCAS
    <3>2. PhaseAt("pollCAS") = "waiting" /\ PhaseAt("serveSlow") = "serving"
      BY DEF PhaseAt
    <3>3. PhaseBar[r] = "waiting" /\ PhaseBar' = [PhaseBar EXCEPT ![r] = "serving"]
      BY <1>0, <3>1, <3>2, PhaseBarMove
    <3>4. inflight < Limit
      BY <1>0, <1>9, <2>1, <3>1 DEF PollCAS, AcquireCAS, SawFreeSlot
    <3>5. Abstract!Cardinality(Abstract!Serving) < Limit
      BY <1>0, <3>4, SameCardinality
    <3>6. Abstract!Admit(r)
      BY <3>3, <3>5 DEF Abstract!Admit, PhaseBar
    <3> QED
      BY <3>6 DEF Abstract!Next
  <2>2. CASE inflight # seen[r]
    <3>1. pc[r] = "pollCAS" /\ Goto(r, "pollLoad")
      BY <1>9, <2>2 DEF PollCAS, AcquireCAS
    <3>2. PhaseAt("pollCAS") = "waiting" /\ PhaseAt("pollLoad") = "waiting"
      BY DEF PhaseAt
    <3> QED
      BY <1>0, <3>1, <3>2, PhaseBarMove
  <2> QED
    BY <1>9, <2>1, <2>2
<1>10. ASSUME NEW r \in Request, CheckCtx(r) PROVE Mapped
  <2>1. CASE ctxDone[r]
    <3>1. pc[r] = "checkCtx" /\ Goto(r, "leaveRejected")
      BY <1>10, <2>1 DEF CheckCtx
    <3>2. PhaseAt("checkCtx") = "waiting" /\ PhaseAt("leaveRejected") = "rejected"
      BY DEF PhaseAt
    <3>3. PhaseBar[r] = "waiting" /\ PhaseBar' = [PhaseBar EXCEPT ![r] = "rejected"]
      BY <1>0, <3>1, <3>2, PhaseBarMove
    <3>4. Abstract!Reject(r)
      BY <3>3 DEF Abstract!Reject, PhaseBar
    <3> QED
      BY <3>4 DEF Abstract!Next
  <2>2. CASE ~ctxDone[r]
    <3>1. pc[r] = "checkCtx" /\ Goto(r, "checkTimer")
      BY <1>10, <2>2 DEF CheckCtx
    <3>2. PhaseAt("checkCtx") = "waiting" /\ PhaseAt("checkTimer") = "waiting"
      BY DEF PhaseAt
    <3> QED
      BY <1>0, <3>1, <3>2, PhaseBarMove
  <2> QED
    BY <1>10, <2>1, <2>2
<1>11. ASSUME NEW r \in Request, CheckTimer(r) PROVE Mapped
  <2>1. CASE timerFired[r]
    <3>1. pc[r] = "checkTimer" /\ Goto(r, "leaveRejected")
      BY <1>11, <2>1 DEF CheckTimer
    <3>2. PhaseAt("checkTimer") = "waiting" /\ PhaseAt("leaveRejected") = "rejected"
      BY DEF PhaseAt
    <3>3. PhaseBar[r] = "waiting" /\ PhaseBar' = [PhaseBar EXCEPT ![r] = "rejected"]
      BY <1>0, <3>1, <3>2, PhaseBarMove
    <3>4. Abstract!Reject(r)
      BY <3>3 DEF Abstract!Reject, PhaseBar
    <3> QED
      BY <3>4 DEF Abstract!Next
  <2>2. CASE ~timerFired[r]
    <3>1. pc[r] = "checkTimer" /\ Goto(r, "pollLoad")
      BY <1>11, <2>2 DEF CheckTimer
    <3>2. PhaseAt("checkTimer") = "waiting" /\ PhaseAt("pollLoad") = "waiting"
      BY DEF PhaseAt
    <3> QED
      BY <1>0, <3>1, <3>2, PhaseBarMove
  <2> QED
    BY <1>11, <2>1, <2>2
<1>12. ASSUME NEW r \in Request, FinishSlow(r) PROVE Mapped
  <2>1. pc[r] = "serveSlow" /\ Goto(r, "leaveServed")
    BY <1>12 DEF FinishSlow
  <2>2. PhaseAt("serveSlow") = "serving" /\ PhaseAt("leaveServed") = "served"
    BY DEF PhaseAt
  <2>3. PhaseBar[r] = "serving" /\ PhaseBar' = [PhaseBar EXCEPT ![r] = "served"]
    BY <1>0, <2>1, <2>2, PhaseBarMove
  <2>4. Abstract!Finish(r)
    BY <2>3 DEF Abstract!Finish, PhaseBar
  <2> QED
    BY <2>4 DEF Abstract!Next
<1>13. ASSUME NEW r \in Request, LeaveQueue(r) PROVE Mapped
  <2>1. CASE pc[r] = "leaveServed"
    <3>1. pc[r] = "leaveServed" /\ Goto(r, "served")
      BY <1>13, <2>1 DEF LeaveQueue
    <3>2. PhaseAt("leaveServed") = "served" /\ PhaseAt("served") = "served"
      BY DEF PhaseAt
    <3> QED
      BY <1>0, <3>1, <3>2, PhaseBarMove
  <2>2. CASE pc[r] = "leaveRejected"
    <3>1. pc[r] = "leaveRejected" /\ Goto(r, "rejected")
      BY <1>13, <2>2 DEF LeaveQueue
    <3>2. PhaseAt("leaveRejected") = "rejected" /\ PhaseAt("rejected") = "rejected"
      BY DEF PhaseAt
    <3> QED
      BY <1>0, <3>1, <3>2, PhaseBarMove
  <2> QED
    BY <1>13, <2>1, <2>2 DEF LeaveQueue
<1>14. ASSUME NEW r \in Request, ContextDone(r) PROVE Mapped
  BY <1>14 DEF ContextDone, PhaseBar
<1>15. ASSUME NEW r \in Request, TimerFires(r) PROVE Mapped
  BY <1>15 DEF TimerFires, PhaseBar
<1>16. ASSUME UNCHANGED vars PROVE Mapped
  BY <1>16 DEF vars, PhaseBar
<1> QED
  BY <1>1, <1>2, <1>3, <1>4, <1>5, <1>6, <1>7, <1>8, <1>9, <1>10, <1>11, <1>12, <1>13, <1>14, <1>15, <1>16
  DEF Next, Handler, AllAnswered

\* Middleware as a client sees it: a request is served or refused, and never
\* more than Limit are in service, whatever the goroutines interleave.
THEOREM LimiterImplementsAdmission == Spec => ImplementsAdmission
<1>1. IInv /\ [Next]_vars => [Abstract!Next]_[r \in Request |-> PhaseAt(pc[r])]
  BY StepsMapped DEF PhaseBar
<1> QED
  BY InitMapped, LimiterInvariant, <1>1, PTL
  DEF Spec, ImplementsAdmission, Abstract!Spec

==============================================================================
