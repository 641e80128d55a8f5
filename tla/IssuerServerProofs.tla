-------------------------- MODULE IssuerServerProofs --------------------------
(***************************************************************************)
(* For any number of connections and requests and any size of the worker   *)
(* pool: no slot is lost or given back twice, no request is answered twice *)
(* or on another connection, and every answer is true of the money.        *)
(*                                                                         *)
(* The last part shows that the server implements Authorizer: a request    *)
(* moves money at most once, and an answer stays what was decided.         *)
(***************************************************************************)
EXTENDS IssuerServer, FiniteSetTheorems, SequenceTheorems, TLAPS

------------------------------------------------------------------------------
\* The inductive invariant.

\* A request that has been sent is in one place: its socket, its reader, or its
\* goroutine.
QueuedOnce ==
    \A c \in Conn :
        /\ readerPc[c] = "acquire" <=> current[c] # None
        /\ current[c] # None => /\ via[current[c]] = c /\ workerPc[current[c]] = "none"
                                /\ current[c] \notin turnedAway
        /\ \A k \in 1 .. Len(inbox[c]) :
              LET r == inbox[c][k] IN
              /\ via[r] = c /\ workerPc[r] = "none" /\ r \notin turnedAway /\ current[c] # r
              /\ \A j \in 1 .. Len(inbox[c]) : inbox[c][j] = r => j = k

Arrived ==
    /\ \A r \in Request : workerPc[r] # "none" => via[r] # None
    /\ \A r \in turnedAway : via[r] # None /\ workerPc[r] = "none"

\* A goroutine starts one statement at most, and goes to write a refusal only
\* when the statement cannot commit any more, or the database broke.
Harmless(r) == r \in broken \/ stmt[r] \in {"none", "refused"}

Deciding(r) ==
    /\ workerPc[r] \in {"none", "check", "handle"} => stmt[r] = "none" /\ r \notin broken
    /\ workerPc[r] \in {"none", "check", "handle", "await", "done"} => answer[r] = "none"
    /\ workerPc[r] = "await" => stmt[r] # "none"
    /\ workerPc[r] \in {"recheck", "lock", "write"} => answer[r] # "none"
    /\ answer[r] = "approved" => stmt[r] = "committed"
    /\ answer[r] = "refused" /\ workerPc[r] = "recheck" => ctxDone[r] \/ Harmless(r)
    /\ answer[r] = "refused" /\ workerPc[r] \in {"lock", "write"} => Harmless(r)

IInv ==
    /\ TypeOK /\ PoolExact /\ QueuedOnce /\ Arrived
    /\ \A r \in Request : Deciding(r)
    /\ AnswersTruthful /\ AnsweredOnce

------------------------------------------------------------------------------
\* The slots.

\* Only Acquire and Release change the number of goroutines at work.
LEMMA PoolShapes ==
    ASSUME TypeOK, QueuedOnce, [Next]_vars
    PROVE  \/ workerPool' = workerPool /\ Workers' = Workers
           \/ \E r \in Request : /\ r \notin Workers /\ Workers' = Workers \cup {r}
                                 /\ workerPool < PoolSize /\ workerPool' = workerPool + 1
           \/ \E r \in Workers : Workers' = Workers \ {r} /\ workerPool' = workerPool - 1
<1> DEFINE Steady == workerPool' = workerPool /\ Workers' = Workers
<1>1. ASSUME UNCHANGED <<workerPool, workerPc>> PROVE Steady
  BY <1>1 DEF Workers
<1>2. ASSUME NEW r \in Request, NEW c \in Conn, SendFrame(r, c) PROVE Steady
  BY <1>1, <1>2 DEF SendFrame, workerVars
<1>3. ASSUME NEW c \in Conn, AcquirerReads(c) \/ PeerGone(c) PROVE Steady
  BY <1>1, <1>3 DEF AcquirerReads, PeerGone, workerVars
<1>4. ASSUME NEW c \in Conn, Reader(c), ~Acquire(c) PROVE Steady
  BY <1>1, <1>4 DEF Reader, ReadFrame, AcquireTimesOut, ReadFails, Close, workerVars
<1>5. ASSUME NEW c \in Conn, Acquire(c)
      PROVE  \E r \in Request : /\ r \notin Workers /\ Workers' = Workers \cup {r}
                                /\ workerPool < PoolSize /\ workerPool' = workerPool + 1
  <2>1. current[c] \in Request /\ workerPc[current[c]] = "none"
    BY <1>5 DEF Acquire, QueuedOnce, TypeOK
  <2>2. workerPc' = [workerPc EXCEPT ![current[c]] = "check"]
    BY <1>5 DEF Acquire, Goto
  <2>3. current[c] \notin Workers /\ Workers' = Workers \cup {current[c]}
    BY <2>1, <2>2 DEF Workers, Working, TypeOK
  <2> QED
    BY <1>5, <2>1, <2>3 DEF Acquire
<1>6. ASSUME NEW r \in Request, Worker(r), ~Release(r) PROVE Steady
  <2>1. \E loc \in Working : workerPc' = [workerPc EXCEPT ![r] = loc]
    BY <1>6
    DEF Worker, Check, HandleFails, RefuseEarly, StartStatement, StatementReturns,
        StatementCancelled, DatabaseLost, Recheck, Lock, Write, WriteFails, Decide, Goto, Working
  <2>2. workerPc[r] \in Working /\ workerPool' = workerPool
    BY <1>6
    DEF Worker, Check, HandleFails, RefuseEarly, StartStatement, StatementReturns,
        StatementCancelled, DatabaseLost, Recheck, Lock, Write, WriteFails, Working
  <2> QED
    BY <2>1, <2>2 DEF Workers, TypeOK
<1>7. ASSUME NEW r \in Request, Release(r)
      PROVE  r \in Workers /\ Workers' = Workers \ {r} /\ workerPool' = workerPool - 1
  BY <1>7 DEF Release, Goto, Workers, Working, TypeOK
<1>8. ASSUME NEW r \in Request, Execute(r) \/ DeadlinePasses(r) PROVE Steady
  BY <1>1, <1>8 DEF Execute, DeadlinePasses, workerVars
<1>9. ASSUME UNCHANGED vars PROVE Steady
  BY <1>1, <1>9 DEF vars, workerVars
<1> QED
  BY <1>2, <1>3, <1>4, <1>5, <1>6, <1>7, <1>8, <1>9 DEF Next

\* The number of slots taken stays the number of goroutines at work.
LEMMA PoolStep == TypeOK /\ QueuedOnce /\ PoolExact /\ [Next]_vars => PoolExact' /\ workerPool' \in Nat
<1> SUFFICES ASSUME TypeOK, QueuedOnce, PoolExact, [Next]_vars
             PROVE  PoolExact' /\ workerPool' \in Nat
  OBVIOUS
<1>1. IsFiniteSet(Workers) /\ Cardinality(Workers) \in Nat /\ PoolSize \in Nat
  <2>1. Workers \in SUBSET Request
    BY DEF Workers
  <2> QED
    BY <2>1, IssuerAssumption, FS_Subset, FS_CardinalityType DEF IssuerAssumption
<1>2. CASE workerPool' = workerPool /\ Workers' = Workers
  BY <1>1, <1>2 DEF PoolExact
<1>3. ASSUME NEW r \in Request, r \notin Workers, Workers' = Workers \cup {r},
             workerPool < PoolSize, workerPool' = workerPool + 1
      PROVE  PoolExact' /\ workerPool' \in Nat
  <2>1. Cardinality(Workers') = Cardinality(Workers) + 1
    BY <1>1, <1>3, FS_AddElement
  <2> QED
    BY <1>1, <1>3, <2>1 DEF PoolExact
<1>4. ASSUME NEW r \in Workers, Workers' = Workers \ {r}, workerPool' = workerPool - 1
      PROVE  PoolExact' /\ workerPool' \in Nat
  <2>1. Cardinality(Workers') = Cardinality(Workers) - 1 /\ Cardinality(Workers') \in Nat
    BY <1>1, <1>4, FS_RemoveElement, FS_CardinalityType
  <2> QED
    BY <1>1, <1>4, <2>1 DEF PoolExact
<1> QED
  BY <1>2, <1>3, <1>4, PoolShapes

------------------------------------------------------------------------------
\* Types.

\* A write adds a frame, to a socket that has room for it.
LEMMA WriteTypes ==
    ASSUME TypeOK, NEW r \in Request, Write(r), answer[r] # "none", via[r] # None
    PROVE  /\ outbox' \in [Conn -> Seq(Frame)] /\ \A c \in Conn : Len(outbox'[c]) <= SendBuf
           /\ [tpdu |-> r, answer |-> answer[r]] \in Frame
<1> DEFINE f == [tpdu |-> r, answer |-> answer[r]]
           d == via[r]
<1>1. f \in Frame
  BY DEF TypeOK, Frame, Verdict
<1>2. d \in Conn /\ Len(outbox[d]) < SendBuf /\ outbox' = [outbox EXCEPT ![d] = Append(outbox[d], f)]
  BY DEF Write, TypeOK
<1> HIDE DEF f, d
<1>3. Append(outbox[d], f) \in Seq(Frame) /\ Len(Append(outbox[d], f)) = Len(outbox[d]) + 1
  BY <1>1, <1>2, AppendProperties DEF TypeOK
<1>4. Len(outbox[d]) \in Nat /\ SendBuf \in Nat
  BY <1>2, LenProperties, IssuerAssumption DEF TypeOK, IssuerAssumption
<1> QED
  BY <1>1, <1>2, <1>3, <1>4 DEF TypeOK, f

\* Every step of the acquirer, a reader, a goroutine or the database keeps the
\* types.
LEMMA TypeStep == IInv /\ [Next]_vars => TypeOK'
<1> SUFFICES ASSUME IInv, [Next]_vars PROVE TypeOK'
  OBVIOUS
<1>0. workerPool' \in 0 .. PoolSize
  BY PoolStep, IssuerAssumption DEF IInv, PoolExact, IssuerAssumption
<1> USE DEF IInv, TypeOK, netVars, readerVars, workerVars, dbVars
<1>1. ASSUME NEW r \in Request, NEW c \in Conn, SendFrame(r, c) PROVE TypeOK'
  <2>1. Append(inbox[c], r) \in Seq(Request)
    BY AppendProperties
  <2> QED
    BY <1>1, <2>1 DEF SendFrame
<1>2. ASSUME NEW c \in Conn, AcquirerReads(c) PROVE TypeOK'
  <2>1. /\ Head(outbox[c]) \in Frame /\ Tail(outbox[c]) \in Seq(Frame)
        /\ Len(Tail(outbox[c])) = Len(outbox[c]) - 1
    BY <1>2, HeadTailProperties DEF AcquirerReads
  <2>2. Append(received[c], Head(outbox[c])) \in Seq(Frame)
    BY <2>1, AppendProperties
  <2>3. Len(outbox[c]) \in Nat /\ SendBuf \in Nat
    BY LenProperties, IssuerAssumption DEF IssuerAssumption
  <2> QED
    BY <1>2, <2>1, <2>2, <2>3 DEF AcquirerReads
<1>3. ASSUME NEW c \in Conn, PeerGone(c) PROVE TypeOK'
  <2>1. <<>> \in Seq(Frame) /\ Len(<<>>) = 0 /\ SendBuf \in Nat
    BY EmptySeq, IssuerAssumption DEF IssuerAssumption
  <2> QED
    BY <1>3, <2>1 DEF PeerGone
<1>4. ASSUME NEW c \in Conn, ReadFrame(c) PROVE TypeOK'
  <2>1. Head(inbox[c]) \in Request /\ Tail(inbox[c]) \in Seq(Request)
    BY <1>4, HeadTailProperties DEF ReadFrame
  <2> QED
    BY <1>4, <2>1 DEF ReadFrame, ReaderPc
<1>5. ASSUME NEW c \in Conn, Acquire(c) \/ AcquireTimesOut(c) \/ ReadFails(c) PROVE TypeOK'
  <2>1. ReaderPc = {"read", "acquire", "close", "done"}
    BY DEF ReaderPc
  <2>2. CASE Acquire(c)
    BY <1>0, <2>1, <2>2 DEF Acquire, Goto, Working
  <2>3. CASE AcquireTimesOut(c)
    <3>1. current[c] \in Request
      BY <2>3 DEF AcquireTimesOut, QueuedOnce
    <3> QED
      BY <2>1, <2>3, <3>1 DEF AcquireTimesOut
  <2>4. CASE ReadFails(c)
    BY <2>1, <2>4 DEF ReadFails
  <2> QED
    BY <1>5, <2>2, <2>3, <2>4
<1>6. ASSUME NEW c \in Conn, Close(c) PROVE TypeOK'
  <2>1. <<>> \in Seq(Request)
    BY EmptySeq
  <2> QED
    BY <1>6, <2>1 DEF Close, ReaderPc
<1>7. ASSUME NEW r \in Request, Check(r) \/ HandleFails(r) \/ Recheck(r) PROVE TypeOK'
  BY <1>7 DEF Check, HandleFails, Recheck, Goto, Working
<1>8. ASSUME NEW r \in Request,
             RefuseEarly(r) \/ StatementReturns(r) \/ StatementCancelled(r) \/ DatabaseLost(r)
      PROVE  TypeOK'
  BY <1>8
  DEF RefuseEarly, StatementReturns, StatementCancelled, DatabaseLost, Decide, Goto, Working, Verdict
<1>9. ASSUME NEW r \in Request, StartStatement(r) \/ Execute(r) \/ DeadlinePasses(r) PROVE TypeOK'
  BY <1>9 DEF StartStatement, Execute, DeadlinePasses, Goto, Working
<1>10. ASSUME NEW r \in Request, Lock(r) \/ WriteFails(r) PROVE TypeOK'
  BY <1>10 DEF Lock, WriteFails, Goto, Working
<1>11. ASSUME NEW r \in Request, Write(r) PROVE TypeOK'
  <2>1. outbox' \in [Conn -> Seq(Frame)] /\ \A c \in Conn : Len(outbox'[c]) <= SendBuf
    BY <1>11, WriteTypes DEF Write, Deciding, Arrived
  <2> QED
    BY <1>11, <2>1 DEF Write, Goto, Working
<1>12. ASSUME NEW r \in Request, Release(r) PROVE TypeOK'
  BY <1>0, <1>12 DEF Release, Goto, Verdict
<1>13. ASSUME UNCHANGED vars PROVE TypeOK'
  BY <1>13 DEF vars
<1> QED
  BY <1>1, <1>2, <1>3, <1>4, <1>5, <1>6, <1>7, <1>8, <1>9, <1>10, <1>11, <1>12, <1>13
  DEF Next, Reader, Worker

------------------------------------------------------------------------------
\* Where requests are.

\* A goroutine at work goes on from one of its places to another, and is never
\* a request that has not been started.
LEMMA WorkerMoves ==
    ASSUME TypeOK, NEW r \in Request, Worker(r)
    PROVE  /\ workerPc[r] \in Working
           /\ \A q \in Request : q # r => workerPc'[q] = workerPc[q]
           /\ workerPc'[r] \in Working \cup {"done"}
           /\ UNCHANGED <<via, inbox, readerVars>>
  BY DEF Worker, Check, HandleFails, RefuseEarly, StartStatement, StatementReturns,
         StatementCancelled, DatabaseLost, Recheck, Lock, Write, WriteFails, Release, Decide, Goto,
         Working, TypeOK, netVars

\* No step duplicates a request between sockets, readers and goroutines.
LEMMA QueuedStep == IInv /\ [Next]_vars => QueuedOnce' /\ Arrived'
<1> SUFFICES ASSUME IInv, [Next]_vars PROVE QueuedOnce' /\ Arrived'
  OBVIOUS
<1> DEFINE Here(c, k) ==
              LET r == inbox[c][k] IN
              /\ via[r] = c /\ workerPc[r] = "none" /\ r \notin turnedAway /\ current[c] # r
              /\ \A j \in 1 .. Len(inbox[c]) : inbox[c][j] = r => j = k
           Read(c) ==
              /\ readerPc[c] = "acquire" <=> current[c] # None
              /\ current[c] # None => /\ via[current[c]] = c /\ workerPc[current[c]] = "none"
                                      /\ current[c] \notin turnedAway
<1>1. TypeOK /\ Arrived /\ \A c \in Conn : Read(c) /\ \A k \in 1 .. Len(inbox[c]) : Here(c, k)
  BY DEF IInv, QueuedOnce
<1>2. /\ \A c \in Conn : inbox[c] \in Seq(Request) /\ Len(inbox[c]) \in Nat
      /\ \A c \in Conn : \A k \in 1 .. Len(inbox[c]) : inbox[c][k] \in Request
  BY <1>1, LenProperties, ElementOfSeq DEF TypeOK
<1>3. SUFFICES /\ \A c \in Conn : Read(c)' /\ \A k \in 1 .. Len(inbox'[c]) : Here(c, k)'
               /\ Arrived'
  BY DEF QueuedOnce
<1> DEFINE Kept == /\ \A c \in Conn : Read(c)' /\ \A k \in 1 .. Len(inbox'[c]) : Here(c, k)'
                   /\ Arrived'
<1>4. ASSUME UNCHANGED <<via, inbox, readerVars>>,
             \A r \in Request : workerPc[r] = "none" <=> workerPc'[r] = "none"
      PROVE  Kept
  BY <1>1, <1>2, <1>4 DEF readerVars, Arrived, TypeOK
<1>5. ASSUME NEW r \in Request, NEW c \in Conn, SendFrame(r, c) PROVE Kept
  <2>1. /\ via[r] = None /\ via' = [via EXCEPT ![r] = c]
        /\ inbox' = [inbox EXCEPT ![c] = Append(inbox[c], r)]
        /\ UNCHANGED <<readerPc, current, turnedAway, workerPc>>
    BY <1>5 DEF SendFrame, readerVars, workerVars
  <2>2. /\ workerPc[r] = "none" /\ r \notin turnedAway /\ None \notin Conn
        /\ \A d \in Conn : current[d] # r /\ \A k \in 1 .. Len(inbox[d]) : inbox[d][k] # r
    <3>1. workerPc[r] = "none" /\ r \notin turnedAway /\ None \notin Conn /\ r # None
      BY <1>1, <2>1, IssuerAssumption DEF Arrived, IssuerAssumption
    <3>2. ASSUME NEW d \in Conn PROVE current[d] # r
      BY <1>1, <2>1, <3>1
    <3>3. ASSUME NEW d \in Conn, NEW k \in 1 .. Len(inbox[d]) PROVE inbox[d][k] # r
      BY <1>1, <2>1, <3>1
    <3> QED
      BY <3>1, <3>2, <3>3
  <2>3. /\ Len(inbox'[c]) = Len(inbox[c]) + 1 /\ inbox'[c][Len(inbox[c]) + 1] = r
        /\ \A k \in 1 .. Len(inbox[c]) : inbox'[c][k] = inbox[c][k]
    BY <1>1, <2>1, AppendProperties DEF TypeOK
  <2>4. Arrived'
    BY <1>1, <2>1, <2>2 DEF Arrived, TypeOK
  <2>5. ASSUME NEW d \in Conn PROVE Read(d)'
    BY <1>1, <2>1, <2>2 DEF TypeOK
  <2>6. ASSUME NEW d \in Conn, NEW k \in 1 .. Len(inbox'[d]), d # c PROVE Here(d, k)'
    <3>1. inbox'[d] = inbox[d] /\ k \in 1 .. Len(inbox[d])
      BY <1>1, <2>1, <2>6 DEF TypeOK
    <3>2. inbox[d][k] \in Request /\ inbox[d][k] # r
      BY <1>2, <2>2, <3>1
    <3> QED
      BY <1>1, <2>1, <3>1, <3>2 DEF TypeOK
  <2>7. ASSUME NEW k \in 1 .. Len(inbox'[c]) PROVE Here(c, k)'
    <3>1. \A j \in 1 .. Len(inbox'[c]) :
             j \in 1 .. Len(inbox[c]) \/ j = Len(inbox[c]) + 1
      BY <1>2, <2>3
    <3>2. CASE k = Len(inbox[c]) + 1
      BY <1>1, <2>1, <2>2, <2>3, <3>1, <3>2 DEF TypeOK
    <3>3. CASE k \in 1 .. Len(inbox[c])
      <4>1. inbox'[c][k] = inbox[c][k] /\ inbox[c][k] # r /\ inbox[c][k] \in Request
        BY <1>2, <2>2, <2>3, <3>3
      <4> QED
        BY <1>1, <2>1, <2>2, <2>3, <3>1, <3>3, <4>1 DEF TypeOK
    <3> QED
      BY <3>1, <3>2, <3>3
  <2> QED
    BY <2>4, <2>5, <2>6, <2>7
<1>6. ASSUME NEW c \in Conn, AcquirerReads(c) \/ PeerGone(c) PROVE Kept
  BY <1>4, <1>6 DEF AcquirerReads, PeerGone, workerVars
<1>7. ASSUME NEW c \in Conn, ReadFrame(c) PROVE Kept
  <2>1. /\ readerPc[c] = "read" /\ inbox[c] # <<>>
        /\ current' = [current EXCEPT ![c] = Head(inbox[c])]
        /\ inbox' = [inbox EXCEPT ![c] = Tail(inbox[c])]
        /\ readerPc' = [readerPc EXCEPT ![c] = "acquire"]
        /\ UNCHANGED <<via, turnedAway, workerPc>>
    BY <1>7 DEF ReadFrame, workerVars
  <2>2. /\ Len(inbox[c]) \in Nat \ {0} /\ Head(inbox[c]) = inbox[c][1]
        /\ Len(inbox'[c]) = Len(inbox[c]) - 1
        /\ \A k \in 1 .. Len(inbox'[c]) : inbox'[c][k] = inbox[c][k + 1]
    <3>1. inbox'[c] = Tail(inbox[c])
      BY <1>1, <2>1 DEF TypeOK
    <3>2. inbox[c] \in Seq(Request) /\ inbox[c] # <<>>
      BY <1>2, <2>1
    <3>3. Len(inbox[c]) \in Nat \ {0} /\ Head(inbox[c]) = inbox[c][1]
      BY <3>2, EmptySeq
    <3> QED
      BY <3>1, <3>2, <3>3, HeadTailProperties
  <2>3. 1 \in 1 .. Len(inbox[c])
    BY <2>2
  <2>4. Arrived'
    BY <1>1, <2>1 DEF Arrived
  <2>5. Read(c)'
    BY <1>1, <1>2, <2>1, <2>2, <2>3, IssuerAssumption DEF TypeOK, IssuerAssumption
  <2>6. ASSUME NEW k \in 1 .. Len(inbox'[c]) PROVE Here(c, k)'
    <3>1. k + 1 \in 1 .. Len(inbox[c]) /\ k + 1 # 1
      BY <2>2
    <3>2. \A j \in 1 .. Len(inbox'[c]) : j + 1 \in 1 .. Len(inbox[c]) /\ (j + 1 = k + 1 => j = k)
      BY <2>2
    <3>3. current'[c] = inbox[c][1]
      BY <1>1, <2>1, <2>2 DEF TypeOK
    <3> QED
      BY <1>1, <2>1, <2>2, <2>3, <3>1, <3>2, <3>3
  <2>7. ASSUME NEW d \in Conn, d # c PROVE Read(d)' /\ \A k \in 1 .. Len(inbox'[d]) : Here(d, k)'
    BY <1>1, <2>1, <2>7 DEF TypeOK
  <2> QED
    BY <2>4, <2>5, <2>6, <2>7
<1>8. ASSUME NEW c \in Conn, Acquire(c) \/ AcquireTimesOut(c) PROVE Kept
  <2>1. PICK r \in Request :
           /\ r = current[c] /\ readerPc[c] = "acquire"
           /\ via[r] = c /\ workerPc[r] = "none" /\ r \notin turnedAway
    BY <1>1, <1>8, IssuerAssumption DEF Acquire, AcquireTimesOut, TypeOK, IssuerAssumption
  <2>2. /\ current' = [current EXCEPT ![c] = None]
        /\ readerPc' = [readerPc EXCEPT ![c] = "read"]
        /\ UNCHANGED <<via, inbox>>
        /\ \/ turnedAway' = turnedAway /\ workerPc' = [workerPc EXCEPT ![r] = "check"]
           \/ turnedAway' = turnedAway \cup {r} /\ workerPc' = workerPc
    BY <1>8, <2>1 DEF Acquire, AcquireTimesOut, Goto, netVars, workerVars
  <2>3. /\ \A d \in Conn : d # c => current[d] # r
        /\ \A d \in Conn : \A k \in 1 .. Len(inbox[d]) : inbox[d][k] # r
    BY <1>1, <2>1, IssuerAssumption DEF IssuerAssumption
  <2>4. Arrived'
    BY <1>1, <2>1, <2>2, IssuerAssumption DEF Arrived, TypeOK, IssuerAssumption
  <2>5. ASSUME NEW d \in Conn PROVE Read(d)'
    BY <1>1, <2>1, <2>2, <2>3 DEF TypeOK
  <2>6. ASSUME NEW d \in Conn, NEW k \in 1 .. Len(inbox'[d]) PROVE Here(d, k)'
    <3>1. inbox[d][k] \in Request /\ inbox[d][k] # r /\ inbox[d][k] # None
      BY <1>2, <2>2, <2>3, IssuerAssumption DEF IssuerAssumption
    <3> QED
      BY <1>1, <2>1, <2>2, <3>1 DEF TypeOK
  <2> QED
    BY <2>4, <2>5, <2>6
<1>9. ASSUME NEW c \in Conn, ReadFails(c) \/ Close(c) PROVE Kept
  <2>1. /\ \E loc \in {"close", "done"} : readerPc' = [readerPc EXCEPT ![c] = loc]
        /\ readerPc[c] # "acquire"
        /\ inbox' = inbox \/ inbox' = [inbox EXCEPT ![c] = <<>>]
        /\ UNCHANGED <<via, current, turnedAway, workerPc>>
    BY <1>9 DEF ReadFails, Close, netVars, workerVars
  <2>2. Arrived' /\ \A d \in Conn : Read(d)'
    BY <1>1, <2>1 DEF Arrived, TypeOK
  <2>3. Len(<<>>) = 0
    BY EmptySeq
  <2>4. ASSUME NEW d \in Conn, NEW k \in 1 .. Len(inbox'[d]) PROVE Here(d, k)'
    <3>1. inbox'[d] = inbox[d]
      BY <1>1, <2>1, <2>3, <2>4 DEF TypeOK
    <3> QED
      BY <1>1, <2>1, <2>4, <3>1
  <2> QED
    BY <2>2, <2>4
<1>10. ASSUME NEW r \in Request, Worker(r) PROVE Kept
  <2>1. UNCHANGED <<via, inbox, readerVars>>
    BY <1>1, <1>10, WorkerMoves
  <2>2. \A q \in Request : workerPc[q] = "none" <=> workerPc'[q] = "none"
    BY <1>1, <1>10, WorkerMoves DEF Working
  <2> QED
    BY <1>4, <2>1, <2>2
<1>11. ASSUME NEW r \in Request, Execute(r) \/ DeadlinePasses(r) PROVE Kept
  BY <1>4, <1>11 DEF Execute, DeadlinePasses, netVars, workerVars
<1>12. ASSUME UNCHANGED vars PROVE Kept
  BY <1>4, <1>12 DEF vars, netVars, workerVars
<1> QED
  BY <1>5, <1>6, <1>7, <1>8, <1>9, <1>10, <1>11, <1>12 DEF Next, Reader

------------------------------------------------------------------------------
\* Decisions.

\* What a goroutine is about to write stays true of its statement, whatever
\* the database, a deadline or a disconnect does in between.
LEMMA DecidingStep == IInv /\ [Next]_vars => \A q \in Request : Deciding(q)'
<1> SUFFICES ASSUME IInv, [Next]_vars, NEW q \in Request PROVE Deciding(q)'
  OBVIOUS
<1>0. TypeOK /\ QueuedOnce /\ \A r \in Request : Deciding(r)
  BY DEF IInv
<1> USE DEF Deciding, Harmless, TypeOK, netVars, readerVars, workerVars, dbVars
<1>1. ASSUME UNCHANGED <<workerPc, answer, dbVars>>, ctxDone[q] => ctxDone'[q] PROVE Deciding(q)'
  BY <1>0, <1>1
<1>2. ASSUME NEW r \in Request, NEW c \in Conn, SendFrame(r, c) PROVE Deciding(q)'
  BY <1>1, <1>2 DEF SendFrame
<1>3. ASSUME NEW c \in Conn, AcquirerReads(c) \/ PeerGone(c) PROVE Deciding(q)'
  BY <1>1, <1>3 DEF AcquirerReads, PeerGone
<1>4. ASSUME NEW c \in Conn, Reader(c), ~Acquire(c) PROVE Deciding(q)'
  BY <1>0, <1>1, <1>4 DEF Reader, ReadFrame, AcquireTimesOut, ReadFails, Close
<1>5. ASSUME NEW c \in Conn, Acquire(c) PROVE Deciding(q)'
  <2>1. current[c] # None => workerPc[current[c]] = "none"
    BY <1>0 DEF QueuedOnce
  <2>2. current[c] # None
    BY <1>0, <1>5 DEF Acquire, QueuedOnce
  <2> QED
    BY <1>0, <1>5, <2>1, <2>2 DEF Acquire, Goto, Working
<1>6. ASSUME NEW r \in Request, Check(r) \/ HandleFails(r) \/ RefuseEarly(r) PROVE Deciding(q)'
  BY <1>0, <1>6 DEF Check, HandleFails, RefuseEarly, Decide, Goto
<1>7. ASSUME NEW r \in Request, StartStatement(r) \/ Execute(r) PROVE Deciding(q)'
  BY <1>0, <1>7 DEF StartStatement, Execute, Goto
<1>8. ASSUME NEW r \in Request, StatementReturns(r) PROVE Deciding(q)'
  BY <1>0, <1>8 DEF StatementReturns, Decide, Goto
<1>9. ASSUME NEW r \in Request, StatementCancelled(r) \/ DatabaseLost(r) PROVE Deciding(q)'
  BY <1>0, <1>9 DEF StatementCancelled, DatabaseLost, Decide, Goto
<1>10. ASSUME NEW r \in Request, Recheck(r) \/ Lock(r) PROVE Deciding(q)'
  BY <1>0, <1>10 DEF Recheck, Lock, Goto
<1>11. ASSUME NEW r \in Request, Write(r) \/ WriteFails(r) \/ Release(r) PROVE Deciding(q)'
  BY <1>0, <1>11 DEF Write, WriteFails, Release, Goto
<1>12. ASSUME NEW r \in Request, DeadlinePasses(r) PROVE Deciding(q)'
  BY <1>0, <1>1, <1>12 DEF DeadlinePasses
<1>13. ASSUME UNCHANGED vars PROVE Deciding(q)'
  BY <1>1, <1>13 DEF vars
<1> QED
  BY <1>2, <1>3, <1>4, <1>5, <1>6, <1>7, <1>8, <1>9, <1>10, <1>11, <1>12, <1>13
  DEF Next, Worker

------------------------------------------------------------------------------
\* Answers.

\* The answers of a connection are a sequence of frames.
LEMMA AnswersType ==
    ASSUME TypeOK, NEW c \in Conn
    PROVE  /\ Answers(c) \in Seq(Frame) /\ Len(Answers(c)) \in Nat
           /\ \A k \in 1 .. Len(Answers(c)) : Answers(c)[k] \in Frame
<1>1. received[c] \in Seq(Frame) /\ outbox[c] \in Seq(Frame)
  BY DEF TypeOK
<1>2. Answers(c) \in Seq(Frame)
  BY <1>1, ConcatProperties DEF Answers
<1> HIDE DEF Answers
<1> QED
  BY <1>2, LenProperties, ElementOfSeq

\* What the acquirer reads was the first of those on the socket.
LEMMA ReadAnswers ==
    ASSUME NEW S, NEW s \in Seq(S), NEW t \in Seq(S), t # <<>>
    PROVE  Append(s, Head(t)) \o Tail(t) = s \o t
<1>1. /\ Head(t) \in S /\ Tail(t) \in Seq(S) /\ Len(Tail(t)) = Len(t) - 1
      /\ \A i \in 1 .. Len(Tail(t)) : Tail(t)[i] = t[i + 1]
      /\ Head(t) = t[1] /\ Len(t) \in Nat \ {0} /\ Len(s) \in Nat
  BY HeadTailProperties, EmptySeq, LenProperties
<1> DEFINE a == Append(s, Head(t))
<1>2. /\ a \in Seq(S) /\ Len(a) = Len(s) + 1 /\ a[Len(s) + 1] = t[1]
      /\ \A i \in 1 .. Len(s) : a[i] = s[i]
  BY <1>1, AppendProperties
<1> HIDE DEF a
<1>3. /\ a \o Tail(t) \in Seq(S) /\ Len(a \o Tail(t)) = Len(a) + Len(Tail(t))
      /\ \A i \in 1 .. Len(a) + Len(Tail(t)) :
            (a \o Tail(t))[i] = IF i <= Len(a) THEN a[i] ELSE Tail(t)[i - Len(a)]
  BY <1>1, <1>2, ConcatProperties
<1>4. /\ s \o t \in Seq(S) /\ Len(s \o t) = Len(s) + Len(t)
      /\ \A i \in 1 .. Len(s) + Len(t) : (s \o t)[i] = IF i <= Len(s) THEN s[i] ELSE t[i - Len(s)]
  BY ConcatProperties
<1>5. ASSUME NEW i \in 1 .. Len(a \o Tail(t)) PROVE (a \o Tail(t))[i] = (s \o t)[i]
  <2>1. i \in 1 .. Len(s) + Len(t) /\ i \in Nat
    BY <1>1, <1>2, <1>3
  <2>2. CASE i <= Len(s)
    BY <1>1, <1>2, <1>3, <1>4, <2>1, <2>2
  <2>3. CASE i = Len(s) + 1
    BY <1>1, <1>2, <1>3, <1>4, <2>1, <2>3
  <2>4. CASE i > Len(s) + 1
    <3>1. /\ i - Len(a) \in 1 .. Len(Tail(t)) /\ (i - Len(a)) + 1 = i - Len(s)
          /\ ~(i <= Len(a)) /\ ~(i <= Len(s))
      BY <1>1, <1>2, <2>1, <2>4
    <3> QED
      BY <1>1, <1>2, <1>3, <1>4, <2>1, <3>1
  <2> QED
    BY <1>1, <2>1, <2>2, <2>3, <2>4
<1>6. Len(a \o Tail(t)) = Len(s \o t)
  BY <1>1, <1>2, <1>3, <1>4
<1>7. a \o Tail(t) = s \o t
  BY <1>3, <1>4, <1>5, <1>6, SeqEqual
<1> QED
  BY <1>7 DEF a

\* What a goroutine writes comes last.
LEMMA WriteAnswers ==
    ASSUME NEW S, NEW s \in Seq(S), NEW t \in Seq(S), NEW e \in S
    PROVE  s \o Append(t, e) = Append(s \o t, e)
<1>1. s \o t \in Seq(S) /\ <<e>> \in Seq(S)
  BY ConcatProperties
<1>2. Append(t, e) = t \o <<e>> /\ Append(s \o t, e) = (s \o t) \o <<e>>
  BY <1>1, AppendIsConcat
<1> QED
  BY <1>1, <1>2, ConcatAssociative

\* What is left of s when its end is lost.
Prefix(p, s) == Len(p) <= Len(s) /\ \A k \in 1 .. Len(p) : p[k] = s[k]

\* The first of two sequences is left of both.
LEMMA ConcatPrefix ==
    ASSUME NEW S, NEW s \in Seq(S), NEW t \in Seq(S)
    PROVE  Prefix(s, s \o t)
<1>1. Len(s) \in Nat /\ Len(t) \in Nat
  BY LenProperties
<1>2. /\ Len(s \o t) = Len(s) + Len(t)
      /\ \A i \in 1 .. Len(s) + Len(t) : (s \o t)[i] = IF i <= Len(s) THEN s[i] ELSE t[i - Len(s)]
  BY ConcatProperties
<1>3. \A k \in 1 .. Len(s) : k \in 1 .. Len(s) + Len(t) /\ k <= Len(s)
  BY <1>1
<1>4. ASSUME NEW k \in 1 .. Len(s) PROVE s[k] = (s \o t)[k]
  BY <1>2, <1>3
<1>5. Len(s) <= Len(s \o t)
  BY <1>1, <1>2
<1> QED
  BY <1>4, <1>5 DEF Prefix

\* The answers of a connection change when a goroutine writes, and when the
\* acquirer goes away.
LEMMA AnswerShapes ==
    ASSUME IInv, [Next]_vars, NEW c \in Conn
    PROVE  \/ Answers(c)' = Answers(c)
           \/ PeerGone(c) /\ Prefix(Answers(c)', Answers(c))
           \/ \E r \in Request :
                 /\ Write(r) /\ via[r] = c
                 /\ Answers(c)' = Append(Answers(c), [tpdu |-> r, answer |-> answer[r]])
<1>0. TypeOK /\ received[c] \in Seq(Frame) /\ outbox[c] \in Seq(Frame)
  BY DEF IInv, TypeOK
<1> USE DEF netVars
<1>1. ASSUME received'[c] = received[c], outbox'[c] = outbox[c] PROVE Answers(c)' = Answers(c)
  BY <1>1 DEF Answers
<1>2. ASSUME NEW d \in Conn, AcquirerReads(d) PROVE Answers(c)' = Answers(c)
  <2>1. CASE d = c
    <3>1. /\ outbox[c] # <<>>
          /\ received'[c] = Append(received[c], Head(outbox[c])) /\ outbox'[c] = Tail(outbox[c])
      BY <1>0, <1>2, <2>1 DEF AcquirerReads, TypeOK
    <3>2. Append(received[c], Head(outbox[c])) \o Tail(outbox[c]) = received[c] \o outbox[c]
      BY <1>0, <3>1, ReadAnswers
    <3> QED
      BY <3>1, <3>2 DEF Answers
  <2>2. CASE d # c
    BY <1>0, <1>1, <1>2, <2>2 DEF AcquirerReads, TypeOK
  <2> QED
    BY <2>1, <2>2
<1>3. ASSUME NEW d \in Conn, PeerGone(d)
      PROVE  Answers(c)' = Answers(c) \/ (PeerGone(c) /\ Prefix(Answers(c)', Answers(c)))
  <2>1. CASE d # c
    <3>1. received'[c] = received[c] /\ outbox'[c] = outbox[c]
      BY <1>0, <1>3, <2>1 DEF PeerGone, TypeOK
    <3> QED
      BY <1>1, <3>1
  <2>2. CASE d = c
    <3>1. received'[c] = received[c] /\ outbox'[c] = <<>>
      BY <1>0, <1>3, <2>2 DEF PeerGone, TypeOK
    <3>2. Answers(c)' = received[c]
      BY <1>0, <3>1, ConcatEmptySeq DEF Answers
    <3>3. Prefix(received[c], received[c] \o outbox[c])
      BY <1>0, ConcatPrefix
    <3>4. Answers(c) = received[c] \o outbox[c]
      BY DEF Answers
    <3>5. Prefix(Answers(c)', Answers(c))
      BY <3>2, <3>3, <3>4, Zenon
    <3> QED
      BY <1>3, <2>2, <3>5
  <2> QED
    BY <2>1, <2>2
<1>4. ASSUME NEW r \in Request, Write(r)
      PROVE  \/ Answers(c)' = Answers(c)
             \/ /\ via[r] = c
                /\ Answers(c)' = Append(Answers(c), [tpdu |-> r, answer |-> answer[r]])
  <2>1. CASE via[r] # c
    BY <1>0, <1>1, <1>4, <2>1 DEF Write, TypeOK
  <2>2. CASE via[r] = c
    <3>1. answer[r] # "none" /\ via[r] # None
      BY <1>4 DEF Write, IInv, Deciding, Arrived
    <3>2. PICK e \in Frame : e = [tpdu |-> r, answer |-> answer[r]]
      BY <1>0, <1>4, <3>1, WriteTypes
    <3>3. received'[c] = received[c] /\ outbox'[c] = Append(outbox[c], e)
      BY <1>0, <1>4, <2>2, <3>2 DEF Write, TypeOK
    <3>4. received[c] \o Append(outbox[c], e) = Append(received[c] \o outbox[c], e)
      <4> DEFINE s == received[c]
                 t == outbox[c]
      <4>1. s \in Seq(Frame) /\ t \in Seq(Frame)
        BY <1>0
      <4> HIDE DEF s, t
      <4>2. s \o Append(t, e) = Append(s \o t, e)
        BY <4>1, WriteAnswers
      <4> QED
        BY <4>2 DEF s, t
    <3>5. Answers(c)' = Append(Answers(c), e)
      BY <3>3, <3>4, Zenon DEF Answers
    <3> QED
      BY <2>2, <3>2, <3>5
  <2> QED
    BY <2>1, <2>2
<1>5. ASSUME NEW r \in Request, Worker(r), ~Write(r) PROVE Answers(c)' = Answers(c)
  BY <1>1, <1>5
  DEF Worker, Check, HandleFails, RefuseEarly, StartStatement, StatementReturns,
      StatementCancelled, DatabaseLost, Recheck, Lock, WriteFails, Release
<1>6. ASSUME NEW d \in Conn, Reader(d) PROVE Answers(c)' = Answers(c)
  BY <1>1, <1>6 DEF Reader, ReadFrame, Acquire, AcquireTimesOut, ReadFails, Close
<1>7. ASSUME NEW r \in Request, NEW d \in Conn, SendFrame(r, d) PROVE Answers(c)' = Answers(c)
  BY <1>1, <1>7 DEF SendFrame
<1>8. ASSUME NEW r \in Request, Execute(r) \/ DeadlinePasses(r) PROVE Answers(c)' = Answers(c)
  BY <1>1, <1>8 DEF Execute, DeadlinePasses
<1>9. ASSUME UNCHANGED vars PROVE Answers(c)' = Answers(c)
  BY <1>1, <1>9 DEF vars
<1> QED
  BY <1>2, <1>3, <1>4, <1>5, <1>6, <1>7, <1>8, <1>9 DEF Next

\* An answered request is over: its statement starts no more, and a commit or a
\* refusal stands.
LEMMA AnsweredStays ==
    ASSUME IInv, [Next]_vars, NEW r \in Request, workerPc[r] \in {"release", "done"}
    PROVE  /\ workerPc'[r] \in {"release", "done"} /\ via'[r] = via[r]
           /\ stmt[r] = "committed" => stmt'[r] = "committed"
           /\ Harmless(r) => Harmless(r)'
<1>0. TypeOK /\ QueuedOnce /\ via[r] # None
  BY DEF IInv, Arrived
<1> DEFINE Stays == /\ workerPc'[r] \in {"release", "done"} /\ via'[r] = via[r]
                    /\ stmt[r] = "committed" => stmt'[r] = "committed"
                    /\ Harmless(r) => Harmless(r)'
<1> USE DEF TypeOK, Harmless, netVars, readerVars, workerVars, dbVars
<1>1. ASSUME UNCHANGED <<workerPc, via, dbVars>> PROVE Stays
  BY <1>1
<1>2. ASSUME NEW q \in Request, NEW c \in Conn, SendFrame(q, c) PROVE Stays
  BY <1>0, <1>2 DEF SendFrame
<1>3. ASSUME NEW c \in Conn, AcquirerReads(c) \/ PeerGone(c) PROVE Stays
  BY <1>1, <1>3 DEF AcquirerReads, PeerGone
<1>4. ASSUME NEW c \in Conn, Reader(c), ~Acquire(c) PROVE Stays
  BY <1>1, <1>4 DEF Reader, ReadFrame, AcquireTimesOut, ReadFails, Close
<1>5. ASSUME NEW c \in Conn, Acquire(c) PROVE Stays
  <2>1. current[c] # r /\ workerPc' = [workerPc EXCEPT ![current[c]] = "check"]
    BY <1>0, <1>5 DEF Acquire, Goto, QueuedOnce
  <2> QED
    BY <1>0, <1>5, <2>1 DEF Acquire
<1>6. ASSUME NEW q \in Request, Worker(q) PROVE Stays
  <2>1. CASE q # r
    BY <1>0, <1>6, <2>1
    DEF Worker, Check, HandleFails, RefuseEarly, StartStatement, StatementReturns,
        StatementCancelled, DatabaseLost, Recheck, Lock, Write, WriteFails, Release, Decide, Goto
  <2>2. CASE q = r
    BY <1>0, <1>6, <2>2
    DEF Worker, Check, HandleFails, RefuseEarly, StartStatement, StatementReturns,
        StatementCancelled, DatabaseLost, Recheck, Lock, Write, WriteFails, Release, Goto
  <2> QED
    BY <2>1, <2>2
<1>7. ASSUME NEW q \in Request, Execute(q) \/ DeadlinePasses(q) PROVE Stays
  BY <1>0, <1>7 DEF Execute, DeadlinePasses
<1>8. ASSUME UNCHANGED vars PROVE Stays
  BY <1>1, <1>8 DEF vars
<1> QED
  BY <1>2, <1>3, <1>4, <1>5, <1>6, <1>7, <1>8 DEF Next, Reader

\* What the two properties say of the k-th answer of a connection.
GoodAnswer(c, k) ==
    LET f == Answers(c)[k] IN
    /\ via[f.tpdu] = c /\ workerPc[f.tpdu] \in {"release", "done"}
    /\ IF f.answer = "approved" THEN stmt[f.tpdu] = "committed" ELSE Harmless(f.tpdu)

Distinct(s) == \A j, k \in 1 .. Len(s) : s[j].tpdu = s[k].tpdu => j = k

AnswersGood ==
    \A c \in Conn : Distinct(Answers(c)) /\ \A k \in 1 .. Len(Answers(c)) : GoodAnswer(c, k)

\* The properties in that form.
LEMMA AnswersAs == AnswersGood <=> AnswersTruthful /\ AnsweredOnce
  BY DEF AnswersGood, GoodAnswer, Distinct, Harmless, AnswersTruthful, AnsweredOnce

\* The same in the next state.
LEMMA AnswersAsNext == AnswersGood' => AnswersTruthful' /\ AnsweredOnce'
  BY AnswersAs, PTL

\* No step makes an answer untrue, or writes a second one.
LEMMA AnswersStep == IInv /\ [Next]_vars => AnswersGood'
<1> SUFFICES ASSUME IInv, [Next]_vars, NEW c \in Conn
             PROVE  /\ Distinct(Answers(c)')
                    /\ \A k \in 1 .. Len(Answers(c)') : GoodAnswer(c, k)'
  BY DEF AnswersGood
<1> DEFINE s == Answers(c)
<1>1. /\ TypeOK /\ Distinct(s) /\ Len(s) \in Nat /\ s \in Seq(Frame)
      /\ \A k \in 1 .. Len(s) : GoodAnswer(c, k) /\ s[k].tpdu \in Request
  <2>1. TypeOK /\ AnswersGood
    BY AnswersAs DEF IInv
  <2>2. /\ Len(s) \in Nat /\ s \in Seq(Frame) /\ \A k \in 1 .. Len(s) : s[k] \in Frame
    BY <2>1, AnswersType
  <2> QED
    BY <2>1, <2>2 DEF AnswersGood, Frame
<1>2. ASSUME NEW p, Answers(c)' = p, NEW k \in 1 .. Len(p), k \in 1 .. Len(s), p[k] = s[k]
      PROVE  GoodAnswer(c, k)'
  <2>1. PICK f \in Frame : f = s[k] /\ f.tpdu \in Request
    BY <1>1, <1>2, ElementOfSeq
  <2>2. /\ via[f.tpdu] = c /\ workerPc[f.tpdu] \in {"release", "done"}
        /\ IF f.answer = "approved" THEN stmt[f.tpdu] = "committed" ELSE Harmless(f.tpdu)
    BY <1>1, <1>2, <2>1 DEF GoodAnswer
  <2>3. /\ via'[f.tpdu] = c /\ workerPc'[f.tpdu] \in {"release", "done"}
        /\ IF f.answer = "approved" THEN stmt'[f.tpdu] = "committed" ELSE Harmless(f.tpdu)'
    BY <2>1, <2>2, AnsweredStays
  <2>4. Answers(c)'[k] = f
    BY <1>2, <2>1
  <2> HIDE DEF s
  <2> QED
    BY <2>3, <2>4 DEF GoodAnswer
<1>3. CASE Answers(c)' = Answers(c)
  BY <1>1, <1>2, <1>3
<1>4. CASE Prefix(Answers(c)', Answers(c))
  <2>1. PICK p : p = Answers(c)'
    OBVIOUS
  <2>2. Len(p) \in Nat
    <3>1. received'[c] \in Seq(Frame) /\ outbox'[c] \in Seq(Frame)
      BY TypeStep DEF TypeOK
    <3>2. received'[c] \o outbox'[c] \in Seq(Frame)
      BY <3>1, ConcatProperties
    <3>3. p = received'[c] \o outbox'[c]
      BY <2>1 DEF Answers
    <3> QED
      BY <3>2, <3>3, LenProperties
  <2>3. Prefix(p, s)
    BY <1>4, <2>1
  <2> HIDE DEF s
  <2>4. \A k \in 1 .. Len(p) : k \in 1 .. Len(s) /\ p[k] = s[k]
    BY <1>1, <2>2, <2>3 DEF Prefix
  <2>5. Distinct(p)
    BY <1>1, <2>2, <2>4 DEF Distinct
  <2>6. \A k \in 1 .. Len(p) : GoodAnswer(c, k)'
    BY <1>2, <2>1, <2>4
  <2> QED
    BY <2>1, <2>5, <2>6
<1>5. ASSUME NEW r \in Request, Write(r), via[r] = c,
             Answers(c)' = Append(Answers(c), [tpdu |-> r, answer |-> answer[r]])
      PROVE  Distinct(Answers(c)') /\ \A k \in 1 .. Len(Answers(c)') : GoodAnswer(c, k)'
  <2>1. answer[r] # "none" /\ via[r] # None /\ Deciding(r)
    BY <1>5 DEF Write, IInv, Deciding, Arrived
  <2>2. PICK e \in Frame : e = [tpdu |-> r, answer |-> answer[r]]
    BY <1>1, <1>5, <2>1, WriteTypes
  <2>3. PICK p, n : p = Append(s, e) /\ n = Len(s) + 1
    OBVIOUS
  <2>4. /\ Answers(c)' = p /\ Len(p) = n /\ p[n] = e /\ n \in Nat
        /\ \A k \in 1 .. Len(s) : p[k] = s[k]
    BY <1>1, <1>5, <2>2, <2>3, AppendProperties
  <2>5. \A k \in 1 .. Len(s) : s[k].tpdu # r
    BY <1>1, <1>5 DEF GoodAnswer, Write
  <2> HIDE DEF s
  <2>6. \A k \in 1 .. Len(p) : k \in 1 .. Len(s) \/ k = n
    BY <1>1, <2>3, <2>4
  <2>7. Distinct(p)
    BY <1>1, <2>2, <2>3, <2>4, <2>5, <2>6 DEF Distinct
  <2>8. /\ workerPc'[r] = "release" /\ via'[r] = c /\ stmt'[r] = stmt[r] /\ broken' = broken
    BY <1>1, <1>5 DEF Write, Goto, TypeOK, dbVars
  <2>9. IF answer[r] = "approved" THEN stmt'[r] = "committed" ELSE Harmless(r)'
    BY <1>1, <1>5, <2>1, <2>8 DEF Deciding, Write, Harmless, TypeOK, Verdict
  <2>10. GoodAnswer(c, n)'
    <3>1. Answers(c)'[n] = e /\ e.tpdu = r /\ e.answer = answer[r]
      BY <2>2, <2>4
    <3> QED
      BY <2>8, <2>9, <3>1 DEF GoodAnswer
  <2>11. ASSUME NEW k \in 1 .. Len(p) PROVE GoodAnswer(c, k)'
    <3>1. CASE k \in 1 .. Len(s)
      BY <1>2, <2>4, <3>1
    <3>2. CASE k = n
      BY <2>10, <3>2
    <3> QED
      BY <2>6, <3>1, <3>2
  <2> QED
    BY <2>4, <2>7, <2>11
<1> QED
  BY <1>3, <1>4, <1>5, AnswerShapes

------------------------------------------------------------------------------
\* The theorems.

\* Nothing has been sent, and no slot is taken.
LEMMA InvInit == Init => IInv
<1> SUFFICES ASSUME Init PROVE IInv
  OBVIOUS
<1>1. TypeOK
  <2>1. <<>> \in Seq(Request) /\ <<>> \in Seq(Frame) /\ Len(<<>>) = 0
    BY EmptySeq
  <2> QED
    BY <2>1, IssuerAssumption DEF Init, TypeOK, ReaderPc, IssuerAssumption
<1>2. PoolExact
  <2>1. Workers = {}
    BY DEF Init, Workers, Working
  <2> QED
    BY <2>1, FS_EmptySet, IssuerAssumption DEF Init, PoolExact, IssuerAssumption
<1>3. QueuedOnce /\ Arrived /\ \A r \in Request : Deciding(r)
  BY DEF Init, QueuedOnce, Arrived, Deciding, Harmless
<1>4. AnswersTruthful /\ AnsweredOnce
  <2>1. \A c \in Conn : Answers(c) = <<>>
    BY EmptySeq, ConcatEmptySeq DEF Init, Answers
  <2>2. \A c \in Conn : 1 .. Len(Answers(c)) = {}
    BY <2>1
  <2> QED
    BY <2>2 DEF AnswersTruthful, AnsweredOnce
<1> QED
  BY <1>1, <1>2, <1>3, <1>4 DEF IInv

LEMMA InvStep == IInv /\ [Next]_vars => IInv'
<1> SUFFICES ASSUME IInv, [Next]_vars PROVE IInv'
  OBVIOUS
<1>1. TypeOK' /\ PoolExact'
  BY TypeStep, PoolStep DEF IInv
<1>2. QueuedOnce' /\ Arrived' /\ \A r \in Request : Deciding(r)'
  BY QueuedStep, DecidingStep
<1>3. AnswersTruthful' /\ AnsweredOnce'
  BY AnswersStep, AnswersAsNext
<1> QED
  BY <1>1, <1>2, <1>3 DEF IInv

\* In every state of the issuer a request is in one place, its statement is one
\* and its answer follows from it.
THEOREM IssuerInvariant == Spec => []IInv
  BY InvInit, InvStep, PTL DEF Spec

\* Every variable of the server keeps its type; in particular len(workerPool)
\* stays within the channel, and no socket holds more than it can.
THEOREM IssuerTypeCorrect == Spec => []TypeOK
<1>1. IInv => TypeOK
  BY DEF IInv
<1> QED
  BY <1>1, IssuerInvariant, PTL

\* Every early return of the goroutine and every closed connection gives its
\* slot back exactly once: the slots taken are the goroutines at work.
THEOREM IssuerPoolExact == Spec => []PoolExact
<1>1. IInv => PoolExact
  BY DEF IInv
<1> QED
  BY <1>1, IssuerInvariant, PTL

\* The second look at the context before the write keeps a request whose
\* statement is still running from being answered: what is written is true.
THEOREM IssuerAnswersTruthful == Spec => []AnswersTruthful
<1>1. IInv => AnswersTruthful
  BY DEF IInv
<1> QED
  BY <1>1, IssuerInvariant, PTL

\* The header a goroutine writes is its own copy and it writes once: no request
\* is answered twice, or on another connection.
THEOREM IssuerAnsweredOnce == Spec => []AnsweredOnce
<1>1. IInv => AnsweredOnce
  BY DEF IInv
<1> QED
  BY <1>1, IssuerInvariant, PTL

------------------------------------------------------------------------------
\* What the abstract server shows of a request.

\* A connection carries the answer v to request r.
HasAnswer(r, v) ==
    \E c \in Conn : \E k \in 1 .. Len(Answers(c)) :
        Answers(c)[k].tpdu = r /\ Answers(c)[k].answer = v

Silent(r) == \A v : ~HasAnswer(r, v)

\* The seat of a request that has no answer.
SeatOf(r) ==
    IF workerPc[r] \in Working \ {"release"} THEN "busy"
    ELSE IF workerPc[r] = "none" /\ r \notin turnedAway THEN "idle"
    ELSE "dropped"

\* A request that is answered has given up its goroutine's work.
LEMMA AnsweredEnds ==
    ASSUME IInv, NEW r \in Request, NEW v, HasAnswer(r, v)
    PROVE  /\ workerPc[r] \in {"release", "done"} /\ via[r] \in Conn /\ v \in Verdict
           /\ \E k \in 1 .. Len(Answers(via[r])) :
                 /\ Answers(via[r])[k].tpdu = r /\ Answers(via[r])[k].answer = v
                 /\ \A j \in 1 .. Len(Answers(via[r])) : Answers(via[r])[j].tpdu = r => j = k
<1>1. PICK c \in Conn : \E k \in 1 .. Len(Answers(c)) :
          Answers(c)[k].tpdu = r /\ Answers(c)[k].answer = v
  BY DEF HasAnswer
<1>2. PICK k \in 1 .. Len(Answers(c)) : Answers(c)[k].tpdu = r /\ Answers(c)[k].answer = v
  BY <1>1
<1>3. /\ via[r] = c /\ workerPc[r] \in {"release", "done"}
      /\ \A j \in 1 .. Len(Answers(c)) : Answers(c)[j].tpdu = r => j = k
  BY <1>2 DEF IInv, AnsweredOnce
<1>4. Answers(c)[k] \in Frame
  BY <1>2, AnswersType DEF IInv
<1>5. v \in Verdict
  BY <1>2, <1>4 DEF Frame
<1> QED
  BY <1>2, <1>3, <1>5

\* An answered request is replied to with that answer.
LEMMA AnsweredBars ==
    ASSUME IInv, NEW r \in Request, NEW v, HasAnswer(r, v)
    PROVE  SeatBar[r] = "replied" /\ VerdictBar[r] = v
<1>1. PICK k \in 1 .. Len(Answers(via[r])) :
          /\ Answers(via[r])[k].tpdu = r /\ Answers(via[r])[k].answer = v
          /\ \A j \in 1 .. Len(Answers(via[r])) : Answers(via[r])[j].tpdu = r => j = k
  BY AnsweredEnds
<1>2. via[r] # None
  BY AnsweredEnds, IssuerAssumption DEF IssuerAssumption
<1>3. Answered(r)
  BY <1>1, <1>2 DEF Answered
<1>4. (CHOOSE j \in 1 .. Len(Answers(via[r])) : Answers(via[r])[j].tpdu = r) = k
  BY <1>1
<1>5. AnswerTo(r) = v
  BY <1>1, <1>4 DEF AnswerTo
<1>6. SeatBar[r] = "replied"
  BY <1>3 DEF SeatBar
<1> QED
  BY <1>5, <1>6 DEF VerdictBar

\* The others sit where their goroutine is.
LEMMA SilentBars ==
    ASSUME IInv, NEW r \in Request, Silent(r)
    PROVE  /\ SeatBar[r] = SeatOf(r)
           /\ VerdictBar[r] = IF SeatOf(r) = "busy" THEN answer[r] ELSE "none"
<1>1. ~Answered(r)
  <2>1. via[r] # None => via[r] \in Conn
    BY DEF IInv, TypeOK
  <2> QED
    BY <2>1 DEF Answered, Silent, HasAnswer
<1>2. SeatBar[r] = SeatOf(r)
  BY <1>1 DEF SeatBar, SeatOf
<1>3. SeatOf(r) # "replied"
  BY DEF SeatOf
<1> QED
  BY <1>2, <1>3 DEF VerdictBar

\* Both in one, which the next state has too.
Shown ==
    \A r \in Request :
        /\ \A v : HasAnswer(r, v) =>
              SeatBar[r] = "replied" /\ VerdictBar[r] = v /\ workerPc[r] \in {"release", "done"}
        /\ Silent(r) => /\ SeatBar[r] = SeatOf(r)
                        /\ VerdictBar[r] = IF SeatOf(r) = "busy" THEN answer[r] ELSE "none"

LEMMA BarsShown == IInv => Shown
  BY AnsweredBars, SilentBars, AnsweredEnds DEF Shown

LEMMA BarsShownNext == IInv' => Shown'
  BY BarsShown, PTL

------------------------------------------------------------------------------
\* How the answers change.

\* Only a write adds an answer, the one to its own request.
LEMMA AnswersAdded ==
    ASSUME IInv, [Next]_vars, NEW r \in Request, NEW v, HasAnswer(r, v)'
    PROVE  HasAnswer(r, v) \/ (Write(r) /\ v = answer[r])
<1>1. PICK c \in Conn : \E k \in 1 .. Len(Answers(c)') :
          Answers(c)'[k].tpdu = r /\ Answers(c)'[k].answer = v
  BY DEF HasAnswer
<1>2. PICK p : p = Answers(c)'
  OBVIOUS
<1>3. PICK k \in 1 .. Len(p) : p[k].tpdu = r /\ p[k].answer = v
  BY <1>1, <1>2
<1> DEFINE s == Answers(c)
<1>4. TypeOK /\ s \in Seq(Frame) /\ Len(s) \in Nat
  BY AnswersType DEF IInv
<1>5. ASSUME k \in 1 .. Len(s), p[k] = s[k] PROVE HasAnswer(r, v)
  BY <1>3, <1>5 DEF HasAnswer
<1>6. CASE p = s
  BY <1>3, <1>5, <1>6
<1>7. CASE Prefix(p, s)
  <2>1. Len(p) \in Nat
    <3>1. received'[c] \in Seq(Frame) /\ outbox'[c] \in Seq(Frame)
      BY TypeStep DEF TypeOK
    <3>2. received'[c] \o outbox'[c] \in Seq(Frame)
      BY <3>1, ConcatProperties
    <3>3. p = received'[c] \o outbox'[c]
      BY <1>2 DEF Answers
    <3> QED
      BY <3>2, <3>3, LenProperties
  <2> HIDE DEF s
  <2>2. k \in 1 .. Len(s) /\ p[k] = s[k]
    BY <1>3, <1>4, <1>7, <2>1 DEF Prefix
  <2> QED
    BY <1>5, <2>2
<1>8. ASSUME NEW q \in Request, Write(q), via[q] = c,
             p = Append(s, [tpdu |-> q, answer |-> answer[q]])
      PROVE  HasAnswer(r, v) \/ (Write(r) /\ v = answer[r])
  <2>1. answer[q] # "none" /\ via[q] # None
    BY <1>8 DEF Write, IInv, Deciding, Arrived
  <2>2. PICK e \in Frame : e = [tpdu |-> q, answer |-> answer[q]]
    BY <1>4, <1>8, <2>1, WriteTypes
  <2>3. /\ Len(p) = Len(s) + 1 /\ p[Len(s) + 1] = e
        /\ \A i \in 1 .. Len(s) : p[i] = s[i]
    BY <1>4, <1>8, <2>2, AppendProperties
  <2> HIDE DEF s
  <2>4. k \in 1 .. Len(s) \/ k = Len(s) + 1
    BY <1>3, <1>4, <2>3
  <2>5. CASE k \in 1 .. Len(s)
    BY <1>5, <2>3, <2>5
  <2>6. CASE k = Len(s) + 1
    <3>1. e.tpdu = q /\ e.answer = answer[q]
      BY <2>2
    <3> QED
      BY <1>3, <1>8, <2>3, <2>6, <3>1
  <2> QED
    BY <2>4, <2>5, <2>6
<1> QED
  BY <1>2, <1>6, <1>7, <1>8, AnswerShapes

\* Only a lost peer takes one away.
LEMMA AnswersKept ==
    ASSUME IInv, [Next]_vars, \A c \in Conn : ~PeerGone(c), NEW r \in Request, NEW v, HasAnswer(r, v)
    PROVE  HasAnswer(r, v)'
<1>1. PICK c \in Conn : \E k \in 1 .. Len(Answers(c)) :
          Answers(c)[k].tpdu = r /\ Answers(c)[k].answer = v
  BY DEF HasAnswer
<1>2. PICK k \in 1 .. Len(Answers(c)) : Answers(c)[k].tpdu = r /\ Answers(c)[k].answer = v
  BY <1>1
<1> DEFINE s == Answers(c)
<1>3. TypeOK /\ s \in Seq(Frame) /\ Len(s) \in Nat
  BY AnswersType DEF IInv
<1>4. PICK p : p = Answers(c)'
  OBVIOUS
<1>5. ASSUME k \in 1 .. Len(p), p[k] = s[k] PROVE HasAnswer(r, v)'
  BY <1>2, <1>4, <1>5 DEF HasAnswer
<1>6. CASE p = s
  BY <1>2, <1>5, <1>6
<1>7. ASSUME NEW q \in Request, Write(q), via[q] = c,
             p = Append(s, [tpdu |-> q, answer |-> answer[q]])
      PROVE  HasAnswer(r, v)'
  <2>1. answer[q] # "none" /\ via[q] # None
    BY <1>7 DEF Write, IInv, Deciding, Arrived
  <2>2. PICK e \in Frame : e = [tpdu |-> q, answer |-> answer[q]]
    BY <1>3, <1>7, <2>1, WriteTypes
  <2>3. Len(p) = Len(s) + 1 /\ \A i \in 1 .. Len(s) : p[i] = s[i]
    BY <1>3, <1>7, <2>2, AppendProperties
  <2> HIDE DEF s
  <2>4. k \in 1 .. Len(s)
    BY <1>2 DEF s
  <2> QED
    BY <1>3, <1>5, <2>3, <2>4
<1> QED
  BY <1>4, <1>6, <1>7, AnswerShapes

\* A write answers its request with what has been decided.
LEMMA WriteAdds ==
    ASSUME IInv, NEW r \in Request, Write(r), NEW v, v = answer[r]
    PROVE  HasAnswer(r, v)'
<1>1. TypeOK /\ answer[r] # "none" /\ via[r] # None
  BY DEF Write, IInv, Deciding, Arrived
<1>2. PICK e \in Frame : e = [tpdu |-> r, answer |-> answer[r]]
  BY <1>1, WriteTypes
<1>3. PICK c \in Conn : c = via[r]
  BY <1>1 DEF TypeOK
<1>4. outbox[c] \in Seq(Frame) /\ received[c] \in Seq(Frame)
  BY <1>1 DEF TypeOK
<1>5. outbox'[c] = Append(outbox[c], e) /\ received' = received
  BY <1>1, <1>2, <1>3 DEF Write, TypeOK
<1>6. received[c] \o Append(outbox[c], e) = Append(received[c] \o outbox[c], e)
  <2> DEFINE s == received[c]
             t == outbox[c]
  <2>1. s \in Seq(Frame) /\ t \in Seq(Frame)
    BY <1>4
  <2> HIDE DEF s, t
  <2>2. s \o Append(t, e) = Append(s \o t, e)
    BY <2>1, WriteAnswers
  <2> QED
    BY <2>2 DEF s, t
<1>7. Answers(c)' = Append(Answers(c), e)
  BY <1>5, <1>6, Zenon DEF Answers
<1>8. Answers(c) \in Seq(Frame) /\ Len(Answers(c)) \in Nat
  BY <1>1, AnswersType
<1>9. PICK p, n : p = Answers(c)' /\ n = Len(Answers(c)) + 1
  OBVIOUS
<1>10. Len(p) = n /\ p[n] = e /\ n \in 1 .. Len(p)
  BY <1>7, <1>8, <1>9, AppendProperties
<1>11. e.tpdu = r /\ e.answer = answer[r]
  BY <1>2
<1> QED
  BY <1>9, <1>10, <1>11 DEF HasAnswer

\* Nothing else moves the answers to a request.
LEMMA AnswersSame ==
    ASSUME IInv, [Next]_vars, NEW q \in Request, peer' = peer,
           outbox' = outbox \/ workerPc'[q] = workerPc[q]
    PROVE  \A v : HasAnswer(q, v)' <=> HasAnswer(q, v)
<1>1. \A c \in Conn : ~PeerGone(c)
  BY DEF PeerGone, IInv, TypeOK
<1>2. ~Write(q)
  <2> SUFFICES ASSUME Write(q) PROVE FALSE
    OBVIOUS
  <2>1. TypeOK /\ answer[q] # "none" /\ via[q] # None
    BY DEF Write, IInv, Deciding, Arrived
  <2>2. PICK e \in Frame : e = [tpdu |-> q, answer |-> answer[q]]
    BY <2>1, WriteTypes
  <2>3. workerPc'[q] # workerPc[q]
    BY <2>1 DEF Write, Goto, TypeOK
  <2>4. /\ via[q] \in Conn /\ outbox[via[q]] \in Seq(Frame)
        /\ outbox'[via[q]] = Append(outbox[via[q]], e)
    BY <2>1, <2>2 DEF Write, TypeOK
  <2>5. Len(outbox'[via[q]]) = Len(outbox[via[q]]) + 1 /\ Len(outbox[via[q]]) \in Nat
    BY <2>4, AppendProperties, LenProperties
  <2> QED
    BY <2>3, <2>5
<1> QED
  BY <1>1, <1>2, AnswersAdded, AnswersKept

------------------------------------------------------------------------------
\* The mapping, request by request.

LEMMA BarsAreFunctions ==
    SeatBar = [q \in Request |-> SeatBar[q]] /\ VerdictBar = [q \in Request |-> VerdictBar[q]]
  BY DEF SeatBar, VerdictBar

LEMMA BarsAreFunctionsNext ==
    /\ SeatBar' = [q \in Request |-> SeatBar'[q]]
    /\ VerdictBar' = [q \in Request |-> VerdictBar'[q]]
  BY DEF SeatBar, VerdictBar

\* The bars of a request that keeps its place keep their values.
Still(q) == SeatBar'[q] = SeatBar[q] /\ VerdictBar'[q] = VerdictBar[q]

LEMMA StillBars ==
    ASSUME IInv, IInv', [Next]_vars, NEW q \in Request, peer' = peer,
           outbox' = outbox \/ workerPc'[q] = workerPc[q],
           SeatOf(q)' = SeatOf(q), SeatOf(q) = "busy" => answer'[q] = answer[q]
    PROVE  Still(q)
<1>1. \A v : HasAnswer(q, v)' <=> HasAnswer(q, v)
  BY AnswersSame
<1>2. Shown /\ Shown'
  BY BarsShown, BarsShownNext
<1>3. CASE Silent(q)
  <2>1. Silent(q)'
    BY <1>1, <1>3 DEF Silent
  <2> QED
    BY <1>2, <1>3, <2>1 DEF Shown, Still
<1>4. ASSUME NEW v, HasAnswer(q, v) PROVE Still(q)
  <2>1. HasAnswer(q, v)'
    BY <1>1, <1>4
  <2> QED
    BY <1>2, <1>4, <2>1 DEF Shown, Still
<1> QED
  BY <1>3, <1>4 DEF Silent

\* All keep their place.
LEMMA AllStill ==
    ASSUME \A q \in Request : Still(q)
    PROVE  SeatBar' = SeatBar /\ VerdictBar' = VerdictBar
  BY BarsAreFunctions, BarsAreFunctionsNext DEF Still

\* One moves.
LEMMA OneMoves ==
    ASSUME NEW r \in Request, \A q \in Request \ {r} : Still(q)
    PROVE  /\ SeatBar' = [SeatBar EXCEPT ![r] = SeatBar'[r]]
           /\ VerdictBar' = [VerdictBar EXCEPT ![r] = VerdictBar'[r]]
           /\ VerdictBar'[r] = VerdictBar[r] => VerdictBar' = VerdictBar
           /\ SeatBar'[r] = SeatBar[r] => SeatBar' = SeatBar
           /\ VerdictBar'[r] = "none" =>
                 VerdictBar' = [q \in Request |-> IF q \in {r} THEN "none" ELSE VerdictBar[q]]
  BY BarsAreFunctions, BarsAreFunctionsNext DEF Still

------------------------------------------------------------------------------
\* The steps of a goroutine.

\* The other requests do not notice.
LEMMA WorkerOthers ==
    ASSUME IInv, IInv', [Next]_vars, NEW r \in Request, Worker(r), NEW q \in Request \ {r}
    PROVE  Still(q)
<1>1. workerPc'[q] = workerPc[q] /\ turnedAway' = turnedAway
  BY WorkerMoves DEF IInv, readerVars
<1>2. peer' = peer
  BY DEF Worker, Check, HandleFails, RefuseEarly, StartStatement, StatementReturns,
         StatementCancelled, DatabaseLost, Recheck, Lock, Write, WriteFails, Release, netVars
<1>3. answer'[q] = answer[q]
  BY DEF Worker, Check, HandleFails, RefuseEarly, StartStatement, StatementReturns,
         StatementCancelled, DatabaseLost, Recheck, Lock, Write, WriteFails, Release, Decide,
         IInv, TypeOK
<1>4. SeatOf(q)' = SeatOf(q)
  BY <1>1 DEF SeatOf
<1> QED
  BY <1>1, <1>2, <1>3, <1>4, StillBars

\* Until its goroutine lets go, a request is busy with what has been decided.
LEMMA BusyBars ==
    ASSUME IInv, NEW r \in Request, workerPc[r] \in Working \ {"release"}
    PROVE  SeatBar[r] = "busy" /\ VerdictBar[r] = answer[r]
<1>1. Silent(r)
  BY AnsweredEnds DEF Silent, Working
<1>2. SeatOf(r) = "busy"
  BY DEF SeatOf
<1> QED
  BY <1>1, <1>2, BarsShown DEF Shown

LEMMA BusyBarsNext ==
    ASSUME IInv', NEW r \in Request, workerPc'[r] \in Working \ {"release"}
    PROVE  SeatBar'[r] = "busy" /\ VerdictBar'[r] = answer'[r]
<1>1. Silent(r)' \/ \E v : HasAnswer(r, v)'
  BY DEF Silent
<1>2. Shown'
  BY BarsShownNext
<1>3. SeatOf(r)' = "busy"
  BY DEF SeatOf
<1>4. ~\E v : HasAnswer(r, v)'
  BY <1>2 DEF Shown, Working
<1> QED
  BY <1>1, <1>2, <1>3, <1>4 DEF Shown

\* It is dropped by a goroutine that lets go without writing.
LEMMA DroppedBars ==
    ASSUME IInv, IInv', [Next]_vars, NEW r \in Request, peer' = peer, outbox' = outbox,
           workerPc[r] \in Working \ {"release"}, workerPc'[r] = "release"
    PROVE  SeatBar'[r] = "dropped" /\ VerdictBar'[r] = "none"
<1>1. Silent(r)'
  BY AnsweredEnds, AnswersSame DEF Silent, Working
<1>2. SeatOf(r)' = "dropped"
  BY DEF SeatOf, Working
<1> QED
  BY <1>1, <1>2, BarsShownNext DEF Shown

\* Each step of a goroutine decides, replies, drops the request, or shows
\* nothing.
LEMMA WorkerMapped ==
    ASSUME IInv, IInv', [Next]_vars, NEW r \in Request, Worker(r)
    PROVE  Promise!Next \/ UNCHANGED <<SeatBar, stmt, VerdictBar, broken>>
<1> DEFINE Mapped == Promise!Next \/ UNCHANGED <<SeatBar, stmt, VerdictBar, broken>>
<1>1. \A q \in Request \ {r} : Still(q)
  BY WorkerOthers
<1>2. TypeOK /\ Deciding(r)
  BY DEF IInv
<1>3. /\ workerPc[r] \in Working \ {"release"} => SeatBar[r] = "busy" /\ VerdictBar[r] = answer[r]
      /\ workerPc'[r] \in Working \ {"release"} => SeatBar'[r] = "busy" /\ VerdictBar'[r] = answer'[r]
  BY BusyBars, BusyBarsNext
<1> USE DEF netVars, readerVars, dbVars
<1>4. ASSUME workerPc[r] \in Working \ {"release"}, workerPc'[r] \in Working \ {"release"},
             UNCHANGED <<answer, dbVars>>
      PROVE  Mapped
  BY <1>1, <1>3, <1>4, OneMoves
<1>5. ASSUME workerPc[r] \in Working \ {"release"}, workerPc'[r] = "release",
             UNCHANGED <<netVars, dbVars>>
      PROVE  Mapped
  <2>1. SeatBar[r] = "busy" /\ SeatBar'[r] = "dropped" /\ VerdictBar'[r] = "none"
    BY <1>3, <1>5, DroppedBars
  <2>2. Promise!Drop(r)
    BY <1>1, <1>5, <2>1, OneMoves DEF Promise!Drop, Promise!Sit, Promise!Forget
  <2> QED
    BY <2>2 DEF Promise!Next
<1>6. ASSUME NEW v \in Verdict, Decide(r, v), workerPc[r] \in {"handle", "await"},
             UNCHANGED stmt, answer[r] = "none"
      PROVE  /\ SeatBar[r] = "busy" /\ VerdictBar[r] = "none"
             /\ SeatBar' = SeatBar /\ VerdictBar' = [VerdictBar EXCEPT ![r] = v]
  <2>1. workerPc'[r] = "recheck" /\ answer'[r] = v
    BY <1>2, <1>6 DEF Decide, Goto, TypeOK
  <2>2. SeatBar[r] = "busy" /\ VerdictBar[r] = "none" /\ SeatBar'[r] = "busy" /\ VerdictBar'[r] = v
    BY <1>3, <1>6, <2>1 DEF Working
  <2> QED
    BY <1>1, <2>2, OneMoves
<1>7. CASE Check(r) \/ Recheck(r) \/ Lock(r)
  <2>1. /\ workerPc[r] \in {"check", "recheck", "lock"}
        /\ workerPc'[r] \in {"release", "handle", "lock", "write"}
        /\ UNCHANGED <<netVars, answer, dbVars>>
    BY <1>2, <1>7 DEF Check, Recheck, Lock, Goto, TypeOK
  <2> QED
    BY <1>4, <1>5, <2>1 DEF Working
<1>8. CASE HandleFails(r) \/ WriteFails(r)
  <2>1. /\ workerPc[r] \in {"handle", "recheck", "write"} /\ workerPc'[r] = "release"
        /\ UNCHANGED <<netVars, dbVars>>
    BY <1>2, <1>8 DEF HandleFails, WriteFails, Goto, TypeOK
  <2> QED
    BY <1>5, <2>1 DEF Working
<1>9. CASE RefuseEarly(r) \/ StatementCancelled(r)
  <2>1. /\ workerPc[r] \in {"handle", "await"} /\ answer[r] = "none" /\ Decide(r, "refused")
        /\ UNCHANGED dbVars
    BY <1>2, <1>9 DEF RefuseEarly, StatementCancelled, Deciding
  <2>2. Promise!Decide(r, "refused")
    BY <1>6, <2>1 DEF Promise!Decide, Promise!Undecided, Promise!Say, Verdict
  <2> QED
    BY <2>2 DEF Promise!Next
<1>10. CASE StatementReturns(r)
  <2>1. PICK v \in Verdict : v = IF stmt[r] = "committed" THEN "approved" ELSE "refused"
    BY DEF Verdict
  <2>2. /\ workerPc[r] \in {"handle", "await"} /\ answer[r] = "none" /\ Decide(r, v)
        /\ UNCHANGED dbVars
    BY <1>2, <1>10, <2>1 DEF StatementReturns, Deciding
  <2>3. Promise!Decide(r, v)
    BY <1>6, <2>1, <2>2 DEF Promise!Decide, Promise!Undecided, Promise!Say
  <2> QED
    BY <2>1, <2>3 DEF Promise!Next
<1>11. CASE DatabaseLost(r)
  <2>1. /\ workerPc[r] = "await" /\ answer[r] = "none" /\ stmt[r] # "none" /\ Decide(r, "refused")
        /\ stmt' = stmt /\ broken' = broken \cup {r}
    BY <1>2, <1>11 DEF DatabaseLost, Deciding
  <2>2. Promise!Break(r)
    BY <1>6, <2>1 DEF Promise!Break, Promise!Undecided, Promise!Say, Verdict
  <2> QED
    BY <2>2 DEF Promise!Next
<1>12. CASE StartStatement(r)
  <2>1. /\ workerPc[r] = "handle" /\ workerPc'[r] = "await" /\ UNCHANGED <<answer, broken>>
        /\ stmt[r] = "none" /\ answer[r] = "none" /\ stmt' = [stmt EXCEPT ![r] = "running"]
    BY <1>2, <1>12 DEF StartStatement, Goto, TypeOK, Deciding
  <2>2. /\ SeatBar[r] = "busy" /\ VerdictBar[r] = "none"
        /\ SeatBar'[r] = "busy" /\ VerdictBar'[r] = "none"
    BY <1>3, <2>1 DEF Working
  <2>3. Promise!Start(r)
    BY <1>1, <2>1, <2>2, OneMoves DEF Promise!Start, Promise!Undecided
  <2> QED
    BY <2>3 DEF Promise!Next
<1>13. CASE Write(r)
  <2>1. /\ workerPc[r] = "write" /\ answer[r] # "none" /\ UNCHANGED dbVars
        /\ answer[r] = "refused" => stmt[r] \in {"none", "refused"} \/ r \in broken
    BY <1>2, <1>13 DEF Write, Deciding, Harmless
  <2>2. PICK v : v = answer[r]
    OBVIOUS
  <2>3. HasAnswer(r, v)'
    BY <1>13, <2>2, WriteAdds
  <2>4. SeatBar'[r] = "replied" /\ VerdictBar'[r] = v
    BY <2>3, BarsShownNext DEF Shown
  <2>5. SeatBar[r] = "busy" /\ VerdictBar[r] = v
    BY <1>3, <2>1, <2>2 DEF Working
  <2>6. Promise!Reply(r)
    BY <1>1, <2>1, <2>2, <2>4, <2>5, OneMoves DEF Promise!Reply, Promise!Sit
  <2> QED
    BY <2>6 DEF Promise!Next
<1>14. CASE Release(r)
  <2>1. /\ workerPc[r] = "release" /\ workerPc'[r] = "done" /\ UNCHANGED <<netVars, dbVars>>
    BY <1>2, <1>14 DEF Release, Goto, TypeOK
  <2>2. SeatOf(r) = "dropped" /\ SeatOf(r)' = "dropped"
    BY <2>1 DEF SeatOf, Working
  <2>3. Still(r)
    BY <2>1, <2>2, StillBars
  <2> QED
    BY <1>1, <2>1, <2>3, AllStill
<1> QED
  BY <1>7, <1>8, <1>9, <1>10, <1>11, <1>12, <1>13, <1>14 DEF Worker

------------------------------------------------------------------------------
\* The other steps.

\* A free slot accepts the request, a saturated pool turns it away.
LEMMA ReaderMapped ==
    ASSUME IInv, IInv', [Next]_vars, NEW c \in Conn, Acquire(c) \/ AcquireTimesOut(c)
    PROVE  Promise!Next
<1>1. PICK r \in Request : /\ r = current[c] /\ workerPc[r] = "none" /\ r \notin turnedAway
                           /\ answer[r] = "none"
  BY DEF IInv, TypeOK, QueuedOnce, Deciding, Acquire, AcquireTimesOut
<1>2. UNCHANGED <<netVars, answer, dbVars>>
  BY DEF Acquire, AcquireTimesOut, workerVars
<1>3. \A q \in Request \ {r} : Still(q)
  <2> SUFFICES ASSUME NEW q \in Request \ {r} PROVE Still(q)
    OBVIOUS
  <2>1. SeatOf(q)' = SeatOf(q)
    BY <1>1 DEF SeatOf, Acquire, AcquireTimesOut, Goto, workerVars, IInv, TypeOK
  <2> QED
    BY <1>2, <2>1, StillBars DEF netVars
<1>4. SeatBar[r] = "idle" /\ VerdictBar[r] = "none"
  <2>1. Silent(r)
    BY <1>1, AnsweredEnds DEF Silent
  <2>2. SeatOf(r) = "idle"
    BY <1>1 DEF SeatOf, Working
  <2> QED
    BY <2>1, <2>2, BarsShown DEF Shown
<1>5. CASE Acquire(c)
  <2>1. workerPc'[r] = "check" /\ answer'[r] = "none"
    BY <1>1, <1>2, <1>5 DEF Acquire, Goto, IInv, TypeOK
  <2>2. SeatBar'[r] = "busy" /\ VerdictBar'[r] = "none"
    BY <2>1, BusyBarsNext DEF Working
  <2>3. Promise!Accept(r)
    BY <1>2, <1>3, <1>4, <2>2, OneMoves DEF Promise!Accept, Promise!Sit, dbVars
  <2> QED
    BY <2>3 DEF Promise!Next
<1>6. CASE AcquireTimesOut(c)
  <2>1. Silent(r)'
    <3>1. Silent(r)
      BY <1>1, AnsweredEnds DEF Silent
    <3> QED
      BY <1>2, <3>1, AnswersSame DEF Silent, netVars
  <2>2. SeatOf(r)' = "dropped"
    BY <1>1, <1>6 DEF SeatOf, AcquireTimesOut, Working, workerVars
  <2>3. SeatBar'[r] = "dropped" /\ VerdictBar'[r] = "none"
    BY <2>1, <2>2, BarsShownNext DEF Shown
  <2>4. Promise!TurnAway(r)
    BY <1>2, <1>3, <1>4, <2>3, OneMoves DEF Promise!TurnAway, Promise!Sit, dbVars
  <2> QED
    BY <2>4 DEF Promise!Next
<1> QED
  BY <1>5, <1>6

\* A lost connection loses the answers on it that nobody has read.
LEMMA PeerMapped ==
    ASSUME IInv, IInv', [Next]_vars, NEW c \in Conn, PeerGone(c)
    PROVE  Promise!Next
<1>1. PICK R \in SUBSET Request :
          \A r \in Request : r \in R <=> Silent(r)' /\ ~Silent(r)
  <2>1. {r \in Request : Silent(r)' /\ ~Silent(r)} \in SUBSET Request
    OBVIOUS
  <2> QED
    BY <2>1
<1>2. UNCHANGED <<workerPc, turnedAway, answer, dbVars>>
  BY DEF PeerGone, workerVars, readerVars
<1>3. Shown /\ Shown'
  BY BarsShown, BarsShownNext
<1>4. ASSUME NEW r \in R
      PROVE  SeatBar[r] = "replied" /\ SeatBar'[r] = "dropped" /\ VerdictBar'[r] = "none"
  <2>1. SeatBar[r] = "replied" /\ workerPc[r] \in {"release", "done"}
    BY <1>1, <1>3, <1>4 DEF Shown, Silent
  <2>2. SeatOf(r)' = "dropped"
    BY <1>2, <2>1 DEF SeatOf, Working
  <2> QED
    BY <1>1, <1>3, <1>4, <2>1, <2>2 DEF Shown
<1>5. ASSUME NEW r \in Request \ R PROVE Still(r)
  <2>1. SeatOf(r)' = SeatOf(r) /\ answer'[r] = answer[r]
    BY <1>2 DEF SeatOf
  <2>2. CASE Silent(r)
    <3>1. ASSUME NEW v, HasAnswer(r, v)' PROVE FALSE
      <4>1. ~Write(r)
        BY <1>2 DEF Write, Goto, IInv, TypeOK
      <4> QED
        BY <2>2, <3>1, <4>1, AnswersAdded DEF Silent
    <3>2. Silent(r)'
      BY <3>1 DEF Silent
    <3> QED
      BY <1>3, <2>1, <2>2, <3>2 DEF Shown, Still
  <2>3. CASE ~Silent(r)
    <3>1. PICK v : HasAnswer(r, v)'
      BY <1>1, <1>5, <2>3 DEF Silent
    <3>2. HasAnswer(r, v)
      <4>1. ~Write(r)
        BY <1>2 DEF Write, Goto, IInv, TypeOK
      <4> QED
        BY <3>1, <4>1, AnswersAdded
    <3> QED
      BY <1>3, <3>1, <3>2 DEF Shown, Still
  <2> QED
    BY <2>2, <2>3
<1>6. /\ SeatBar' = [r \in Request |-> IF r \in R THEN "dropped" ELSE SeatBar[r]]
      /\ VerdictBar' = [r \in Request |-> IF r \in R THEN "none" ELSE VerdictBar[r]]
  BY <1>4, <1>5, BarsAreFunctionsNext DEF Still
<1>7. Promise!LoseReplies(R)
  BY <1>2, <1>4, <1>6 DEF Promise!LoseReplies, Promise!LoseFrom, Promise!Forget, dbVars
<1> QED
  BY <1>7 DEF Promise!Next

\* Initially every request is idle.
LEMMA PromiseInit == Init => Promise!Init
<1> SUFFICES ASSUME Init PROVE Promise!Init
  OBVIOUS
<1>1. IInv
  BY InvInit
<1>2. ASSUME NEW r \in Request PROVE SeatBar[r] = "idle" /\ VerdictBar[r] = "none"
  <2>1. workerPc[r] = "none" /\ r \notin turnedAway
    BY DEF Init
  <2>2. Silent(r) /\ SeatOf(r) = "idle"
    BY <1>1, <2>1, AnsweredEnds DEF Silent, SeatOf, Working
  <2> QED
    BY <1>1, <2>2, BarsShown DEF Shown
<1>3. SeatBar = [r \in Request |-> "idle"] /\ VerdictBar = [r \in Request |-> "none"]
  BY <1>2, BarsAreFunctions
<1> QED
  BY <1>3 DEF Init, Promise!Init

LEMMA StepsMapped ==
    IInv /\ IInv' /\ [Next]_vars => [Promise!Next]_<<SeatBar, stmt, VerdictBar, broken>>
<1> SUFFICES ASSUME IInv, IInv', [Next]_vars
             PROVE  Promise!Next \/ UNCHANGED <<SeatBar, stmt, VerdictBar, broken>>
  OBVIOUS
<1> DEFINE Mapped == Promise!Next \/ UNCHANGED <<SeatBar, stmt, VerdictBar, broken>>
<1>1. ASSUME UNCHANGED <<workerPc, turnedAway, answer, peer>>
      PROVE  SeatBar' = SeatBar /\ VerdictBar' = VerdictBar
  <2>1. \A q \in Request : SeatOf(q)' = SeatOf(q)
    BY <1>1 DEF SeatOf
  <2> QED
    BY <1>1, <2>1, StillBars, AllStill
<1> USE DEF netVars, readerVars, workerVars, dbVars
<1>2. ASSUME NEW r \in Request, NEW c \in Conn, SendFrame(r, c) PROVE Mapped
  BY <1>1, <1>2 DEF SendFrame
<1>3. ASSUME NEW c \in Conn, AcquirerReads(c) PROVE Mapped
  BY <1>1, <1>3 DEF AcquirerReads
<1>4. ASSUME NEW c \in Conn, PeerGone(c) PROVE Mapped
  BY <1>4, PeerMapped
<1>5. ASSUME NEW c \in Conn, Reader(c) PROVE Mapped
  <2>1. CASE ReadFrame(c) \/ ReadFails(c) \/ Close(c)
    BY <1>1, <2>1 DEF ReadFrame, ReadFails, Close
  <2>2. CASE Acquire(c) \/ AcquireTimesOut(c)
    BY <2>2, ReaderMapped
  <2> QED
    BY <1>5, <2>1, <2>2 DEF Reader
<1>6. ASSUME NEW r \in Request, Worker(r) PROVE Mapped
  BY <1>6, WorkerMapped
<1>7. ASSUME NEW r \in Request, Execute(r) PROVE Mapped
  <2>1. SeatBar' = SeatBar /\ VerdictBar' = VerdictBar
    BY <1>1, <1>7 DEF Execute
  <2>2. Promise!Settle(r)
    BY <1>7, <2>1 DEF Execute, Promise!Settle
  <2> QED
    BY <2>2 DEF Promise!Next
<1>8. ASSUME NEW r \in Request, DeadlinePasses(r) PROVE Mapped
  BY <1>1, <1>8 DEF DeadlinePasses
<1>9. CASE UNCHANGED vars
  BY <1>1, <1>9 DEF vars
<1> QED
  BY <1>2, <1>3, <1>4, <1>5, <1>6, <1>7, <1>8, <1>9 DEF Next

\* Connections, slots, contexts, deadlines and mutexes change nothing of what
\* the issuer promises of a request: it is debited at most once, and answered
\* with what was decided, which is true of the money.
THEOREM IssuerImplementsAuthorizer == Spec => ImplementsAuthorizer
<1>1. IInv /\ IInv' /\ [Next]_vars => [Promise!Next]_<<SeatBar, stmt, VerdictBar, broken>>
  BY StepsMapped
<1> QED
  BY <1>1, PromiseInit, IssuerInvariant, PTL
  DEF Spec, ImplementsAuthorizer, Promise!Spec, Promise!vars

==============================================================================
