------------------------------ MODULE AuditTrail ------------------------------
(***************************************************************************)
(* The asynchronous audit log, the same on both sides: a handler offers    *)
(* one record to a buffered channel before it answers                      *)
(* (internal/acquirer/http.go, asyncLogAcquirerTx; internal/issuer/        *)
(* service.go, HandleHex), and a few workers insert what they receive.     *)
(* The channel lives in memory: a crash loses it.                          *)
(***************************************************************************)
EXTENDS Naturals, Sequences, FiniteSets

CONSTANTS
    Record,    \* one per transaction, offered once
    Worker,    \* the three goroutines of auditWorker
    NoRecord,  \* a worker waits for the channel
    Capacity,  \* capacity of auditCh, 1000 in the code
    Failures,  \* whether inserts may fail
    MaxCrash   \* bound: crashes in a behaviour

ASSUME AuditAssumption ==
    /\ IsFiniteSet(Record) /\ NoRecord \notin Record
    /\ Capacity \in Nat \ {0} /\ Failures \in BOOLEAN /\ MaxCrash \in Nat

VARIABLES
    pc,       \* where the handler of each transaction is
    auditCh,  \* s.auditCh
    holding,  \* the record each worker inserts
    rows,     \* how often each record is in the table
    lost,     \* records an insert failed for or a crash took, kept for the properties
    crashes   \* how often the process was killed

vars == <<pc, auditCh, holding, rows, lost, crashes>>

Init ==
    /\ pc = [r \in Record |-> "handling"]
    /\ auditCh = <<>>
    /\ holding = [w \in Worker |-> NoRecord]
    /\ rows = [r \in Record |-> 0]
    /\ lost = {}
    /\ crashes = 0

Queued == {auditCh[k] : k \in 1 .. Len(auditCh)}
Held   == {holding[w] : w \in Worker}

Store(r) == rows' = [rows EXCEPT ![r] = @ + 1]

------------------------------------------------------------------------------
\* Faults that a change to the code could introduce; each breaks a property
\* below.  None is part of Next.

\* A plain send, which waits while the channel is full.
BlockingOffer(r) ==
    /\ pc[r] = "handling" /\ Len(auditCh) < Capacity
    /\ auditCh' = Append(auditCh, r)
    /\ pc' = [pc EXCEPT ![r] = "logged"]
    /\ UNCHANGED <<holding, rows, lost, crashes>>

\* The insert runs under the context of the request, over once it is answered.
CancelledInsert(w) ==
    /\ holding[w] # NoRecord
    /\ IF pc[holding[w]] = "answered" THEN UNCHANGED rows ELSE Store(holding[w])
    /\ holding' = [holding EXCEPT ![w] = NoRecord]
    /\ UNCHANGED <<pc, auditCh, lost, crashes>>

\* A worker looks at the head of the channel without taking it out.
PeekingReceive(w) ==
    /\ holding[w] = NoRecord /\ auditCh # <<>>
    /\ holding' = [holding EXCEPT ![w] = Head(auditCh)]
    /\ UNCHANGED <<pc, auditCh, rows, lost, crashes>>

------------------------------------------------------------------------------
\* The non-blocking send: a full channel drops the record.
Offer(r) ==
    /\ pc[r] = "handling"
    /\ auditCh' = IF Len(auditCh) < Capacity THEN Append(auditCh, r) ELSE auditCh
    /\ pc' = [pc EXCEPT ![r] = "logged"]
    /\ UNCHANGED <<holding, rows, lost, crashes>>

\* The answer goes out after the offer, never before.
Respond(r) ==
    /\ pc[r] = "logged"
    /\ pc' = [pc EXCEPT ![r] = "answered"]
    /\ UNCHANGED <<auditCh, holding, rows, lost, crashes>>

Receive(w) ==
    /\ holding[w] = NoRecord /\ auditCh # <<>>
    /\ holding' = [holding EXCEPT ![w] = Head(auditCh)]
    /\ auditCh' = Tail(auditCh)
    /\ UNCHANGED <<pc, rows, lost, crashes>>

Insert(w) ==
    /\ holding[w] # NoRecord
    /\ Store(holding[w])
    /\ holding' = [holding EXCEPT ![w] = NoRecord]
    /\ UNCHANGED <<pc, auditCh, lost, crashes>>

\* The error is discarded; the row may be there all the same.
InsertFails(w) ==
    /\ Failures /\ holding[w] # NoRecord
    /\ Store(holding[w]) \/ UNCHANGED rows
    /\ lost' = lost \cup {holding[w]}
    /\ holding' = [holding EXCEPT ![w] = NoRecord]
    /\ UNCHANGED <<pc, auditCh, crashes>>

\* The process dies, with the handlers at work, the channel and the workers,
\* and starts again.  A transaction in S had reached its handler; the database
\* finishes the inserts of T.
Crash ==
    /\ crashes < MaxCrash
    /\ crashes' = crashes + 1
    /\ \E S \in SUBSET {r \in Record : pc[r] = "handling"} :
          pc' = [r \in Record |-> IF r \in S \/ pc[r] = "logged" THEN "lost" ELSE pc[r]]
    /\ auditCh' = <<>>
    /\ holding' = [w \in Worker |-> NoRecord]
    /\ lost' = lost \cup Queued \cup (Held \ {NoRecord})
    /\ \E T \in SUBSET (Held \ {NoRecord}) :
          rows' = [r \in Record |-> IF r \in T THEN rows[r] + 1 ELSE rows[r]]

Handle(r) == Offer(r) \/ Respond(r)
Work(w)   == Receive(w) \/ Insert(w) \/ InsertFails(w)

Next ==
    \/ \E r \in Record : Handle(r)
    \/ \E w \in Worker : Work(w)
    \/ Crash

Spec == Init /\ [][Next]_vars

------------------------------------------------------------------------------
TypeOK ==
    /\ pc \in [Record -> {"handling", "logged", "answered", "lost"}]
    /\ auditCh \in Seq(Record) /\ Len(auditCh) <= Capacity
    /\ holding \in [Worker -> Record \cup {NoRecord}]
    /\ rows \in [Record -> Nat]
    /\ lost \subseteq Record
    /\ crashes \in 0 .. MaxCrash

\* The trail never tells of a transaction twice, nor of one that was not
\* handled, whatever inserts fail and wherever the process is killed: a record
\* is in one place, the channel, one worker or the table.
OnePlace ==
    /\ \A k, m \in 1 .. Len(auditCh) : auditCh[k] = auditCh[m] => k = m
    /\ \A w, v \in Worker : holding[w] = holding[v] /\ w # v => holding[w] = NoRecord
    /\ Queued \cap Held = {}
    /\ \A r \in Queued \cup (Held \ {NoRecord}) : rows[r] = 0
    /\ \A r \in Record : rows[r] <= 1 /\ (rows[r] = 1 => pc[r] # "handling")

==============================================================================
