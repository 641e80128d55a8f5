--------------------------- MODULE ServiceLifeProofs ---------------------------
(***************************************************************************)
(* For any number of transactions, audit workers and crashes and any        *)
(* capacity of the channel: a program that serves has its schema, no start   *)
(* costs a record, and the audit trail never tells of a transaction twice.   *)
(***************************************************************************)
EXTENDS ServiceLife, SequenceTheorems, TLAPS

------------------------------------------------------------------------------
\* The files.

AllTables == {"cards", "acquirer_transactions", "issuer_transactions"}
Redundant == {"idx_cards_pan", "idx_acq_txn_stan", "idx_iss_txn_stan"}
Kept      == {"idx_cards_status", "idx_acq_txn_created_at", "idx_iss_txn_created_at"}

\* What a program needs while it serves.
Needs(p) == Tables(p) \cup On(KeptIndex, Tables(p))

LEMMA Names ==
    ASSUME NEW p \in Program
    PROVE  /\ Tables(p) \subseteq AllTables
           /\ On(RedundantIndex, Tables(p)) \subseteq Redundant
           /\ On(KeptIndex, Tables(p)) \subseteq Kept
<1>1. Tables(p) \subseteq AllTables
  BY DEF Tables, AuditTable, AllTables, Program
<1>2. \A t \in AllTables : RedundantIndex[t] \in Redundant /\ KeptIndex[t] \in Kept
  BY DEF AllTables, RedundantIndex, KeptIndex, Redundant, Kept
<1> QED
  BY <1>1, <1>2 DEF On

LEMMA AllRedundant == On(RedundantIndex, DOMAIN RedundantIndex) = Redundant
<1>1. DOMAIN RedundantIndex = AllTables
  BY DEF RedundantIndex, AllTables
<1>2. /\ RedundantIndex["cards"] = "idx_cards_pan"
      /\ RedundantIndex["acquirer_transactions"] = "idx_acq_txn_stan"
      /\ RedundantIndex["issuer_transactions"] = "idx_iss_txn_stan"
  BY DEF RedundantIndex
<1> QED
  BY <1>1, <1>2 DEF On, AllTables, Redundant

\* The first file makes the tables and the redundant indexes, the second the
\* indexes that stay, the third drops the redundant ones.
LEMMA ThreeFiles ==
    ASSUME NEW p \in Program
    PROVE  /\ Len(Files(p)) = 3
           /\ \A k \in 1 .. 3 :
                 LET f == Files(p)[k] IN
                 /\ f.drops = IF k = 3 THEN On(RedundantIndex, Tables(p)) ELSE {}
                 /\ f.creates = IF k = 1 THEN Tables(p) \cup On(RedundantIndex, Tables(p))
                                ELSE IF k = 2 THEN On(KeptIndex, Tables(p)) ELSE {}
<1>1. Files(p) = <<InitialSchema(p), Indexes(p), DropRedundant(p)>>
  BY DEF Files
<1>2. /\ InitialSchema(p).drops = {} /\ Indexes(p).drops = {}
      /\ DropRedundant(p).drops = On(RedundantIndex, Tables(p)) /\ DropRedundant(p).creates = {}
      /\ InitialSchema(p).creates = Tables(p) \cup On(RedundantIndex, Tables(p))
      /\ Indexes(p).creates = On(KeptIndex, Tables(p))
  BY DEF InitialSchema, Indexes, DropRedundant, File
<1>3. \A k \in 1 .. 3 : k = 1 \/ k = 2 \/ k = 3
  OBVIOUS
<1> QED
  BY <1>1, <1>2, <1>3

\* No file of a program drops what one of them needs.
LEMMA NeedsKept ==
    ASSUME NEW p \in Program, NEW q \in Program, NEW k \in 1 .. 3
    PROVE  Files(p)[k].drops \cap Needs(q) = {} /\ AuditTable["issuer"] \notin Files(p)[k].drops
<1>1. Files(p)[k].drops \subseteq Redundant
  BY Names, ThreeFiles
<1>2. Needs(q) \subseteq AllTables \cup Kept
  BY Names DEF Needs
<1>3. Redundant \cap (AllTables \cup Kept) = {} /\ AuditTable["issuer"] \in AllTables
  BY DEF Redundant, AllTables, Kept, AuditTable
<1> QED
  BY <1>1, <1>2, <1>3

------------------------------------------------------------------------------
\* The channel.

Elements(s) == {s[k] : k \in 1 .. Len(s)}
Distinct(s) == \A k, m \in 1 .. Len(s) : s[k] = s[m] => k = m

LEMMA AppendElements ==
    ASSUME NEW S, NEW s \in Seq(S), NEW e \in S, e \notin Elements(s), Distinct(s)
    PROVE  /\ Append(s, e) \in Seq(S) /\ Len(Append(s, e)) = Len(s) + 1
           /\ Elements(Append(s, e)) = Elements(s) \cup {e} /\ Distinct(Append(s, e))
<1> DEFINE a == Append(s, e)
<1>1. /\ a \in Seq(S) /\ Len(a) = Len(s) + 1 /\ a[Len(s) + 1] = e /\ Len(s) \in Nat
      /\ \A k \in 1 .. Len(s) : a[k] = s[k]
  BY AppendProperties, LenProperties
<1> HIDE DEF a
<1>2. \A k \in 1 .. Len(a) : k \in 1 .. Len(s) \/ k = Len(s) + 1
  BY <1>1
<1>3. \A k \in 1 .. Len(s) : k \in 1 .. Len(a) /\ s[k] # e
  BY <1>1 DEF Elements
<1>4. Len(s) + 1 \in 1 .. Len(a)
  BY <1>1
<1>5. Elements(a) = Elements(s) \cup {e}
  BY <1>1, <1>2, <1>3, <1>4 DEF Elements
<1>6. Distinct(a)
  BY <1>1, <1>2, <1>3 DEF Distinct
<1> QED
  BY <1>1, <1>5, <1>6 DEF a

LEMMA TailElements ==
    ASSUME NEW S, NEW s \in Seq(S), s # <<>>, Distinct(s)
    PROVE  /\ Tail(s) \in Seq(S) /\ Len(Tail(s)) = Len(s) - 1 /\ Len(s) \in Nat /\ Head(s) \in S
           /\ Head(s) \in Elements(s)
           /\ Elements(Tail(s)) = Elements(s) \ {Head(s)} /\ Distinct(Tail(s))
<1> DEFINE t == Tail(s)
           h == Head(s)
<1>1. /\ t \in Seq(S) /\ Len(t) = Len(s) - 1 /\ h \in S /\ h = s[1] /\ Len(s) \in Nat \ {0}
      /\ \A k \in 1 .. Len(t) : t[k] = s[k + 1]
  BY HeadTailProperties, EmptySeq, LenProperties
<1> HIDE DEF t, h
<1>2. \A k \in 1 .. Len(t) : k + 1 \in 1 .. Len(s) /\ k + 1 # 1
  BY <1>1
<1>3. \A m \in 1 .. Len(s) : m = 1 \/ (m - 1 \in 1 .. Len(t) /\ t[m - 1] = s[m])
  BY <1>1
<1>4. 1 \in 1 .. Len(s)
  BY <1>1
<1>5. Elements(t) \subseteq Elements(s) \ {h}
  BY <1>1, <1>2, <1>4 DEF Elements, Distinct
<1>6. Elements(s) \ {h} \subseteq Elements(t)
  BY <1>1, <1>3 DEF Elements
<1>7. Distinct(t)
  <2> SUFFICES ASSUME NEW k \in 1 .. Len(t), NEW m \in 1 .. Len(t), t[k] = t[m] PROVE k = m
    BY DEF Distinct
  <2>1. s[k + 1] = s[m + 1]
    BY <1>1
  <2>2. k + 1 = m + 1
    BY <1>2, <2>1 DEF Distinct
  <2> QED
    BY <1>1, <2>2
<1>8. h \in Elements(s)
  BY <1>1, <1>4 DEF Elements
<1> QED
  BY <1>1, <1>5, <1>6, <1>7, <1>8 DEF t, h

------------------------------------------------------------------------------
\* The trail.

\* Where a record is: the channel, a worker, or the table.
Placed ==
    /\ Distinct(auditCh)
    /\ \A w, v \in Worker : holding[w] = holding[v] /\ w # v => holding[w] = NoRecord
    /\ Queued \cap Held = {}
    /\ \A r \in Queued \cup (Held \ {NoRecord}) : rows[r] = 0 /\ pc[r] # "handling"
    /\ \A r \in Record : rows[r] <= 1 /\ (rows[r] = 1 => pc[r] # "handling")

LEMMA PlacedOnce == Placed => OnePlace
  BY DEF Placed, OnePlace, Distinct

LEMMA QueueElements == Queued = Elements(auditCh) /\ Queued' = Elements(auditCh')
  BY DEF Queued, Elements

AuditInv == TypeOK /\ Placed

\* Rows only grow.
Growing == \A r \in Record : rows'[r] >= rows[r]

LEMMA HandleStep ==
    ASSUME AuditInv, NEW r \in Record, Handle(r)
    PROVE  AuditInv' /\ Growing
<1>0. TypeOK /\ Placed
  BY DEF AuditInv
<1>1. CASE Respond(r)
  <2>1. Queued' = Queued /\ Held' = Held
    BY <1>1 DEF Respond, Queued, Held
  <2> QED
    BY <1>0, <1>1, <2>1 DEF Respond, AuditInv, TypeOK, Placed, Growing
<1>2. CASE Offer(r)
  <2>1. /\ pc[r] = "handling" /\ pc' = [pc EXCEPT ![r] = "logged"]
        /\ UNCHANGED <<holding, rows, lost, crashes>> /\ Held' = Held
    BY <1>2 DEF Offer, Held
  <2>2. r \notin Elements(auditCh) /\ r \notin Held /\ Queued = Elements(auditCh)
    BY <1>0, <2>1, QueueElements, AuditAssumption DEF Placed, AuditAssumption
  <2>3. CASE auditCh' = auditCh
    <3>1. Queued' = Queued
      BY <2>3 DEF Queued
    <3> QED
      BY <1>0, <2>1, <2>3, <3>1 DEF AuditInv, TypeOK, Placed, Growing
  <2>4. CASE Len(auditCh) < Capacity /\ auditCh' = Append(auditCh, r)
    <3>1. /\ auditCh' \in Seq(Record) /\ Len(auditCh') = Len(auditCh) + 1 /\ Distinct(auditCh')
          /\ Queued' = Queued \cup {r}
      BY <1>0, <2>2, <2>4, AppendElements, QueueElements DEF TypeOK, Placed
    <3>2. Len(auditCh') <= Capacity
      BY <1>0, <2>4, <3>1, LenProperties, AuditAssumption DEF TypeOK, AuditAssumption
    <3>3. TypeOK'
      BY <1>0, <2>1, <3>1, <3>2 DEF TypeOK
    <3>4. rows[r] = 0
      BY <1>0, <2>1 DEF TypeOK, Placed
    <3>5. Placed'
      BY <1>0, <2>1, <2>2, <3>1, <3>4 DEF TypeOK, Placed
    <3> QED
      BY <1>0, <2>1, <3>3, <3>5 DEF AuditInv, TypeOK, Growing
  <2> QED
    BY <1>2, <2>3, <2>4 DEF Offer
<1> QED
  BY <1>1, <1>2 DEF Handle

LEMMA WorkStep ==
    ASSUME AuditInv, NEW w \in Worker, Work(w)
    PROVE  AuditInv' /\ Growing
<1>0. TypeOK /\ Placed /\ NoRecord \notin Record
  BY AuditAssumption DEF AuditInv, AuditAssumption
<1>1. CASE Receive(w)
  <2> DEFINE h == Head(auditCh)
  <2>1. /\ auditCh' \in Seq(Record) /\ Len(auditCh') = Len(auditCh) - 1 /\ Len(auditCh) \in Nat
        /\ h \in Record /\ h \in Queued /\ Queued' = Queued \ {h} /\ Distinct(auditCh')
    BY <1>0, <1>1, TailElements, QueueElements DEF Receive, TypeOK, Placed
  <2>2. PICK r \in Record : r = h
    BY <2>1
  <2>3. /\ holding[w] = NoRecord /\ holding' = [holding EXCEPT ![w] = r]
        /\ UNCHANGED <<pc, rows, lost, crashes>>
    BY <1>1, <2>2 DEF Receive
  <2> HIDE DEF h
  <2>4. Held' \subseteq Held \cup {r} /\ r \notin Held
    <3>1. \A x \in Worker : holding'[x] = holding[x] \/ holding'[x] = r
      BY <1>0, <2>3 DEF TypeOK
    <3>2. r \in Queued
      BY <2>1, <2>2
    <3> QED
      BY <1>0, <3>1, <3>2 DEF Held, Placed
  <2>5. TypeOK'
    <3>1. Len(auditCh') <= Capacity
      BY <1>0, <2>1, AuditAssumption DEF TypeOK, AuditAssumption
    <3> QED
      BY <1>0, <2>1, <2>3, <3>1 DEF TypeOK
  <2>6. Placed'
    <3>1. \A x, v \in Worker : holding'[x] = holding'[v] /\ x # v => holding'[x] = NoRecord
      BY <1>0, <2>3, <2>4 DEF Placed, TypeOK, Held
    <3>2. Queued' \cap Held' = {}
      BY <1>0, <2>1, <2>2, <2>4 DEF Placed
    <3>3. \A q \in Queued' \cup (Held' \ {NoRecord}) : q \in Queued \cup (Held \ {NoRecord})
      BY <2>1, <2>2, <2>4
    <3> QED
      BY <1>0, <2>1, <2>3, <3>1, <3>2, <3>3 DEF Placed
  <2> QED
    BY <1>0, <2>3, <2>5, <2>6 DEF AuditInv, TypeOK, Growing
<1>2. CASE Insert(w) \/ InsertFails(w)
  <2>1. PICK r \in Record : r = holding[w]
    BY <1>0, <1>2 DEF Insert, InsertFails, TypeOK
  <2>2. /\ holding' = [holding EXCEPT ![w] = NoRecord] /\ UNCHANGED <<pc, auditCh, crashes>>
        /\ lost' \in SUBSET Record
        /\ rows' = [rows EXCEPT ![r] = @ + 1] \/ rows' = rows
    BY <1>0, <1>2, <2>1 DEF Insert, InsertFails, Store, TypeOK
  <2>3. /\ r \in Held /\ r # NoRecord /\ rows[r] = 0 /\ pc[r] # "handling" /\ r \notin Queued
        /\ Queued' = Queued
    BY <1>0, <2>1, <2>2 DEF Held, Placed, Queued
  <2>4. Held' \subseteq (Held \ {r}) \cup {NoRecord}
    <3>1. \A x \in Worker \ {w} : holding'[x] = holding[x] /\ holding[x] # r
      BY <1>0, <2>1, <2>2, <2>3 DEF Placed, TypeOK
    <3>2. holding'[w] = NoRecord
      BY <1>0, <2>2 DEF TypeOK
    <3>3. \A x \in Worker : holding[x] \in Held
      BY DEF Held
    <3>4. \A x \in Worker : holding'[x] \in (Held \ {r}) \cup {NoRecord}
      BY <3>1, <3>2, <3>3
    <3>5. Held' = {holding'[x] : x \in Worker}
      BY DEF Held
    <3> QED
      BY <3>4, <3>5
  <2>5. /\ rows' \in [Record -> Nat] /\ Growing /\ \A q \in Record \ {r} : rows'[q] = rows[q]
        /\ rows'[r] <= 1
    <3>1. rows \in [Record -> Nat]
      BY <1>0 DEF TypeOK
    <3>2. CASE rows' = rows
      BY <2>3, <3>1, <3>2 DEF Growing
    <3>3. CASE rows' = [rows EXCEPT ![r] = @ + 1]
      BY <2>3, <3>1, <3>3 DEF Growing
    <3> QED
      BY <2>2, <3>2, <3>3
  <2>6. Placed'
    <3>1. \A x, v \in Worker : holding'[x] = holding'[v] /\ x # v => holding'[x] = NoRecord
      BY <1>0, <2>2 DEF Placed, TypeOK
    <3>2. NoRecord \notin Queued
      BY <1>0 DEF TypeOK, Queued
    <3>3. Queued' \cap Held' = {}
      BY <1>0, <2>3, <2>4, <3>2 DEF Placed
    <3>4. \A q \in Queued' \cup (Held' \ {NoRecord}) :
              q \in Queued \cup (Held \ {NoRecord}) /\ q \in Record \ {r}
      <4>1. Queued \subseteq Record
        BY <1>0 DEF TypeOK, Queued
      <4>2. Held \subseteq Record \cup {NoRecord}
        BY <1>0 DEF TypeOK, Held
      <4> QED
        BY <2>3, <2>4, <4>1, <4>2
    <3>5. \A q \in Queued' \cup (Held' \ {NoRecord}) : rows'[q] = 0 /\ pc'[q] # "handling"
      BY <1>0, <2>2, <2>5, <3>4 DEF Placed
    <3>6. \A q \in Record : rows'[q] <= 1 /\ (rows'[q] = 1 => pc'[q] # "handling")
      BY <1>0, <2>2, <2>3, <2>5 DEF Placed
    <3> QED
      BY <1>0, <2>2, <3>1, <3>3, <3>5, <3>6 DEF Placed
  <2> QED
    BY <1>0, <2>2, <2>5, <2>6 DEF AuditInv, TypeOK
<1> QED
  BY <1>1, <1>2 DEF Work

\* A crash empties the channel and the workers; an insert that the database
\* finishes is that of a record held by one worker and in the table not yet.
LEMMA CrashStep ==
    ASSUME AuditInv, Crash
    PROVE  AuditInv' /\ Growing
<1>0. TypeOK /\ Placed /\ NoRecord \notin Record
  BY AuditAssumption DEF AuditInv, AuditAssumption
<1>1. PICK T \in SUBSET (Held \ {NoRecord}) :
          rows' = [r \in Record |-> IF r \in T THEN rows[r] + 1 ELSE rows[r]]
  BY DEF Crash
<1>2. PICK S \in SUBSET {r \in Record : pc[r] = "handling"} :
          pc' = [r \in Record |-> IF r \in S \/ pc[r] = "logged" THEN "lost" ELSE pc[r]]
  BY DEF Crash
<1>3. /\ crashes < MaxCrash /\ crashes' = crashes + 1 /\ auditCh' = <<>>
      /\ holding' = [w \in Worker |-> NoRecord] /\ lost' = lost \cup Queued \cup (Held \ {NoRecord})
  BY DEF Crash
<1>4. \A r \in T : r \in Record /\ rows[r] = 0 /\ pc[r] # "handling"
  BY <1>0, <1>1 DEF Placed, Held, TypeOK
<1>5. Queued' = {} /\ Held' \subseteq {NoRecord} /\ Distinct(auditCh')
  <2>1. Len(auditCh') = 0 /\ 1 .. Len(auditCh') = {}
    BY <1>3, EmptySeq
  <2> QED
    BY <1>3, <2>1 DEF Queued, Held, Distinct
<1>6. TypeOK'
  <2>1. Queued \subseteq Record /\ Held \ {NoRecord} \subseteq Record
    BY <1>0 DEF Queued, Held, TypeOK
  <2>2. auditCh' \in Seq(Record) /\ Len(auditCh') <= Capacity
    BY <1>3, EmptySeq, AuditAssumption DEF AuditAssumption
  <2>3. crashes' \in 0 .. MaxCrash
    BY <1>0, <1>3, AuditAssumption DEF TypeOK, AuditAssumption
  <2>4. pc' \in [Record -> {"handling", "logged", "answered", "lost"}] /\ rows' \in [Record -> Nat]
    BY <1>0, <1>1, <1>2 DEF TypeOK
  <2> QED
    BY <1>0, <1>3, <2>1, <2>2, <2>3, <2>4 DEF TypeOK
<1>7. Growing
  BY <1>0, <1>1 DEF TypeOK, Growing
<1>8. \A r \in Record : rows'[r] <= 1 /\ (rows'[r] = 1 => pc'[r] # "handling")
  BY <1>0, <1>1, <1>2, <1>4 DEF TypeOK, Placed
<1> QED
  BY <1>3, <1>5, <1>6, <1>7, <1>8 DEF AuditInv, Placed

\* A start leaves the channel, the workers and the rows alone.
LEMMA StartStep ==
    ASSUME AuditInv, UNCHANGED <<pc, auditCh, holding, rows, lost>>, crashes' \in 0 .. MaxCrash
    PROVE  AuditInv' /\ Growing
<1>1. Queued' = Queued /\ Held' = Held
  BY DEF Queued, Held
<1> QED
  BY <1>1 DEF AuditInv, TypeOK, Placed, Growing

------------------------------------------------------------------------------
\* The schema.

LifeTypeOK ==
    /\ mode \in Mode /\ stage \in [Program -> Stage] /\ step \in [Program -> Nat]
    /\ db \in [Database -> SUBSET (AllTables \cup Redundant \cup Kept)]
    /\ \A p \in Program : stage[p] = "migrate" => step[p] \in 1 .. 4

\* A program that has come so far has run the files before.
Through(p, k) == stage[p] \in {"switch", "serving"} \/ (stage[p] = "migrate" /\ step[p] > k)

\* Whoever made a redundant index will drop it before it serves.
Owes(p, d, i) == Home(p) = d /\ i \in On(RedundantIndex, Tables(p)) /\ ~Through(p, 3)

SchemaInv ==
    /\ \A p \in Program : Through(p, 1) => Tables(p) \subseteq db[Home(p)]
    /\ \A p \in Program : Through(p, 2) => On(KeptIndex, Tables(p)) \subseteq db[Home(p)]
    /\ \A d \in Database : \A i \in db[d] \cap Redundant : \E p \in Program : Owes(p, d, i)

LifeInv == AuditInv /\ LifeTypeOK /\ SchemaInv

LEMMA Homes ==
    ASSUME UNCHANGED mode, NEW p \in Program
    PROVE  /\ Home(p)' = Home(p) /\ Tables(p)' = Tables(p) /\ Home(p) \in Database
           /\ On(RedundantIndex, Tables(p))' = On(RedundantIndex, Tables(p))
           /\ On(KeptIndex, Tables(p))' = On(KeptIndex, Tables(p))
  BY DEF Home, Tables, On, Database

\* The next file is applied by p, which goes on, or dies.
LEMMA ApplyStep ==
    ASSUME LifeInv, NEW p \in Program, stage[p] = "migrate", step[p] <= Len(Files(p)),
           Apply(Home(p), Files(p)[step[p]]), UNCHANGED mode,
           Goto(p, "migrate", step[p] + 1) \/ Goto(p, "down", 1)
    PROVE  LifeTypeOK' /\ SchemaInv' /\ UNCHANGED <<pc, auditCh, holding, rows, lost>>
<1>1. PICK k \in 1 .. 3 : k = step[p]
  BY ThreeFiles DEF LifeInv, LifeTypeOK
<1>2. PICK creates, drops : creates = Files(p)[k].creates /\ drops = Files(p)[k].drops
  OBVIOUS
<1>3. /\ drops = IF k = 3 THEN On(RedundantIndex, Tables(p)) ELSE {}
      /\ creates = IF k = 1 THEN Tables(p) \cup On(RedundantIndex, Tables(p))
                   ELSE IF k = 2 THEN On(KeptIndex, Tables(p)) ELSE {}
      /\ creates \subseteq AllTables \cup Redundant \cup Kept
      /\ drops \subseteq Redundant
  <2>1. /\ drops = IF k = 3 THEN On(RedundantIndex, Tables(p)) ELSE {}
        /\ creates = IF k = 1 THEN Tables(p) \cup On(RedundantIndex, Tables(p))
                     ELSE IF k = 2 THEN On(KeptIndex, Tables(p)) ELSE {}
    BY <1>2, ThreeFiles
  <2> QED
    BY <2>1, Names
<1>4. PICK d \in Database : d = Home(p)
  BY Homes DEF Home, Database
<1>5. /\ db' = [db EXCEPT ![d] = (@ \ drops) \cup creates]
      /\ UNCHANGED <<pc, auditCh, holding, lost>>
  BY <1>1, <1>2, <1>4 DEF Apply
<1>6. rows' = rows
  <2>1. AuditTable["issuer"] \notin Files(p)[k].drops
    BY NeedsKept
  <2> QED
    BY <1>1, <1>4, <2>1 DEF Apply
<1>7. /\ LifeTypeOK /\ SchemaInv
      /\ stage' \in [Program -> Stage] /\ step' \in [Program -> Nat]
      /\ \A q \in Program \ {p} : stage'[q] = stage[q] /\ step'[q] = step[q]
      /\ (stage'[p] = "migrate" /\ step'[p] = k + 1) \/ stage'[p] = "down"
  BY <1>1 DEF LifeInv, LifeTypeOK, Goto, Stage
<1>8. LifeTypeOK'
  <2>1. db' \in [Database -> SUBSET (AllTables \cup Redundant \cup Kept)]
    BY <1>3, <1>5, <1>7 DEF LifeTypeOK
  <2> QED
    BY <1>7, <2>1 DEF LifeTypeOK
<1>9. \A e \in Database : db[e] \ Redundant \subseteq db'[e]
  BY <1>3, <1>5, <1>7 DEF LifeTypeOK
<1>10. ASSUME NEW q \in Program
       PROVE  /\ Through(q, 1)' => Tables(q) \subseteq db'[Home(q)]
              /\ Through(q, 2)' => On(KeptIndex, Tables(q)) \subseteq db'[Home(q)]
  <2>1. Tables(q) \cap Redundant = {} /\ On(KeptIndex, Tables(q)) \cap Redundant = {}
    BY Names DEF AllTables, Redundant, Kept
  <2>2. Home(q) \in Database
    BY DEF Home, Database
  <2>3. /\ Through(q, 1) => Tables(q) \subseteq db'[Home(q)]
        /\ Through(q, 2) => On(KeptIndex, Tables(q)) \subseteq db'[Home(q)]
    BY <1>7, <1>9, <2>1, <2>2 DEF SchemaInv
  <2>4. CASE q # p
    BY <1>7, <2>3, <2>4 DEF Through
  <2>5. CASE q = p
    <3>1. creates \subseteq db'[d]
      BY <1>5, <1>7 DEF LifeTypeOK
    <3>2. Through(p, 1)' => Through(p, 1) \/ k = 1
      BY <1>1, <1>7 DEF Through
    <3>3. Through(p, 2)' => Through(p, 2) \/ k = 2
      BY <1>1, <1>7 DEF Through
    <3> QED
      BY <1>3, <1>4, <2>3, <2>5, <3>1, <3>2, <3>3
  <2> QED
    BY <2>4, <2>5
<1>11. ASSUME NEW e \in Database, NEW i \in db'[e] \cap Redundant
       PROVE  \E q \in Program : Owes(q, e, i)'
  <2>1. \A q \in Program : Owes(q, e, i)' <=>
            Home(q) = e /\ i \in On(RedundantIndex, Tables(q)) /\ ~Through(q, 3)'
    BY Homes DEF Owes
  <2>2. CASE i \in db[e]
    <3>1. PICK q \in Program : Owes(q, e, i)
      BY <1>7, <1>11, <2>2 DEF SchemaInv
    <3>2. CASE q # p
      BY <1>7, <2>1, <3>1, <3>2 DEF Owes, Through
    <3>3. CASE q = p /\ k # 3
      <4>1. ~Through(p, 3)'
        BY <1>7, <3>3 DEF Through
      <4> QED
        BY <2>1, <3>1, <3>3, <4>1 DEF Owes
    <3>4. CASE q = p /\ k = 3
      <4>1. e = d /\ i \in drops /\ creates = {}
        BY <1>3, <1>4, <3>1, <3>4 DEF Owes
      <4> QED
        BY <1>5, <1>7, <1>11, <4>1 DEF LifeTypeOK
    <3> QED
      BY <3>2, <3>3, <3>4
  <2>3. CASE i \notin db[e]
    <3>1. e = d /\ i \in creates
      BY <1>5, <1>7, <1>11, <2>3 DEF LifeTypeOK
    <3>2. i \notin AllTables /\ i \notin Kept
      BY <1>11 DEF AllTables, Kept, Redundant
    <3>3. k = 1 /\ i \in On(RedundantIndex, Tables(p))
      BY <1>3, <3>1, <3>2, Names
    <3>4. ~Through(p, 3)'
      BY <1>7, <3>3 DEF Through
    <3> QED
      BY <1>4, <2>1, <3>1, <3>3, <3>4
  <2> QED
    BY <2>2, <2>3
<1>12. SchemaInv'
  BY <1>10, <1>11, Homes DEF SchemaInv
<1> QED
  BY <1>5, <1>6, <1>8, <1>12

\* A program comes further without a file, or goes down.
LEMMA GoStep ==
    ASSUME LifeInv, NEW p \in Program, NEW where \in Stage, NEW k \in Nat, Goto(p, where, k),
           UNCHANGED <<mode, db>>, where = "migrate" => k = 1,
           where \in {"switch", "serving"} => Through(p, 3)
    PROVE  LifeTypeOK' /\ SchemaInv'
<1>1. LifeTypeOK /\ SchemaInv
  BY DEF LifeInv
<1>2. /\ stage'[p] = where /\ step'[p] = k
      /\ \A q \in Program \ {p} : stage'[q] = stage[q] /\ step'[q] = step[q]
  BY <1>1 DEF Goto, LifeTypeOK
<1>3. LifeTypeOK'
  BY <1>1, <1>2 DEF Goto, LifeTypeOK
<1>4. ASSUME NEW q \in Program
      PROVE  /\ Through(q, 1)' => Through(q, 1)
             /\ Through(q, 2)' => Through(q, 2)
             /\ Through(q, 3)' => Through(q, 3)
  BY <1>1, <1>2 DEF Through, LifeTypeOK
<1>5. ASSUME NEW e \in Database, NEW i \in db'[e] \cap Redundant
      PROVE  \E q \in Program : Owes(q, e, i)'
  <2>1. PICK q \in Program : Owes(q, e, i)
    BY <1>1, <1>5 DEF SchemaInv
  <2> QED
    BY <1>4, <2>1, Homes DEF Owes
<1> QED
  BY <1>1, <1>3, <1>4, <1>5, Homes DEF SchemaInv

------------------------------------------------------------------------------
\* The theorems.

LEMMA LifeInitial == LifeInit => LifeInv
<1> SUFFICES ASSUME LifeInit PROVE LifeInv
  OBVIOUS
<1>1. Queued = {} /\ Held \subseteq {NoRecord} /\ Distinct(auditCh)
  <2>1. auditCh = <<>> /\ 1 .. Len(auditCh) = {}
    BY EmptySeq DEF LifeInit, Init
  <2> QED
    BY <2>1 DEF LifeInit, Init, Queued, Held, Distinct
<1>2. TypeOK
  <2>1. <<>> \in Seq(Record) /\ Len(<<>>) = 0
    BY EmptySeq
  <2> QED
    BY <2>1, AuditAssumption DEF LifeInit, Init, TypeOK, AuditAssumption
<1>3. AuditInv
  BY <1>1, <1>2 DEF LifeInit, Init, AuditInv, Placed
<1>4. LifeTypeOK
  BY DEF LifeInit, LifeTypeOK, Stage
<1>5. SchemaInv
  BY DEF LifeInit, SchemaInv, Through
<1> QED
  BY <1>3, <1>4, <1>5 DEF LifeInv

LEMMA LifeStep == LifeInv /\ [LifeNext]_allVars => LifeInv' /\ Growing
<1> SUFFICES ASSUME LifeInv, [LifeNext]_allVars PROVE LifeInv' /\ Growing
  OBVIOUS
<1>0. AuditInv /\ LifeTypeOK /\ SchemaInv /\ crashes \in 0 .. MaxCrash
  BY DEF LifeInv, AuditInv, TypeOK
<1>1. ASSUME UNCHANGED <<mode, lifeVars>> PROVE LifeTypeOK' /\ SchemaInv'
  <2>1. \A q \in Program : \A k \in 1 .. 3 : Through(q, k)' <=> Through(q, k)
    BY <1>1 DEF Through, lifeVars
  <2>2. \A q \in Program : \A d \in Database : \A i \in Redundant : Owes(q, d, i) => Owes(q, d, i)'
    BY <1>1, <2>1, Homes DEF Owes
  <2>3. SchemaInv'
    BY <1>0, <1>1, <2>1, <2>2, Homes DEF SchemaInv, lifeVars
  <2> QED
    BY <1>0, <1>1, <2>3 DEF LifeTypeOK, lifeVars
<1>2. ASSUME UNCHANGED <<pc, auditCh, holding, rows, lost, crashes>> PROVE AuditInv' /\ Growing
  BY <1>0, <1>2, StartStep
<1>3. ASSUME crashes < MaxCrash, crashes' = crashes + 1,
             UNCHANGED <<pc, auditCh, holding, rows, lost>>
      PROVE  AuditInv' /\ Growing
  <2>1. crashes' \in 0 .. MaxCrash
    BY <1>0, <1>3, AuditAssumption DEF AuditAssumption
  <2> QED
    BY <1>0, <1>3, <2>1, StartStep
<1>4. ASSUME NEW p \in Program, Starts(p) PROVE LifeInv' /\ Growing
  <2>1. CASE MigrateFile(p)
    BY <1>2, <1>4, <2>1, ApplyStep DEF MigrateFile, LifeInv
  <2>2. ASSUME NEW where \in Stage, NEW k \in Nat, Goto(p, where, k), UNCHANGED <<vars, mode, db>>,
               where = "migrate" => k = 1, where \in {"switch", "serving"} => Through(p, 3)
        PROVE  LifeInv' /\ Growing
    BY <1>2, <2>2, GoStep DEF LifeInv, vars
  <2>3. CASE Launch(p)
    BY <2>2, <2>3 DEF Launch, Stage
  <2>4. CASE Connect(p)
    BY <1>0, <2>2, <2>4 DEF Connect, Stage, LifeTypeOK
  <2>5. CASE StartSwitch(p)
    BY <1>0, <2>2, <2>5, ThreeFiles DEF StartSwitch, Stage, Through
  <2>6. CASE Serve(p)
    BY <1>0, <2>2, <2>6, ThreeFiles DEF Serve, Stage, Through
  <2> QED
    BY <1>4, <2>1, <2>3, <2>4, <2>5, <2>6 DEF Starts
<1>5. ASSUME NEW p \in Program, StartFails(p) PROVE LifeInv' /\ Growing
  <2>1. /\ crashes < MaxCrash /\ crashes' = crashes + 1 /\ Goto(p, "down", 1) /\ UNCHANGED mode
    BY <1>5 DEF StartFails
  <2>2. CASE /\ stage[p] = "migrate" /\ step[p] <= Len(Files(p))
             /\ Apply(Home(p), Files(p)[step[p]])
    BY <1>3, <2>1, <2>2, ApplyStep DEF LifeInv
  <2>3. CASE UNCHANGED <<pc, auditCh, holding, rows, lost, db>>
    <3>1. AuditInv' /\ Growing
      BY <1>3, <2>1, <2>3
    <3>2. LifeTypeOK' /\ SchemaInv'
      BY <2>1, <2>3, GoStep DEF Stage
    <3> QED
      BY <3>1, <3>2 DEF LifeInv
  <2> QED
    BY <1>5, <2>2, <2>3 DEF StartFails
<1>6. ASSUME NEW p \in Program, Killed(p) PROVE LifeInv' /\ Growing
  <2>1. LifeTypeOK' /\ SchemaInv'
    BY <1>6, GoStep DEF Killed, Stage
  <2>2. AuditInv' /\ Growing
    BY <1>0, <1>3, <1>6, CrashStep DEF Killed
  <2> QED
    BY <2>1, <2>2 DEF LifeInv
<1>7. ASSUME NEW r \in Record, HandleServing(r) PROVE LifeInv' /\ Growing
  BY <1>0, <1>1, <1>7, HandleStep DEF HandleServing, LifeInv
<1>8. ASSUME NEW w \in Worker, WorkServing(w) PROVE LifeInv' /\ Growing
  BY <1>0, <1>1, <1>8, WorkStep DEF WorkServing, Work, LifeInv
<1>9. CASE UNCHANGED allVars
  BY <1>1, <1>2, <1>9 DEF allVars, vars, LifeInv
<1> QED
  BY <1>4, <1>5, <1>6, <1>7, <1>8, <1>9 DEF LifeNext

\* Wherever starts fail, programs are killed and records are, all of this
\* holds.
THEOREM LifeInvariant == LifeSpec => []LifeInv
<1>1. LifeSpec => LifeInit /\ [][LifeNext]_allVars
  BY PTL DEF LifeSpec
<1>2. LifeInv /\ [LifeNext]_allVars => LifeInv'
  BY LifeStep
<1> QED
  BY <1>1, <1>2, LifeInitial, PTL

\* Every variable of the trail and of the programs' lives keeps its type.
THEOREM LifeTypeCorrect == LifeSpec => [](TypeOK /\ LifeTypeOK)
<1>1. LifeInv => TypeOK /\ LifeTypeOK
  BY DEF LifeInv, AuditInv
<1> QED
  BY <1>1, LifeInvariant, PTL

\* The non-blocking send, the workers and a crash between a receive and an
\* insert put a record in one place and into the table once at most.
THEOREM TrailOnePlace == LifeSpec => []OnePlace
<1>1. LifeInv => OnePlace
  BY PlacedOnce DEF LifeInv, AuditInv
<1> QED
  BY <1>1, LifeInvariant, PTL

\* runMigrations has run every file before a program serves, and no file of
\* either program takes away what the other one needs.
THEOREM LifeServingHasSchema == LifeSpec => []ServingHasSchema
<1>1. LifeInv => ServingHasSchema
  BY DEF LifeInv, SchemaInv, ServingHasSchema, Through
<1> QED
  BY <1>1, LifeInvariant, PTL

\* Each start makes the redundant indexes anew, but whoever made one drops it
\* before it serves, however often it dies between the two.
THEOREM LifeSchemaSettles == LifeSpec => []SchemaSettles
<1>1. LifeInv => SchemaSettles
  <2> SUFFICES ASSUME LifeInv, \A p \in Program : stage[p] \in {"switch", "serving"},
                      NEW d \in Database, NEW i \in db[d], i \in Redundant
               PROVE  FALSE
    BY AllRedundant DEF SchemaSettles
  <2>1. PICK p \in Program : Owes(p, d, i)
    BY DEF LifeInv, SchemaInv
  <2> QED
    BY <2>1 DEF Owes, Through
<1> QED
  BY <1>1, LifeInvariant, PTL

\* None of the files that run again on every start drops the table of the rows.
THEOREM LifeRowsSurvive == LifeSpec => RowsSurvive
<1>1. LifeInv /\ [LifeNext]_allVars => [\A r \in Record : rows'[r] >= rows[r]]_rows
  BY LifeStep DEF Growing
<1>2. LifeSpec => [][LifeNext]_allVars
  BY PTL DEF LifeSpec
<1> QED
  BY <1>1, <1>2, LifeInvariant, PTL DEF RowsSurvive

==============================================================================
