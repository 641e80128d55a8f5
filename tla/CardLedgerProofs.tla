--------------------------- MODULE CardLedgerProofs ---------------------------
(***************************************************************************)
(* For any number of cards and concurrent operations: debits never         *)
(* overdraw a card, never touch one that is not active, and the balances   *)
(* they report are those of one order of debits; and the answers given     *)
(* explain each balance.                                                   *)
(***************************************************************************)
EXTENDS CardLedger, InductionLemmas

------------------------------------------------------------------------------
\* The invariant.

\* A balance that is not below zero, or not below one an administrator wrote.
Covered(v) == v >= 0 \/ \E b \in Balances : b <= v

\* What is known of an operation at each step.
StepOK(t) ==
    /\ snap[t].balance <= Limit /\ Covered(snap[t].balance)
    /\ pc[t] # "done" => reply[t] = "none"
    /\ pc[t] = "start" => req[t].kind \in Approve \cup {"reversal"}
    /\ pc[t] = "debit" => /\ req[t].kind \in Approve /\ req[t].amount > 0
                          /\ status[CardOf(t)] # "none"
    /\ pc[t] \in {"credit", "reread"} => req[t].kind \in {"reversal", "topup"}
    /\ pc[t] = "write" => req[t].kind = "update" /\ snap[t].status # "none"
    /\ pc[t] = "read" => req[t].kind = "update"
    /\ pc[t] \in {"delete", "insert"} => req[t].kind \notin Priced

Approved(t) == req[t].kind \in Approve /\ reply[t] = "00"

\* No approval reports less than the balance now.
ReportsAbove ==
    \A t \in Txn : Approved(t) => /\ status[CardOf(t)] # "none"
                                  /\ DebitsOnly(CardOf(t)) => balance[CardOf(t)] <= reported[t].after

LInv == /\ TypeOK /\ \A t \in Txn : StepOK(t)
        /\ \A c \in Card : Covered(balance[c])
        /\ ReportsAbove /\ ReportsOrdered

------------------------------------------------------------------------------
\* A row of the table, as a statement reads it, has the type of a snapshot.
LEMMA RowTypes == TypeOK => \A c \in Card : RowOf(c) \in Row
  BY LedgerAssumption DEF TypeOK, RowOf, Row, LedgerAssumption

\* What an operation asks for has its type.
LEMMA RequestTypes ==
    TypeOK => \A t \in Txn : /\ req[t].kind \in Kind /\ CardOf(t) \in Card
                             /\ req[t].amount \in Int
<1> SUFFICES ASSUME TypeOK, NEW t \in Txn
             PROVE  req[t].kind \in Kind /\ CardOf(t) \in Card /\ req[t].amount \in Int
  OBVIOUS
<1>1. req[t] \in Request
  BY DEF TypeOK
<1>2. \A a \in Amounts \cup {Malformed} : a \in Int
  BY LedgerAssumption DEF LedgerAssumption, Malformed
<1>3. CASE req[t] \in [kind : Kinds \cap Priced, card : Card, amount : Amounts \cup {Malformed}]
  BY <1>2, <1>3, LedgerAssumption DEF CardOf, LedgerAssumption
<1>4. CASE req[t] \in [kind : Kinds \ Priced, card : Card, amount : {0}]
  BY <1>4, LedgerAssumption DEF CardOf, LedgerAssumption
<1> QED
  BY <1>1, <1>3, <1>4 DEF Request

\* A failure of the database is answered with 96 or an error.
LEMMA FailureCode ==
    \A t : Failure(t) \in {"96", "error"}
  BY DEF Failure

\* A step of an operation changes the place and the answer of that one alone.
Alone(t) ==
    /\ req' = req
    /\ pc[t] # "done" /\ pc'[t] \in Pc \ {"start"}
    /\ \A u \in Txn : u # t => pc'[u] = pc[u] /\ reply'[u] = reply[u]
    /\ pc' \in [Txn -> Pc] /\ reply' \in [Txn -> Code]

\* A step of one operation leaves the place and the reply of the others
\* alone.
LEMMA StepsAlone ==
    ASSUME TypeOK, NEW t \in Txn, Step(t)
    PROVE  Alone(t)
<1>1. \A r : r \in Code /\ pc[t] # "done" /\ req' = req /\ Answer(t, r) => Alone(t)
  BY DEF TypeOK, Answer, Alone, Pc
<1>2. \A s : s \in Pc \ {"start"} /\ pc[t] # "done" /\ req' = req /\ Continue(t, s) => Alone(t)
  BY DEF TypeOK, Continue, Alone, Pc
<1>3. Failure(t) \in Code
  BY FailureCode DEF Code
<1>4. \A r : r \in Code /\ pc[t] # "done" /\ req' = req /\ Committed(t, r) => Alone(t)
  BY <1>1, <1>3 DEF Committed
<1>5. DeclineCode(snap[t]) \in Code
  BY DEF DeclineCode, Code
<1>6. {"05", "96", "14", "00", "ok", "error"} \subseteq Code
  BY DEF Code
<1>7. {"debit", "credit", "reread", "write"} \subseteq Pc \ {"start"}
  BY DEF Pc
<1>8. CASE RejectAmount(t) \/ RejectZero(t) \/ LookupCard(t) \/ FindCard(t) \/ ReadCard(t)
  BY <1>1, <1>2, <1>6, <1>7, <1>8 DEF RejectAmount, RejectZero, LookupCard, FindCard, ReadCard
<1>9. CASE Debit(t) \/ Decline(t) \/ Credit(t) \/ CreditRefused(t) \/ Reread(t)
  BY <1>1, <1>2, <1>3, <1>4, <1>5, <1>6, <1>7, <1>9
  DEF Debit, Decline, Credit, CreditRefused, Reread
<1>10. CASE WriteCard(t) \/ SoftDeleteCard(t) \/ InsertCard(t) \/ InsertRefused(t) \/ DatabaseFails(t)
  BY <1>1, <1>3, <1>4, <1>6, <1>10
  DEF WriteCard, SoftDeleteCard, InsertCard, InsertRefused, DatabaseFails
<1> QED
  BY <1>8, <1>9, <1>10 DEF Step

------------------------------------------------------------------------------
\* Rows are never removed.
LEMMA RowsStay ==
    ASSUME TypeOK, NEW t \in Txn, StepOK(t), Step(t)
    PROVE  \A c \in Card : status[c] # "none" => status'[c] # "none"
<1>1. CASE status' = status
  BY <1>1
<1>2. CASE WriteCard(t)
  <2>1. \E s \in (Status \ {"none"}) \cup {snap[t].status} : status' = [status EXCEPT ![CardOf(t)] = s]
    BY <1>2 DEF WriteCard
  <2>2. snap[t].status # "none"
    BY <1>2 DEF WriteCard, StepOK
  <2> QED
    BY <2>1, <2>2 DEF TypeOK
<1>3. CASE SoftDeleteCard(t)
  BY <1>3 DEF SoftDeleteCard, TypeOK
<1>4. CASE InsertCard(t)
  BY <1>4 DEF InsertCard, TypeOK
<1> QED
  BY <1>1, <1>2, <1>3, <1>4
  DEF Step, RejectAmount, RejectZero, LookupCard, Debit, Decline, FindCard, Credit,
      CreditRefused, Reread, ReadCard, InsertRefused, DatabaseFails, rowVars

\* How a step changes the balances.
Debits(t) ==
    LET c == CardOf(t)
        amount == req[t].amount
    IN
    /\ pc[t] = "debit" /\ pc'[t] = "done" /\ reply'[t] \in {"00", "96", "error"}
    /\ status[c] = "ACTIVE" /\ balance[c] >= amount
    /\ balance' = [balance EXCEPT ![c] = balance[c] - amount]
    /\ reported' = [reported EXCEPT ![t] = [before |-> balance[c], after |-> balance[c] - amount]]

Credits(t) ==
    /\ pc[t] = "credit" /\ pc'[t] \in {"done", "reread"}
    /\ req[t].amount > 0 /\ balance[CardOf(t)] + req[t].amount <= Limit
    /\ balance' = [balance EXCEPT ![CardOf(t)] = balance[CardOf(t)] + req[t].amount]

Overwrites(t) ==
    /\ pc[t] = "write" /\ pc'[t] = "done"
    /\ \E b \in Balances \cup {snap[t].balance} : balance' = [balance EXCEPT ![CardOf(t)] = b]

Inserts(t) ==
    /\ pc[t] = "insert" /\ status[CardOf(t)] = "none"
    /\ \E b \in Balances : balance' = [balance EXCEPT ![CardOf(t)] = b]

\* Only a debit gives an approval.
NoApproval(t) == reported' = reported /\ (Approved(t)' => Approved(t))

\* A step debits, credits, overwrites or leaves a balance alone, and only a
\* debit approves.
LEMMA BalanceShapes ==
    ASSUME TypeOK, NEW t \in Txn, StepOK(t), Step(t)
    PROVE  \/ Debits(t)
           \/ /\ NoApproval(t)
              /\ balance' = balance \/ Credits(t) \/ Overwrites(t) \/ Inserts(t)
<1> USE DEF TypeOK
<1>1. Alone(t)
  BY StepsAlone
<1>2. Failure(t) \in {"96", "error"}
  BY FailureCode
<1>3. \A r : Answer(t, r) => reply'[t] = r /\ pc'[t] = "done"
  BY DEF Answer
<1>4. \A r, s : /\ Committed(t, r) => reply'[t] \in {r, "96", "error"} /\ pc'[t] = "done"
                /\ Continue(t, s) => reply'[t] = reply[t] /\ pc'[t] = s
  BY <1>2, <1>3 DEF Committed, Continue
<1>5. \A r : r # "00" /\ Answer(t, r) /\ req' = req => ~Approved(t)'
  BY <1>3 DEF Approved
<1>6. \A s : Continue(t, s) /\ req' = req => (Approved(t)' => Approved(t))
  BY <1>4 DEF Approved
<1>7. \A r : r # "00" /\ Committed(t, r) /\ req' = req => ~Approved(t)'
  BY <1>4 DEF Approved
<1>8. CASE RejectAmount(t) \/ RejectZero(t) \/ LookupCard(t) \/ FindCard(t) \/ ReadCard(t)
  BY <1>5, <1>6, <1>8
  DEF RejectAmount, RejectZero, LookupCard, FindCard, ReadCard, NoApproval, rowVars
<1>9. CASE Debit(t)
  BY <1>4, <1>9 DEF Debit, Debits, Debitable, RowOf
<1>10. CASE Decline(t) \/ CreditRefused(t) \/ DatabaseFails(t) \/ InsertRefused(t)
  <2>1. DeclineCode(snap[t]) # "00"
    BY DEF DeclineCode
  <2> QED
    BY <1>2, <1>5, <1>10, <2>1
    DEF Decline, CreditRefused, DatabaseFails, InsertRefused, NoApproval, rowVars
<1>11. CASE Credit(t)
  <2>1. ~Approved(t)'
    BY <1>1, <1>11 DEF Credit, StepOK, Approved, Approve, Alone
  <2> QED
    BY <1>3, <1>4, <1>11, <2>1 DEF Credit, Credits, Creditable, NoApproval
<1>12. CASE Reread(t) \/ SoftDeleteCard(t)
  BY <1>5, <1>7, <1>12 DEF Reread, SoftDeleteCard, NoApproval, rowVars
<1>13. CASE WriteCard(t)
  BY <1>4, <1>7, <1>13 DEF WriteCard, Overwrites, NoApproval
<1>14. CASE InsertCard(t)
  <2>1. \E b \in Balances : balance' = [balance EXCEPT ![CardOf(t)] = b]
    BY <1>14 DEF InsertCard
  <2> QED
    BY <1>7, <1>14, <2>1 DEF InsertCard, Inserts, NoApproval
<1> QED
  BY <1>8, <1>9, <1>10, <1>11, <1>12, <1>13, <1>14 DEF Step

------------------------------------------------------------------------------
\* A balance above a covered one is covered.
LEMMA CoveredMore == \A v, w \in Int : Covered(v) /\ v <= w => Covered(w)
  BY LedgerAssumption DEF Covered, LedgerAssumption

\* No step overdraws a card, nor exceeds the BIGINT.
LEMMA BalancesStep ==
    ASSUME LInv, NEW t \in Txn, Step(t)
    PROVE  /\ balance' \in [Card -> {b \in Int : b <= Limit}]
           /\ \A c \in Card : Covered(balance'[c])
<1> DEFINE Sound == {b \in Int : b <= Limit /\ Covered(b)}
<1>0. balance \in [Card -> Sound] /\ Limit \in Int
  BY LedgerAssumption DEF LInv, TypeOK, LedgerAssumption
<1>1. CardOf(t) \in Card /\ req[t].amount \in Int /\ balance[CardOf(t)] \in Sound
  BY <1>0, RequestTypes DEF LInv
<1>2. StepOK(t) /\ snap[t].balance \in Int
  BY DEF LInv, TypeOK, Row
<1>3. \A v \in Sound : balance' = [balance EXCEPT ![CardOf(t)] = v] => balance' \in [Card -> Sound]
  BY <1>0
<1>4. \A b \in Balances : b \in Sound
  BY LedgerAssumption DEF LedgerAssumption, Covered
<1>5. CASE Debits(t)
  <2>1. req[t].amount > 0
    BY <1>2, <1>5 DEF Debits, StepOK
  <2>2. balance[CardOf(t)] - req[t].amount \in Sound
    BY <1>0, <1>1, <1>5, <2>1 DEF Debits, Covered
  <2> QED
    BY <1>3, <1>5, <2>2 DEF Debits
<1>6. CASE Credits(t)
  <2>1. balance[CardOf(t)] + req[t].amount \in Int /\ Covered(balance[CardOf(t)] + req[t].amount)
    BY <1>1, <1>6, CoveredMore DEF Credits
  <2> QED
    BY <1>3, <1>6, <2>1 DEF Credits
<1>7. CASE Overwrites(t)
  <2>1. snap[t].balance \in Sound
    BY <1>2 DEF StepOK
  <2> QED
    BY <1>3, <1>4, <1>7, <2>1 DEF Overwrites
<1>8. CASE Inserts(t)
  BY <1>3, <1>4, <1>8 DEF Inserts
<1>9. balance' \in [Card -> Sound]
  BY <1>0, <1>2, <1>5, <1>6, <1>7, <1>8, BalanceShapes DEF LInv
<1> QED
  BY <1>9

\* Every step of the ledger keeps the types.
LEMMA TypeStep ==
    ASSUME LInv, NEW t \in Txn, Step(t)
    PROVE  TypeOK'
<1> USE DEF LInv
<1>1. Alone(t) /\ balance' \in [Card -> {b \in Int : b <= Limit}] /\ CardOf(t) \in Card
  BY StepsAlone, BalancesStep, RequestTypes
<1>2. RowOf(CardOf(t)) \in Row
  BY <1>1, RowTypes
<1>3. snap' \in [Txn -> Row]
  BY <1>2
  DEF TypeOK, Step, RejectAmount, RejectZero, LookupCard, Debit, Decline, FindCard, Credit,
      CreditRefused, Reread, ReadCard, WriteCard, SoftDeleteCard, InsertCard, InsertRefused,
      DatabaseFails
<1>4. reported' \in [Txn -> [before : Int, after : Int]]
  <2>1. CASE Debits(t)
    <3>1. [before |-> balance[CardOf(t)], after |-> balance[CardOf(t)] - req[t].amount]
            \in [before : Int, after : Int]
      BY <1>1, RequestTypes DEF TypeOK
    <3> QED
      BY <2>1, <3>1 DEF Debits, TypeOK
  <2> QED
    BY <2>1, BalanceShapes DEF NoApproval, TypeOK
<1>5. status' \in [Card -> Status]
  <2>1. CASE WriteCard(t)
    <3>1. snap[t].status \in Status
      BY DEF TypeOK, Row
    <3> QED
      BY <2>1, <3>1 DEF WriteCard, TypeOK
  <2> QED
    BY <2>1
    DEF TypeOK, Step, RejectAmount, RejectZero, LookupCard, Debit, Decline, FindCard, Credit,
        CreditRefused, Reread, ReadCard, SoftDeleteCard, InsertCard, InsertRefused,
        DatabaseFails, rowVars, Status
<1>6. expiry' \in [Card -> Expiry]
  <2>1. CASE WriteCard(t) \/ InsertCard(t)
    BY <2>1 DEF WriteCard, InsertCard, TypeOK
  <2> QED
    BY <2>1
    DEF TypeOK, Step, RejectAmount, RejectZero, LookupCard, Debit, Decline, FindCard, Credit,
        CreditRefused, Reread, ReadCard, SoftDeleteCard, InsertRefused,
        DatabaseFails, rowVars
<1>7. opening' \in [Card -> Int]
  <2>1. CASE InsertCard(t)
    <3>1. PICK b \in Balances : opening' = [opening EXCEPT ![CardOf(t)] = b]
      BY <2>1 DEF InsertCard
    <3> QED
      BY <3>1, LedgerAssumption DEF TypeOK, LedgerAssumption
  <2> QED
    BY <2>1
    DEF TypeOK, Step, RejectAmount, RejectZero, LookupCard, Debit, Decline, FindCard, Credit,
        CreditRefused, Reread, ReadCard, WriteCard, SoftDeleteCard, InsertRefused,
        DatabaseFails, rowVars
<1> QED
  BY <1>1, <1>3, <1>4, <1>5, <1>6, <1>7 DEF Alone, TypeOK

------------------------------------------------------------------------------
\* What each operation knows at its step stays true.
LEMMA StepOKStep ==
    ASSUME LInv, NEW t \in Txn, Step(t)
    PROVE  \A u \in Txn : StepOK(u)'
<1> USE DEF LInv
<1>1. Alone(t) /\ CardOf(t) \in Card
  BY StepsAlone, RequestTypes
<1>2. \A u \in Txn : CardOf(u) \in Card /\ CardOf(u)' = CardOf(u)
  BY <1>1, RequestTypes DEF Alone, CardOf
<1>3. \A u \in Txn : u # t => snap'[u] = snap[u]
  BY DEF TypeOK, Step, RejectAmount, RejectZero, LookupCard, Debit, Decline, FindCard, Credit,
         CreditRefused, Reread, ReadCard, WriteCard, SoftDeleteCard, InsertCard, InsertRefused,
         DatabaseFails
<1>4. \A c \in Card : status[c] # "none" => status'[c] # "none"
  BY RowsStay
<1>5. ASSUME NEW u \in Txn, u # t PROVE StepOK(u)'
  BY <1>1, <1>2, <1>3, <1>4, <1>5 DEF Alone, StepOK, Covered
<1>6. StepOK(t)'
  <2>1. snap'[t] = snap[t] \/ snap'[t] = RowOf(CardOf(t))
    BY DEF TypeOK, Step, RejectAmount, RejectZero, LookupCard, Debit, Decline, FindCard, Credit,
           CreditRefused, Reread, ReadCard, WriteCard, SoftDeleteCard, InsertCard, InsertRefused,
           DatabaseFails
  <2>2. snap'[t].balance <= Limit /\ Covered(snap'[t].balance)
    BY <1>1, <2>1 DEF TypeOK, RowOf, StepOK
  <2>3. CASE pc'[t] = "done"
    BY <1>1, <2>2, <2>3 DEF StepOK, Covered
  <2>4. CASE pc'[t] # "done"
    <3>1. \A r : ~Answer(t, r) /\ ~Committed(t, r)
      BY <2>4 DEF Answer, Committed, TypeOK
    <3>2. \A s : Continue(t, s) => pc'[t] = s /\ reply'[t] = reply[t]
      BY DEF Continue, TypeOK
    <3>3. CASE LookupCard(t)
      BY <1>1, <1>2, <1>4, <2>2, <3>1, <3>2, <3>3 DEF LookupCard, StepOK, Alone, Covered
    <3>4. CASE FindCard(t)
      BY <1>1, <2>2, <3>1, <3>2, <3>4 DEF FindCard, StepOK, Alone, Covered
    <3>5. CASE Credit(t)
      BY <1>1, <2>2, <3>1, <3>2, <3>5 DEF Credit, StepOK, Alone, Covered
    <3>6. CASE ReadCard(t)
      <4>1. pc'[t] = "write" /\ reply'[t] = reply[t] /\ status[CardOf(t)] # "none"
            /\ pc[t] = "read" /\ snap'[t] = RowOf(CardOf(t))
        BY <3>1, <3>2, <3>6 DEF ReadCard, TypeOK
      <4>2. req[t].kind = "update"
        BY <4>1 DEF StepOK
      <4> QED
        BY <1>1, <2>2, <4>1, <4>2 DEF StepOK, Alone, RowOf, Covered
    <3> QED
      BY <3>1, <3>3, <3>4, <3>5, <3>6
      DEF Step, RejectAmount, RejectZero, Debit, Decline, CreditRefused, Reread, WriteCard,
          SoftDeleteCard, InsertCard, InsertRefused, DatabaseFails
  <2> QED
    BY <2>3, <2>4
<1> QED
  BY <1>5, <1>6

------------------------------------------------------------------------------
\* A card that only debits have touched after a step had only been debited
\* before it, and the step can only have lowered its balance.
LEMMA DebitsOnlyBefore ==
    ASSUME LInv, NEW t \in Txn, Step(t), NEW c \in Card, DebitsOnly(c)',
           status[c] # "none"
    PROVE  DebitsOnly(c) /\ balance'[c] <= balance[c]
<1> USE DEF LInv
<1>1. Alone(t) /\ CardOf(t) \in Card /\ CardOf(t)' = CardOf(t)
  BY StepsAlone, RequestTypes DEF Alone, CardOf
<1>2. \A ks : On(c, ks)' = On(c, ks)
  BY <1>1 DEF Alone, On, CardOf
<1>3. DebitsOnly(c)
  <2>1. ~Overwritten(c)
    BY <1>1, <1>2 DEF DebitsOnly, Overwritten, On, Alone
  <2>2. ASSUME NEW u \in On(c, {"reversal", "topup"}) PROVE pc[u] \in {"start", "credit"}
    <3>1. u \in Txn /\ pc'[u] \in {"start", "credit"}
      BY <1>2 DEF DebitsOnly, On
    <3>2. CASE u # t
      BY <1>1, <3>1, <3>2 DEF Alone
    <3>3. CASE u = t
      <4>1. pc'[t] = "credit" /\ req[t].kind \in {"reversal", "topup"}
        BY <1>1, <3>1, <3>3 DEF Alone, On
      <4>2. \A r, s : /\ Answer(t, r) => pc'[t] = "done"
                      /\ Continue(t, s) => pc'[t] = s
        BY DEF Answer, Continue, TypeOK
      <4>3. \A r : ~Answer(t, r) /\ ~Committed(t, r)
        BY <4>1, <4>2 DEF Committed
      <4>4. FindCard(t)
        BY <4>1, <4>2, <4>3
        DEF Step, RejectAmount, RejectZero, LookupCard, Debit, Decline, Credit, CreditRefused,
            Reread, ReadCard, WriteCard, SoftDeleteCard, InsertCard, InsertRefused, DatabaseFails
      <4> QED
        BY <3>3, <4>4 DEF FindCard
    <3> QED
      BY <3>2, <3>3
  <2> QED
    BY <2>1, <2>2 DEF DebitsOnly
<1>4. balance'[c] <= balance[c]
  <2>1. balance[c] \in Int /\ balance[CardOf(t)] \in Int /\ req[t].amount \in Int /\ StepOK(t)
    BY <1>1, RequestTypes DEF TypeOK
  <2>2. CASE Debits(t)
    BY <1>1, <2>1, <2>2 DEF Debits, StepOK, TypeOK
  <2>3. CASE Credits(t)
    <3>1. CardOf(t) # c
      BY <1>1, <1>2, <2>1, <2>3 DEF Credits, DebitsOnly, On, StepOK
    <3> QED
      BY <2>1, <2>3, <3>1 DEF Credits, TypeOK
  <2>4. CASE Overwrites(t)
    <3>1. CardOf(t) # c
      BY <1>1, <1>2, <2>1, <2>4 DEF Overwrites, DebitsOnly, Overwritten, On, StepOK
    <3> QED
      BY <2>1, <2>4, <3>1 DEF Overwrites, TypeOK
  <2>5. CASE Inserts(t)
    BY <2>1, <2>5 DEF Inserts, TypeOK
  <2>6. CASE balance' = balance
    BY <2>1, <2>6
  <2> QED
    BY <2>1, <2>2, <2>3, <2>4, <2>5, <2>6, BalanceShapes
<1> QED
  BY <1>3, <1>4

\* A debit reports balances below those of all approvals before it.
LEMMA ReportsStep ==
    ASSUME LInv, NEW t \in Txn, Step(t)
    PROVE  ReportsAbove' /\ ReportsOrdered'
<1> USE DEF LInv
<1>1. Alone(t) /\ \A u \in Txn : CardOf(u) \in Card /\ CardOf(u)' = CardOf(u)
  BY StepsAlone, RequestTypes DEF Alone, CardOf
<1>2. Debits(t) \/ NoApproval(t)
  BY BalanceShapes
<1>3. ASSUME NEW u \in Txn, u # t, Approved(u)'
      PROVE  Approved(u) /\ reported'[u] = reported[u]
  BY <1>1, <1>2, <1>3 DEF Alone, Approved, Debits, NoApproval, TypeOK
<1>4. Approved(t)' => Debits(t)
  BY <1>1, <1>2 DEF NoApproval, StepOK, Approved, Alone
<1>5. ReportsAbove'
  <2>1. ASSUME NEW u \in Txn, Approved(u)'
        PROVE  /\ status'[CardOf(u)] # "none"
               /\ DebitsOnly(CardOf(u))' => balance'[CardOf(u)] <= reported'[u].after
    <3>1. CASE u = t
      <4>1. Debits(t) /\ StepOK(t) /\ CardOf(t) \in Card
        BY <1>1, <1>4, <2>1, <3>1
      <4>2. status'[CardOf(t)] # "none"
        BY <4>1, RowsStay DEF Debits
      <4>3. balance[CardOf(t)] \in Int /\ req[t].amount \in Int
        BY <4>1, RequestTypes DEF TypeOK
      <4>4. balance'[CardOf(t)] = balance[CardOf(t)] - req[t].amount
        BY <4>1 DEF Debits, TypeOK
      <4>5. reported'[t].after = balance[CardOf(t)] - req[t].amount
        BY <4>1 DEF Debits, TypeOK
      <4> QED
        BY <3>1, <4>2, <4>3, <4>4, <4>5
    <3>2. CASE u # t
      <4>1. status[CardOf(u)] # "none" /\ reported'[u] = reported[u]
            /\ (DebitsOnly(CardOf(u)) => balance[CardOf(u)] <= reported[u].after)
        BY <1>3, <2>1, <3>2 DEF ReportsAbove
      <4>2. status'[CardOf(u)] # "none"
        BY <1>1, <4>1, RowsStay
      <4>3. balance[CardOf(u)] \in Int /\ balance'[CardOf(u)] \in Int /\ reported[u].after \in Int
        BY <1>1, BalancesStep DEF TypeOK
      <4>4. DebitsOnly(CardOf(u))' => DebitsOnly(CardOf(u)) /\ balance'[CardOf(u)] <= balance[CardOf(u)]
        BY <1>1, <4>1, DebitsOnlyBefore
      <4> QED
        BY <4>1, <4>2, <4>3, <4>4
    <3> QED
      BY <3>1, <3>2
  <2> QED
    BY <1>1, <2>1 DEF ReportsAbove
<1>6. ASSUME NEW c \in Card, DebitsOnly(c)',
             NEW u \in Txn, NEW v \in Txn, u # v, CardOf(u) = c, CardOf(v) = c,
             Approved(u)', Approved(v)'
      PROVE  reported'[u].after >= reported'[v].before \/ reported'[v].after >= reported'[u].before
  <2>1. \A w \in Txn : w # t /\ Approved(w)' =>
           /\ Approved(w) /\ reported'[w] = reported[w]
           /\ status[CardOf(w)] # "none"
    BY <1>3 DEF ReportsAbove
  <2>2. DebitsOnly(c)
    BY <1>1, <1>6, <2>1, DebitsOnlyBefore
  <2>3. \A w \in {u, v} : w # t => balance[c] <= reported'[w].after /\ reported'[w].after \in Int
    BY <1>6, <2>1, <2>2 DEF ReportsAbove, TypeOK
  <2>4. \A w \in {u, v} : w = t => reported'[w].before = balance[c] /\ balance[c] \in Int
    BY <1>4, <1>6 DEF Debits, TypeOK
  <2>5. CASE u # t /\ v # t
    BY <1>6, <2>1, <2>2, <2>5 DEF ReportsOrdered, On, Approved
  <2>6. CASE u = t \/ v = t
    BY <1>6, <2>3, <2>4, <2>6
  <2> QED
    BY <2>5, <2>6
<1>7. ReportsOrdered'
  BY <1>1, <1>6 DEF ReportsOrdered, On, Approved
<1> QED
  BY <1>5, <1>7

------------------------------------------------------------------------------
\* The invariant holds for every table an administrator may have made.
LEMMA LInvInit == Init => LInv
<1> SUFFICES ASSUME Init PROVE LInv
  OBVIOUS
<1>1. \A b \in Balances \cup {0} : b \in Int /\ b <= Limit /\ Covered(b)
  BY LedgerAssumption DEF LedgerAssumption, Covered
<1>2. \A t \in Txn : req[t] \in Request /\ req[t].kind \in Kind
  <2>1. req \in [Txn -> Request] /\ Kinds \subseteq Kind
    BY LedgerAssumption DEF Init, LedgerAssumption
  <2> QED
    BY <2>1 DEF Request
<1>3. \A t \in Txn : pc[t] = FirstStep(req[t].kind) /\ pc[t] \in Pc \ {"done"}
  BY <1>2 DEF Init, FirstStep, Kind, Pc, Approve
<1>4. NoRow \in Row /\ NoRow.balance = 0
  BY DEF NoRow, Row, Status, Expiry
<1>5. TypeOK
  <2>1. [before |-> 0, after |-> 0] \in [before : Int, after : Int] /\ "none" \in Code
    BY DEF Code
  <2> QED
    BY <1>1, <1>3, <1>4, <2>1 DEF Init, TypeOK
<1>6. ASSUME NEW t \in Txn PROVE StepOK(t)
  <2>1. snap[t] = NoRow /\ reply[t] = "none" /\ Limit \in Nat
    BY LedgerAssumption DEF Init, LedgerAssumption
  <2> QED
    BY <1>2, <1>3, <1>4, <2>1 DEF StepOK, FirstStep, Kind, Approve, Priced, Covered
<1>7. \A c \in Card : Covered(balance[c])
  BY <1>1 DEF Init
<1>8. \A t \in Txn : ~Approved(t)
  BY DEF Init, Approved
<1> QED
  BY <1>5, <1>6, <1>7, <1>8 DEF LInv, ReportsAbove, ReportsOrdered, On, Approved

\* Every step of the ledger keeps the invariant.
LEMMA LInvStep == LInv /\ [Next]_vars => LInv'
<1> SUFFICES ASSUME LInv, [Next]_vars PROVE LInv'
  OBVIOUS
<1>1. ASSUME NEW t \in Txn, Step(t) PROVE LInv'
  <2>1. \A c \in Card : Covered(balance'[c])
    BY <1>1, BalancesStep
  <2> QED
    BY <1>1, <2>1, TypeStep, StepOKStep, ReportsStep DEF LInv, Covered
<1>2. ASSUME UNCHANGED <<status, balance, opening, pc, req, snap, reply, reported>>,
             expiry' \in [Card -> Expiry]
      PROVE  LInv'
  BY <1>2
  DEF LInv, TypeOK, StepOK, Covered, CardOf, ReportsAbove, ReportsOrdered, Approved, DebitsOnly,
      Overwritten, On
<1>3. ASSUME NEW c \in Card, CardExpires(c) PROVE LInv'
  <2>1. expiry' \in [Card -> Expiry]
    BY <1>3 DEF CardExpires, LInv, TypeOK, Expiry
  <2> QED
    BY <1>2, <1>3, <2>1 DEF CardExpires
<1>4. CASE UNCHANGED vars
  BY <1>2, <1>4 DEF vars, rowVars, LInv, TypeOK
<1> QED
  BY <1>1, <1>3, <1>4 DEF Next

\* The inductive invariant of the ledger holds in every reachable state.
THEOREM LedgerInvariant == Spec => []LInv
  BY LInvInit, LInvStep, PTL DEF Spec

\* Every variable of the ledger keeps its type; no credit exceeds the BIGINT.
THEOREM LedgerTypeCorrect == Spec => []TypeOK
<1>1. LInv => TypeOK
  BY DEF LInv
<1> QED
  BY <1>1, LedgerInvariant, PTL

\* Concurrent debits of AuthorizeAndDebit never overdraw a card.
THEOREM LedgerNeverOverdraws == Spec => []NoOverdraft
<1>1. LInv => NoOverdraft
  BY DEF LInv, NoOverdraft, Covered
<1> QED
  BY <1>1, LedgerInvariant, PTL

\* The balances reported by approvals are those of one order of the debits.
THEOREM LedgerReportsOrdered == Spec => []ReportsOrdered
<1>1. LInv => ReportsOrdered
  BY DEF LInv
<1> QED
  BY <1>1, LedgerInvariant, PTL

\* A debit finds the card active when it takes effect, whatever the lookup saw.
THEOREM LedgerInactiveNeverDebited == Spec => InactiveNeverDebited
<1>1. ASSUME LInv, [Next]_vars, NEW t \in Txn, pc[t] = "debit", balance' # balance, pc'[t] = "done"
      PROVE  status[CardOf(t)] = "ACTIVE"
  <2>1. PICK u \in Txn : Step(u)
    BY <1>1 DEF Next, CardExpires, vars, rowVars
  <2>2. u = t
    BY <1>1, <2>1, StepsAlone DEF Alone, LInv
  <2>3. Debits(t)
    BY <1>1, <2>1, <2>2, BalanceShapes DEF LInv, Credits, Overwrites, Inserts
  <2> QED
    BY <2>3 DEF Debits
<1>2. LInv /\ [Next]_vars =>
        [\A t \in Txn : pc[t] = "debit" /\ balance' # balance /\ pc'[t] = "done" =>
            status[CardOf(t)] = "ACTIVE"]_vars
  BY <1>1
<1> QED
  BY <1>2, LedgerInvariant, PTL DEF Spec, InactiveNeverDebited

------------------------------------------------------------------------------
\* Answers explain balances.  The invariant says more than the property: a
\* finite set of the operations without a clear answer took effect, those that
\* still read the card again are among them, and nothing was confirmed on a
\* card without a row.

Rereading(c) == {t \in On(c, Priced) : pc[t] = "reread"}

Explains(c, ts) ==
    /\ IsFiniteSet(ts) /\ Rereading(c) \subseteq ts
    /\ balance[c] = opening[c] + Total(Confirmed(c)) + Total(ts)

ConfirmedInRows ==
    \A t \in Txn : req[t].kind \in Priced /\ status[CardOf(t)] = "none" =>
                      reply[t] \notin {"00", "ok"} /\ pc[t] # "reread"

AnswersExplain ==
    \A c \in Card : /\ IsFiniteSet(Confirmed(c))
                    /\ ~Overwritten(c) => \E ts \in SUBSET Unclear(c) : Explains(c, ts)

\* Every operation has an effect that is a number.
LEMMA EffectTypes == TypeOK => \A t \in Txn : Effects[t] = Effect(t) /\ Effects[t] \in Int
<1> SUFFICES ASSUME TypeOK, NEW t \in Txn PROVE Effects[t] = Effect(t) /\ Effect(t) \in Int
  BY DEF Effects
<1>1. req[t].amount \in Int
  BY RequestTypes
<1>2. Effect(t) \in Int
  BY <1>1 DEF Effect, Approve
<1> QED
  BY <1>2 DEF Effects

\* The sum of effects of a finite set of operations: its type, no operation,
\* and one operation more.
LEMMA TotalInt ==
    ASSUME TypeOK, NEW ts \in SUBSET Txn, IsFiniteSet(ts)
    PROVE  Total(ts) \in Int
<1>1. \A t \in ts : Effects[t] \in Int
  BY EffectTypes
<1> QED
  BY <1>1, SumInt DEF Total

LEMMA TotalEmpty == Total({}) = 0
  BY SumEmpty DEF Total

LEMMA TotalAdd ==
    ASSUME TypeOK, NEW ts \in SUBSET Txn, IsFiniteSet(ts), NEW t \in Txn, t \notin ts
    PROVE  Total(ts \cup {t}) = Total(ts) + Effect(t)
<1>1. \A u \in ts : Effects[u] \in Int
  BY EffectTypes
<1>2. Effects[t] \in Int /\ Effects[t] = Effect(t)
  BY EffectTypes
<1> QED
  BY <1>1, <1>2, SumAdd DEF Total

\* The ways in which a step of an operation on a card can go: it takes effect
\* on a row, it says that it took effect, or it does neither.
TakesEffect(t) ==
    /\ req[t].amount > 0 /\ status[CardOf(t)] # "none" /\ pc[t] # "reread"
    /\ balance'[CardOf(t)] = balance[CardOf(t)] + Effect(t) /\ opening' = opening
    /\ \/ pc'[t] = "done" /\ reply'[t] \in {"00", "96", "error"}
       \/ pc'[t] = "reread" /\ reply'[t] = "none"

Confirms(t) ==
    /\ pc[t] = "reread" /\ balance' = balance /\ opening' = opening
    /\ pc'[t] = "done" /\ reply'[t] \in {"ok", "96", "error"}

HasNoEffect(t) ==
    /\ pc[t] # "reread" /\ pc'[t] # "reread" /\ reply'[t] \notin {"00", "ok"}
    /\ balance' = balance /\ opening' = opening

\* A priced step is one of these.
LEMMA PricedShapes ==
    ASSUME LInv, NEW t \in Txn, Step(t), req[t].kind \in Priced
    PROVE  TakesEffect(t) \/ Confirms(t) \/ HasNoEffect(t)
<1> USE DEF LInv
<1>1. Alone(t) /\ StepOK(t) /\ CardOf(t) \in Card
  BY StepsAlone, RequestTypes
<1>2. Failure(t) \in {"96", "error"}
  BY FailureCode
<1>3. \A r : Answer(t, r) => reply'[t] = r /\ pc'[t] = "done"
  BY DEF Answer, TypeOK
<1>4. \A r, s : /\ Committed(t, r) => reply'[t] \in {r, "96", "error"} /\ pc'[t] = "done"
                /\ Continue(t, s) => reply'[t] = reply[t] /\ pc'[t] = s
  BY <1>2, <1>3 DEF Committed, Continue, TypeOK
<1>5. reply[t] = "none"
  BY <1>1 DEF StepOK, Alone
<1>6. balance[CardOf(t)] \in Int /\ req[t].amount \in Int
  BY <1>1, RequestTypes DEF TypeOK
<1>7. CASE Debit(t)
  <2>1. Effect(t) = 0 - req[t].amount /\ req[t].amount > 0 /\ pc[t] # "reread"
    BY <1>1, <1>7 DEF Debit, StepOK, Effect, Approve
  <2>2. balance'[CardOf(t)] = balance[CardOf(t)] - req[t].amount /\ opening' = opening
        /\ status[CardOf(t)] # "none"
    BY <1>1, <1>7 DEF Debit, TypeOK, Debitable, RowOf
  <2>3. pc'[t] = "done" /\ reply'[t] \in {"00", "96", "error"}
    BY <1>4, <1>7 DEF Debit
  <2> QED
    BY <1>6, <2>1, <2>2, <2>3 DEF TakesEffect
<1>8. CASE Credit(t)
  <2>1. Effect(t) = req[t].amount /\ req[t].amount > 0 /\ pc[t] # "reread"
    BY <1>1, <1>8 DEF Credit, Creditable, StepOK, Effect, Approve
  <2>2. balance'[CardOf(t)] = balance[CardOf(t)] + req[t].amount /\ opening' = opening
        /\ status[CardOf(t)] # "none"
    BY <1>1, <1>8 DEF Credit, Creditable, TypeOK
  <2>3. \/ pc'[t] = "done" /\ reply'[t] \in {"00", "96", "error"}
        \/ pc'[t] = "reread" /\ reply'[t] = "none"
    BY <1>3, <1>4, <1>5, <1>8 DEF Credit
  <2> QED
    BY <2>1, <2>2, <2>3 DEF TakesEffect
<1>9. CASE Reread(t)
  <2>1. req[t].kind \in {"reversal", "topup"} /\ pc[t] = "reread" /\ balance' = balance
        /\ opening' = opening
    BY <1>1, <1>9 DEF Reread, StepOK, rowVars
  <2>2. pc'[t] = "done" /\ reply'[t] \in {"ok", "96", "error"}
    BY <1>4, <1>9 DEF Reread
  <2> QED
    BY <2>1, <2>2 DEF Confirms
<1>10. CASE DatabaseFails(t)
  BY <1>2, <1>3, <1>10 DEF DatabaseFails, Confirms, HasNoEffect, rowVars
<1>11. pc[t] \notin {"read", "write", "delete", "insert"}
  BY <1>1 DEF StepOK, Priced, Approve
<1>12. CASE \/ RejectAmount(t) \/ RejectZero(t) \/ LookupCard(t) \/ Decline(t) \/ FindCard(t)
            \/ CreditRefused(t)
  <2>1. balance' = balance /\ opening' = opening /\ pc[t] \in {"start", "debit", "credit"}
    BY <1>12 DEF RejectAmount, RejectZero, LookupCard, Decline, FindCard, CreditRefused, rowVars
  <2>2. DeclineCode(snap[t]) \notin {"00", "ok"}
    BY DEF DeclineCode
  <2>3. pc'[t] # "reread" /\ reply'[t] \notin {"00", "ok"}
    BY <1>2, <1>3, <1>4, <1>5, <1>12, <2>2
    DEF RejectAmount, RejectZero, LookupCard, Decline, FindCard, CreditRefused
  <2> QED
    BY <2>1, <2>3 DEF HasNoEffect
<1> QED
  BY <1>7, <1>8, <1>9, <1>10, <1>11, <1>12
  DEF Step, ReadCard, WriteCard, SoftDeleteCard, InsertCard, InsertRefused

\* A step of the administrator's other operations overwrites the balance,
\* makes the row, or leaves the balance alone.
LEMMA OtherShapes ==
    ASSUME LInv, NEW t \in Txn, Step(t), req[t].kind \notin Priced
    PROVE  \/ req[t].kind = "update" /\ pc'[t] = "done"
           \/ /\ status[CardOf(t)] = "none"
              /\ balance'[CardOf(t)] = opening'[CardOf(t)]
           \/ balance' = balance /\ opening' = opening
<1> USE DEF LInv
<1>1. Alone(t) /\ StepOK(t) /\ CardOf(t) \in Card
  BY StepsAlone, RequestTypes
<1>2. pc[t] \notin {"start", "debit", "credit", "reread"}
  BY <1>1 DEF StepOK, Priced, Approve
<1>3. CASE WriteCard(t)
  <2>1. req[t].kind = "update"
    BY <1>1, <1>3 DEF WriteCard, StepOK
  <2>2. pc'[t] = "done"
    BY <1>3 DEF WriteCard, Committed, Answer, TypeOK
  <2> QED
    BY <2>1, <2>2
<1>4. CASE InsertCard(t)
  BY <1>1, <1>4 DEF InsertCard, TypeOK
<1>5. CASE ReadCard(t) \/ SoftDeleteCard(t) \/ InsertRefused(t) \/ DatabaseFails(t)
  BY <1>5 DEF ReadCard, SoftDeleteCard, InsertRefused, DatabaseFails, rowVars
<1> QED
  BY <1>2, <1>3, <1>4, <1>5
  DEF Step, RejectAmount, RejectZero, LookupCard, Debit, Decline, FindCard, Credit,
      CreditRefused, Reread

\* What a step of one operation leaves alone: the sums over the operations,
\* and, on all cards but its own, the balances, the answers and the rows.
LEMMA OtherCardsAlone ==
    ASSUME LInv, NEW t \in Txn, Step(t)
    PROVE  /\ Effects' = Effects
           /\ \A c \in Card : \A ks : On(c, ks)' = On(c, ks)
           /\ \A c \in Card : c # CardOf(t) =>
                 /\ balance'[c] = balance[c] /\ opening'[c] = opening[c]
                 /\ Confirmed(c)' = Confirmed(c) /\ Unclear(c)' = Unclear(c)
                 /\ Rereading(c)' = Rereading(c) /\ Overwritten(c)' = Overwritten(c)
<1> USE DEF LInv
<1>1. Alone(t) /\ StepOK(t) /\ CardOf(t) \in Card
  BY StepsAlone, RequestTypes
<1>2. Effects' = Effects
  BY <1>1 DEF Alone, Effects, Effect
<1>3. \A c \in Card : \A ks : On(c, ks)' = On(c, ks)
  BY <1>1 DEF Alone, On, CardOf
<1>4. ASSUME NEW c \in Card, c # CardOf(t)
      PROVE  balance'[c] = balance[c] /\ opening'[c] = opening[c]
  <2>1. balance'[c] = balance[c]
    BY <1>1, <1>4, BalanceShapes DEF Debits, Credits, Overwrites, Inserts, TypeOK
  <2>2. opening'[c] = opening[c]
    BY <1>1, <1>4
    DEF Step, RejectAmount, RejectZero, LookupCard, Debit, Decline, FindCard, Credit,
        CreditRefused, Reread, ReadCard, WriteCard, SoftDeleteCard, InsertCard, InsertRefused,
        DatabaseFails, rowVars, TypeOK
  <2> QED
    BY <2>1, <2>2
<1>5. ASSUME NEW c \in Card, c # CardOf(t)
      PROVE  /\ Confirmed(c)' = Confirmed(c) /\ Unclear(c)' = Unclear(c)
             /\ Rereading(c)' = Rereading(c) /\ Overwritten(c)' = Overwritten(c)
  <2>1. \A ks : \A u \in On(c, ks) : u \in Txn /\ u # t
    BY <1>5 DEF On
  <2>2. \A ks : \A u \in On(c, ks) : reply'[u] = reply[u] /\ pc'[u] = pc[u] /\ req'[u] = req[u]
    BY <1>1, <2>1 DEF Alone
  <2> QED
    BY <1>3, <2>2 DEF Confirmed, Unclear, Rereading, Overwritten
<1> QED
  BY <1>2, <1>3, <1>4, <1>5

\* On its own card a priced operation moves between the answered ones and
\* those without a clear answer.
LEMMA OwnCard ==
    ASSUME LInv, NEW t \in Txn, Step(t), req[t].kind \in Priced,
           NEW c \in Card, c = CardOf(t)
    PROVE  /\ t \in On(c, Priced) /\ t \notin Confirmed(c) /\ Overwritten(c)' = Overwritten(c)
           /\ Confirmed(c)' = IF reply'[t] \in {"00", "ok"} THEN Confirmed(c) \cup {t} ELSE Confirmed(c)
           /\ \A u \in Txn : u # t => /\ u \in Unclear(c)' <=> u \in Unclear(c)
                                      /\ u \in Rereading(c)' <=> u \in Rereading(c)
           /\ t \in Unclear(c) <=> pc[t] = "reread" /\ req[t].amount > 0
           /\ t \in Unclear(c)' <=> /\ req[t].amount > 0
                                    /\ reply'[t] \in {"96", "error"} \/ pc'[t] = "reread"
           /\ t \in Rereading(c) <=> pc[t] = "reread"
           /\ t \in Rereading(c)' <=> pc'[t] = "reread"
<1> USE DEF LInv
<1>1. Alone(t) /\ StepOK(t) /\ pc[t] # "done" /\ reply[t] = "none"
  BY StepsAlone, RequestTypes DEF Alone, StepOK
<1>2. \A ks : On(c, ks)' = On(c, ks)
  BY <1>1, OtherCardsAlone
<1>3. t \in On(c, Priced) /\ t \notin On(c, {"update"}) /\ \A ks : On(c, ks) \subseteq Txn
  BY DEF On, Priced, Approve
<1>4. \A u \in Txn : u # t => reply'[u] = reply[u] /\ pc'[u] = pc[u]
  BY <1>1 DEF Alone
<1>5. req' = req
  BY <1>1 DEF Alone
<1>6. Overwritten(c)' = Overwritten(c)
  BY <1>2, <1>3, <1>4, <1>5 DEF Overwritten
<1>7. t \notin Confirmed(c) /\ Confirmed(c)' = IF reply'[t] \in {"00", "ok"} THEN Confirmed(c) \cup {t} ELSE Confirmed(c)
  BY <1>1, <1>2, <1>3, <1>4 DEF Confirmed
<1>8. \A u \in Txn : u # t => /\ u \in Unclear(c)' <=> u \in Unclear(c)
                              /\ u \in Rereading(c)' <=> u \in Rereading(c)
  BY <1>2, <1>3, <1>4, <1>5 DEF Unclear, Rereading
<1>9. /\ t \in Unclear(c) <=> pc[t] = "reread" /\ req[t].amount > 0
      /\ t \in Unclear(c)' <=> /\ req[t].amount > 0
                               /\ reply'[t] \in {"96", "error"} \/ pc'[t] = "reread"
      /\ t \in Rereading(c) <=> pc[t] = "reread"
      /\ t \in Rereading(c)' <=> pc'[t] = "reread"
  BY <1>1, <1>2, <1>3, <1>5 DEF Unclear, Rereading
<1> QED
  BY <1>3, <1>6, <1>7, <1>8, <1>9

\* A step on a card keeps its balance explained by the answers.
LEMMA ExplainedStep ==
    ASSUME LInv, NEW t \in Txn, Step(t), ConfirmedInRows, AnswersExplain, NEW c \in Card
    PROVE  /\ IsFiniteSet(Confirmed(c)')
           /\ ~Overwritten(c)' => \E ts \in SUBSET Unclear(c)' : Explains(c, ts)'
<1> USE DEF LInv
<1>1. Effects' = Effects /\ StepOK(t) /\ Alone(t) /\ TypeOK
  BY OtherCardsAlone, StepsAlone
<1>2. \A ts : Total(ts)' = Total(ts)
  BY <1>1 DEF Total
<1>3. balance[c] \in Int /\ opening[c] \in Int /\ Effect(t) \in Int
  BY EffectTypes DEF TypeOK
<1>4. IsFiniteSet(Confirmed(c)) /\ Confirmed(c) \in SUBSET Txn /\ Unclear(c) \in SUBSET Txn
  BY DEF AnswersExplain, Confirmed, Unclear, On
<1>5. Total(Confirmed(c)) \in Int
  BY <1>4, TotalInt
<1>6. CASE c # CardOf(t)
  <2>1. /\ balance'[c] = balance[c] /\ opening'[c] = opening[c]
        /\ Confirmed(c)' = Confirmed(c) /\ Unclear(c)' = Unclear(c)
        /\ Rereading(c)' = Rereading(c) /\ Overwritten(c)' = Overwritten(c)
    BY <1>6, OtherCardsAlone
  <2>2. \A ts : Explains(c, ts)' <=> Explains(c, ts)
    BY <1>1, <2>1 DEF Explains, Total
  <2> QED
    BY <1>4, <2>1, <2>2 DEF AnswersExplain
<1>7. CASE c = CardOf(t) /\ req[t].kind \in Priced
  <2> DEFINE K == Confirmed(c)
  <2>1. /\ t \in Txn /\ t \notin K /\ Overwritten(c)' = Overwritten(c)
        /\ Confirmed(c)' = IF reply'[t] \in {"00", "ok"} THEN K \cup {t} ELSE K
    BY <1>7, OwnCard
  <2>2. /\ \A u \in Txn : u # t => /\ u \in Unclear(c)' <=> u \in Unclear(c)
                                   /\ u \in Rereading(c)' <=> u \in Rereading(c)
        /\ t \in Unclear(c) <=> pc[t] = "reread" /\ req[t].amount > 0
        /\ t \in Unclear(c)' <=> /\ req[t].amount > 0
                                 /\ reply'[t] \in {"96", "error"} \/ pc'[t] = "reread"
        /\ t \in Rereading(c) <=> pc[t] = "reread"
        /\ t \in Rereading(c)' <=> pc'[t] = "reread"
    BY <1>7, OwnCard
  <2>3. Rereading(c)' \subseteq Txn /\ Rereading(c) \subseteq Txn /\ Unclear(c)' \subseteq Txn
    BY DEF Rereading, Unclear, On
  <2>4. IsFiniteSet(Confirmed(c)')
    BY <1>4, <2>1, FS_AddElement
  <2>5. Total(K \cup {t}) = Total(K) + Effect(t)
    BY <1>4, <2>1, TotalAdd
  <2> SUFFICES ASSUME ~Overwritten(c)
               PROVE  \E ts \in SUBSET Unclear(c)' : Explains(c, ts)'
    BY <2>1, <2>4
  <2>6. PICK ts \in SUBSET Unclear(c) : Explains(c, ts)
    BY DEF AnswersExplain
  <2>7. IsFiniteSet(ts) /\ Rereading(c) \subseteq ts /\ ts \in SUBSET Txn
        /\ balance[c] = opening[c] + Total(K) + Total(ts) /\ Total(ts) \in Int
    BY <1>4, <2>6, TotalInt DEF Explains
  <2>8. TakesEffect(t) \/ Confirms(t) \/ HasNoEffect(t)
    BY <1>7, PricedShapes
  <2> HIDE DEF K
  <2>9. CASE HasNoEffect(t)
    <3>1. t \notin ts /\ Confirmed(c)' = K /\ balance'[c] = balance[c] /\ opening'[c] = opening[c]
      BY <2>1, <2>2, <2>6, <2>9 DEF HasNoEffect
    <3>2. ts \subseteq Unclear(c)' /\ Rereading(c)' \subseteq ts
      BY <2>2, <2>3, <2>7, <2>6, <2>9, <3>1 DEF HasNoEffect
    <3> QED
      BY <1>2, <2>7, <3>1, <3>2 DEF Explains
  <2>10. CASE TakesEffect(t)
    <3>1. t \notin ts /\ opening'[c] = opening[c] /\ balance'[c] = balance[c] + Effect(t)
      BY <1>7, <2>2, <2>6, <2>10 DEF TakesEffect
    <3>2. CASE reply'[t] = "00"
      <4>1. Confirmed(c)' = K \cup {t} /\ pc'[t] = "done"
        BY <2>1, <2>10, <3>2 DEF TakesEffect
      <4>2. ts \subseteq Unclear(c)' /\ Rereading(c)' \subseteq ts
        BY <2>2, <2>3, <2>6, <2>7, <3>1, <4>1
      <4>3. balance'[c] = opening'[c] + Total(K \cup {t}) + Total(ts)
        BY <1>3, <1>5, <2>5, <2>7, <3>1 DEF K
      <4> QED
        BY <1>2, <2>7, <4>1, <4>2, <4>3 DEF Explains
    <3>3. CASE reply'[t] # "00"
      <4>1. Confirmed(c)' = K /\ t \in Unclear(c)'
        BY <2>1, <2>2, <2>10, <3>3 DEF TakesEffect
      <4>2. ts \cup {t} \subseteq Unclear(c)' /\ Rereading(c)' \subseteq ts \cup {t}
        BY <2>2, <2>3, <2>6, <2>7, <3>1, <4>1
      <4>3. IsFiniteSet(ts \cup {t}) /\ Total(ts \cup {t}) = Total(ts) + Effect(t)
        BY <2>7, <3>1, TotalAdd, FS_AddElement
      <4>4. balance'[c] = opening'[c] + Total(K) + Total(ts \cup {t})
        BY <1>3, <1>5, <2>7, <3>1, <4>3 DEF K
      <4> QED
        BY <1>2, <4>1, <4>2, <4>3, <4>4 DEF Explains
    <3> QED
      BY <3>2, <3>3
  <2>11. CASE Confirms(t)
    <3>1. t \in ts /\ balance'[c] = balance[c] /\ opening'[c] = opening[c] /\ pc'[t] = "done"
          /\ req[t].amount > 0
      BY <2>2, <2>6, <2>7, <2>11 DEF Confirms
    <3>2. CASE reply'[t] = "ok"
      <4>1. Confirmed(c)' = K \cup {t}
        BY <2>1, <3>2
      <4>2. ts \ {t} \subseteq Unclear(c)' /\ Rereading(c)' \subseteq ts \ {t}
        BY <2>2, <2>3, <2>6, <2>7, <3>1
      <4>3. IsFiniteSet(ts \ {t}) /\ ts \ {t} \in SUBSET Txn /\ t \notin ts \ {t}
            /\ (ts \ {t}) \cup {t} = ts
        BY <2>7, <3>1, FS_RemoveElement
      <4>4. Total(ts) = Total(ts \ {t}) + Effect(t) /\ Total(ts \ {t}) \in Int
        BY <1>1, <4>3, TotalAdd, TotalInt
      <4>5. balance'[c] = opening'[c] + Total(K \cup {t}) + Total(ts \ {t})
        BY <1>3, <1>5, <2>5, <2>7, <3>1, <4>4 DEF K
      <4> QED
        BY <1>2, <4>1, <4>2, <4>3, <4>5 DEF Explains
    <3>3. CASE reply'[t] # "ok"
      <4>1. Confirmed(c)' = K /\ t \in Unclear(c)'
        BY <2>1, <2>2, <2>11, <3>1, <3>3 DEF Confirms
      <4>2. ts \subseteq Unclear(c)' /\ Rereading(c)' \subseteq ts
        BY <2>2, <2>3, <2>6, <2>7, <3>1, <4>1
      <4> QED
        BY <1>2, <2>7, <3>1, <4>1, <4>2 DEF Explains
    <3> QED
      BY <3>2, <3>3
  <2> QED
    BY <2>8, <2>9, <2>10, <2>11
<1>8. CASE c = CardOf(t) /\ req[t].kind \notin Priced
  <2>1. /\ Confirmed(c)' = Confirmed(c) /\ Unclear(c)' = Unclear(c)
        /\ Rereading(c)' = Rereading(c)
    <3>1. \A u \in On(c, Priced) : u \in Txn /\ u # t
      BY <1>8 DEF On
    <3>2. \A u \in On(c, Priced) : reply'[u] = reply[u] /\ pc'[u] = pc[u] /\ req'[u] = req[u]
      BY <1>1, <3>1 DEF Alone
    <3> QED
      BY <3>2, OtherCardsAlone DEF Confirmed, Unclear, Rereading
  <2>2. Overwritten(c) => Overwritten(c)'
    BY <1>1, OtherCardsAlone DEF Overwritten, On, Alone
  <2>3. CASE req[t].kind = "update" /\ pc'[t] = "done"
    <3>1. t \in On(c, {"update"})' /\ pc'[t] = "done"
      BY <1>1, <1>8, <2>3 DEF On, Alone, CardOf
    <3> QED
      BY <1>4, <2>1, <3>1 DEF Overwritten
  <2>4. CASE balance' = balance /\ opening' = opening
    <3>1. \A ts : Explains(c, ts) => Explains(c, ts)'
      BY <1>2, <2>1, <2>4 DEF Explains
    <3> QED
      BY <1>4, <2>1, <2>2, <3>1 DEF AnswersExplain
  <2>5. CASE status[c] = "none" /\ balance'[c] = opening'[c]
    <3>1. Confirmed(c) = {} /\ Rereading(c) = {}
      BY <2>5 DEF ConfirmedInRows, Confirmed, Rereading, On
    <3>2. opening'[c] \in Int
      BY TypeStep DEF TypeOK
    <3>3. Explains(c, {})'
      BY <1>2, <2>1, <2>5, <3>1, <3>2, TotalEmpty, FS_EmptySet DEF Explains
    <3> QED
      BY <1>4, <2>1, <3>3
  <2> QED
    BY <1>8, <2>3, <2>4, <2>5, OtherShapes
<1> QED
  BY <1>6, <1>7, <1>8

\* What is confirmed on a card stays on a card with a row.
LEMMA ConfirmedStep ==
    ASSUME LInv, NEW t \in Txn, Step(t), ConfirmedInRows
    PROVE  ConfirmedInRows'
<1> USE DEF LInv
<1>1. Alone(t) /\ StepOK(t) /\ \A u \in Txn : CardOf(u) \in Card /\ CardOf(u)' = CardOf(u)
  BY StepsAlone, RequestTypes DEF Alone, CardOf
<1>2. \A c \in Card : status[c] # "none" => status'[c] # "none"
  BY RowsStay
<1>3. ASSUME NEW u \in Txn, u # t, req[u].kind \in Priced, status'[CardOf(u)] = "none"
      PROVE  reply'[u] \notin {"00", "ok"} /\ pc'[u] # "reread"
  BY <1>1, <1>2, <1>3 DEF Alone, ConfirmedInRows
<1>4. ASSUME req[t].kind \in Priced, status'[CardOf(t)] = "none"
      PROVE  reply'[t] \notin {"00", "ok"} /\ pc'[t] # "reread"
  <2>1. status[CardOf(t)] = "none"
    BY <1>1, <1>2, <1>4
  <2>2. pc[t] # "reread"
    BY <1>4, <2>1 DEF ConfirmedInRows
  <2> QED
    BY <1>4, <2>1, <2>2, PricedShapes DEF TakesEffect, Confirms, HasNoEffect
<1> QED
  BY <1>1, <1>3, <1>4 DEF ConfirmedInRows, Alone

\* A step of no operation changes no balance and no answer.
LEMMA ExplainedStays ==
    ASSUME ConfirmedInRows, AnswersExplain,
           UNCHANGED <<status, balance, opening, pc, req, reply>>
    PROVE  ConfirmedInRows' /\ AnswersExplain'
<1>1. Effects' = Effects /\ \A c \in Card : \A ks : On(c, ks)' = On(c, ks)
  BY DEF Effects, Effect, On, CardOf
<1>2. \A c \in Card : /\ Confirmed(c)' = Confirmed(c) /\ Unclear(c)' = Unclear(c)
                      /\ Rereading(c)' = Rereading(c) /\ Overwritten(c)' = Overwritten(c)
  BY <1>1 DEF Confirmed, Unclear, Rereading, Overwritten
<1>3. \A c \in Card : \A ts : Explains(c, ts)' <=> Explains(c, ts)
  BY <1>1, <1>2 DEF Explains, Total
<1>4. AnswersExplain'
  BY <1>2, <1>3 DEF AnswersExplain
<1>5. ConfirmedInRows'
  BY DEF ConfirmedInRows, CardOf
<1> QED
  BY <1>4, <1>5

\* Confirmed approvals, reversals and top-ups took effect once each, whatever
\* failed in between.
THEOREM LedgerAnswersExplain == Spec => []LedgerExplained
<1>1. Init => ConfirmedInRows /\ AnswersExplain
  <2> SUFFICES ASSUME Init PROVE ConfirmedInRows /\ AnswersExplain
    OBVIOUS
  <2>1. LInv
    BY LInvInit
  <2>2. \A t \in Txn : reply[t] = "none" /\ (pc[t] = "reread" => req[t].kind \in {"reversal", "topup"})
        /\ pc[t] = FirstStep(req[t].kind) /\ req[t].kind \in Kind
    BY <2>1, RequestTypes DEF Init, LInv, StepOK
  <2>3. \A t \in Txn : reply[t] = "none" /\ pc[t] # "reread"
    BY <2>2 DEF FirstStep, Kind, Approve
  <2>4. ASSUME NEW c \in Card
        PROVE  IsFiniteSet(Confirmed(c)) /\ \E ts \in SUBSET Unclear(c) : Explains(c, ts)
    <3>1. Confirmed(c) = {} /\ Rereading(c) = {} /\ opening[c] = balance[c] /\ balance[c] \in Int
      BY <2>1, <2>3 DEF Confirmed, Rereading, On, Init, LInv, TypeOK
    <3>2. Explains(c, {})
      BY <3>1, TotalEmpty, FS_EmptySet DEF Explains
    <3> QED
      BY <3>1, <3>2, FS_EmptySet
  <2> QED
    BY <2>3, <2>4 DEF ConfirmedInRows, AnswersExplain
<1>2. LInv /\ ConfirmedInRows /\ AnswersExplain /\ [Next]_vars =>
        ConfirmedInRows' /\ AnswersExplain'
  <2> SUFFICES ASSUME LInv, ConfirmedInRows, AnswersExplain, [Next]_vars
               PROVE  ConfirmedInRows' /\ AnswersExplain'
    OBVIOUS
  <2>1. ASSUME NEW t \in Txn, Step(t) PROVE ConfirmedInRows' /\ AnswersExplain'
    BY <2>1, ConfirmedStep, ExplainedStep DEF AnswersExplain
  <2>2. CASE \E c \in Card : CardExpires(c)
    BY <2>2, ExplainedStays DEF CardExpires
  <2>3. CASE UNCHANGED vars
    BY <2>3, ExplainedStays DEF vars, rowVars
  <2> QED
    BY <2>1, <2>2, <2>3 DEF Next
<1>3. AnswersExplain => LedgerExplained
  BY DEF AnswersExplain, Explains, LedgerExplained
<1> QED
  BY <1>1, <1>2, <1>3, LedgerInvariant, PTL DEF Spec

==============================================================================
