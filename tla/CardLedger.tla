------------------------------ MODULE CardLedger ------------------------------
(***************************************************************************)
(* The cards table and everything that changes a balance: the issuer's     *)
(* authorizations and reversals (internal/auth/engine.go), the             *)
(* administrator's create, update, delete and top-up                       *)
(* (internal/card/service.go), and the statements they run                 *)
(* (internal/store/postgres/card.go).                                      *)
(*                                                                         *)
(* A statement of PostgreSQL at READ COMMITTED reads a snapshot, waits for *)
(* the row, and checks its condition again on the newest version: a        *)
(* statement that reads and writes is two steps here.  Rows are never      *)
(* removed and PANs are unique, so one name serves for PAN and id.         *)
(***************************************************************************)
EXTENDS Integers, FiniteSets, FiniteSetsExt

CONSTANTS
    Card,        \* PANs
    Txn,         \* operations in progress at the issuer or the administrator's API
    Kinds,       \* which operations a behaviour contains
    Amounts,     \* bound: amounts asked for
    Balances,    \* bound: balances an administrator writes; may be negative
    Limit        \* available_balance is a BIGINT: the largest one

Approve   == {"purchase"}   \* any MTI 01xx or 02xx: the processing code is not looked at
Kind      == Approve \cup {"reversal", "topup", "update", "delete", "create"}
Malformed == -1                        \* an amount field that is not twelve digits

ASSUME LedgerAssumption ==
    /\ Kinds \subseteq Kind
    /\ Amounts \subseteq Nat /\ Balances \subseteq Int
    /\ Limit \in Nat /\ \A b \in Balances : b <= Limit

VARIABLES
    status,   \* card_status, "none" where there is no row
    balance,  \* available_balance
    expiry,   \* expiry_date against today's date
    opening,  \* balance each row began with, kept for the properties
    pc,       \* where each operation is
    req,      \* what each operation asks for
    snap,     \* the row each operation read
    reply,    \* response code, or result, each operation gave
    reported  \* BalanceBefore and BalanceAfter of each approval

rowVars  == <<status, balance, expiry, opening>>
vars     == <<rowVars, pc, req, snap, reply, reported>>

Status  == {"none", "ACTIVE", "BLOCKED", "DELETED"}
Expiry  == {"valid", "past"}
Row     == [status : Status, balance : Int, expiry : Expiry]
Priced  == Approve \cup {"reversal", "topup"}
Request == [kind : Kinds \cap Priced, card : Card, amount : Amounts \cup {Malformed}]
           \cup [kind : Kinds \ Priced, card : Card, amount : {0}]
Pc      == {"start", "debit", "credit", "reread", "read", "write", "delete",
            "insert", "done"}
Code    == {"none", "00", "05", "14", "51", "54", "78", "96", "ok", "error"}

RowOf(c)  == [status |-> status[c], balance |-> balance[c], expiry |-> expiry[c]]
CardOf(t) == req[t].card

\* The first step of each operation.
FirstStep(kind) ==
    CASE kind \in Approve \cup {"reversal"} -> "start"
      [] kind = "topup"  -> "credit"
      [] kind = "update" -> "read"
      [] kind = "delete" -> "delete"
      [] kind = "create" -> "insert"

\* How an operation says that the database failed it.
Failure(t) == IF req[t].kind \in Approve \cup {"reversal"} THEN "96" ELSE "error"

\* The operation ends with a code.
Answer(t, code) ==
    /\ reply' = [reply EXCEPT ![t] = code]
    /\ pc' = [pc EXCEPT ![t] = "done"]

Continue(t, step) == pc' = [pc EXCEPT ![t] = step] /\ UNCHANGED reply

\* A statement has taken effect; its answer may be lost when the context of
\* the operation is done or the connection breaks.
Committed(t, code) == \E r \in {code, Failure(t)} : Answer(t, r)

NoRow == [status |-> "none", balance |-> 0, expiry |-> "past"]

Init ==
    /\ status \in [Card -> Status]
    /\ balance \in [Card -> Balances \cup {0}]
    /\ expiry \in [Card -> Expiry]
    /\ \A c \in Card : status[c] = "none" => RowOf(c) = NoRow
    /\ opening = balance
    /\ req \in [Txn -> Request]
    /\ pc = [t \in Txn |-> FirstStep(req[t].kind)]
    /\ snap = [t \in Txn |-> NoRow]
    /\ reply = [t \in Txn |-> "none"]
    /\ reported = [t \in Txn |-> [before |-> 0, after |-> 0]]

\* The condition of the UPDATE that debits.
Debitable(row, amount) == row.balance >= amount /\ row.status = "ACTIVE"

------------------------------------------------------------------------------
\* Faults that a change to the code could introduce; each breaks a property
\* below.  None is part of Next.

\* The new balance is computed from the row of the lookup.
StaleDebit(t) ==
    LET c == CardOf(t)
        amount == req[t].amount
    IN
    /\ pc[t] = "debit"
    /\ Debitable(snap[t], amount) /\ Debitable(RowOf(c), amount)
    /\ balance' = [balance EXCEPT ![c] = snap[t].balance - amount]
    /\ reported' = [reported EXCEPT ![t] = [before |-> snap[t].balance,
                                            after |-> snap[t].balance - amount]]
    /\ Committed(t, "00")
    /\ UNCHANGED <<status, expiry, opening, req, snap>>

\* The condition is checked on the row of the lookup only.
UncheckedDebit(t) ==
    LET c == CardOf(t)
        amount == req[t].amount
    IN
    /\ pc[t] = "debit" /\ Debitable(snap[t], amount)
    /\ balance' = [balance EXCEPT ![c] = @ - amount]
    /\ reported' = [reported EXCEPT ![t] = [before |-> balance[c],
                                            after |-> balance[c] - amount]]
    /\ Committed(t, "00")
    /\ UNCHANGED <<status, expiry, opening, req, snap>>

------------------------------------------------------------------------------
\* Authorize and handleReversal: the checks before the database.

RejectAmount(t) ==
    /\ pc[t] = "start" /\ req[t].amount = Malformed
    /\ Answer(t, "05")
    /\ UNCHANGED <<rowVars, req, snap, reported>>

\* AuthorizeAndDebit refuses an amount of zero with an error.
RejectZero(t) ==
    /\ pc[t] = "start" /\ req[t].kind \in Approve /\ req[t].amount = 0
    /\ Answer(t, "96")
    /\ UNCHANGED <<rowVars, req, snap, reported>>

\* The CTE card_lookup, on the statement's snapshot.
LookupCard(t) ==
    /\ pc[t] = "start" /\ req[t].kind \in Approve /\ req[t].amount > 0
    /\ snap' = [snap EXCEPT ![t] = RowOf(CardOf(t))]
    /\ IF status[CardOf(t)] = "none" THEN Answer(t, "14") ELSE Continue(t, "debit")
    /\ UNCHANGED <<rowVars, req, reported>>

\* ValidateCardBasic on the row of the lookup, then the default.
DeclineCode(row) ==
    IF row.status # "ACTIVE" THEN "78"
    ELSE IF row.expiry = "past" THEN "54" ELSE "51"

Debit(t) ==
    LET c == CardOf(t)
        amount == req[t].amount
    IN
    /\ pc[t] = "debit"
    /\ Debitable(snap[t], amount) /\ Debitable(RowOf(c), amount)
    /\ balance' = [balance EXCEPT ![c] = @ - amount]
    /\ reported' = [reported EXCEPT ![t] = [before |-> balance[c],
                                            after |-> balance[c] - amount]]
    /\ Committed(t, "00")
    /\ UNCHANGED <<status, expiry, opening, req, snap>>

Decline(t) ==
    /\ pc[t] = "debit"
    /\ ~(Debitable(snap[t], req[t].amount) /\ Debitable(RowOf(CardOf(t)), req[t].amount))
    /\ Answer(t, DeclineCode(snap[t]))
    /\ UNCHANGED <<rowVars, req, snap, reported>>

\* handleReversal: GetCardByPAN, then CreditBalance.  It looks at neither the
\* status of the card nor the transaction it reverses.
FindCard(t) ==
    /\ pc[t] = "start" /\ req[t].kind = "reversal" /\ req[t].amount # Malformed
    /\ IF status[CardOf(t)] = "none" THEN Answer(t, "96") ELSE Continue(t, "credit")
    /\ UNCHANGED <<rowVars, req, snap, reported>>

------------------------------------------------------------------------------
\* CreditBalance, for a reversal and for TopUp.

Creditable(t) ==
    /\ req[t].amount > 0 /\ status[CardOf(t)] # "none"
    /\ balance[CardOf(t)] + req[t].amount <= Limit

Credit(t) ==
    /\ pc[t] = "credit" /\ Creditable(t)
    /\ balance' = [balance EXCEPT ![CardOf(t)] = @ + req[t].amount]
    /\ IF req[t].kind = "reversal"
       THEN Committed(t, "00")
       ELSE Answer(t, "error") \/ Continue(t, "reread")
    /\ UNCHANGED <<status, expiry, opening, req, snap, reported>>

CreditRefused(t) ==
    /\ pc[t] = "credit" /\ ~Creditable(t)
    /\ Answer(t, Failure(t))
    /\ UNCHANGED <<rowVars, req, snap, reported>>

\* TopUp answers with the card it reads afterwards.
Reread(t) ==
    /\ pc[t] = "reread"
    /\ Committed(t, "ok")
    /\ UNCHANGED <<rowVars, req, snap, reported>>

------------------------------------------------------------------------------
\* UpdateCard, DeleteCard, CreateCard.

ReadCard(t) ==
    /\ pc[t] = "read"
    /\ snap' = [snap EXCEPT ![t] = RowOf(CardOf(t))]
    /\ IF status[CardOf(t)] = "none" THEN Answer(t, "error") ELSE Continue(t, "write")
    /\ UNCHANGED <<rowVars, req, reported>>

\* All columns are written: what the request gives, and for the rest what was read.
WriteCard(t) ==
    LET c == CardOf(t) IN
    /\ pc[t] = "write"
    /\ \E s \in (Status \ {"none"}) \cup {snap[t].status} : status' = [status EXCEPT ![c] = s]
    /\ \E b \in Balances \cup {snap[t].balance} : balance' = [balance EXCEPT ![c] = b]
    /\ \E e \in Expiry : expiry' = [expiry EXCEPT ![c] = e]
    /\ Committed(t, "ok")
    /\ UNCHANGED <<opening, req, snap, reported>>

SoftDeleteCard(t) ==
    LET c == CardOf(t) IN
    /\ pc[t] = "delete"
    /\ IF status[c] = "none"
       THEN Answer(t, "error") /\ UNCHANGED status
       ELSE Committed(t, "ok") /\ status' = [status EXCEPT ![c] = "DELETED"]
    /\ UNCHANGED <<balance, expiry, opening, req, snap, reported>>

\* A PAN that is taken, by a deleted card too, violates the UNIQUE constraint.
InsertCard(t) ==
    LET c == CardOf(t) IN
    /\ pc[t] = "insert" /\ status[c] = "none"
    /\ status' = [status EXCEPT ![c] = "ACTIVE"]
    /\ \E b \in Balances : /\ balance' = [balance EXCEPT ![c] = b]
                           /\ opening' = [opening EXCEPT ![c] = b]
    /\ \E e \in Expiry : expiry' = [expiry EXCEPT ![c] = e]
    /\ Committed(t, "ok")
    /\ UNCHANGED <<req, snap, reported>>

InsertRefused(t) ==
    /\ pc[t] = "insert" /\ status[CardOf(t)] # "none"
    /\ Answer(t, "error")
    /\ UNCHANGED <<rowVars, req, snap, reported>>

------------------------------------------------------------------------------
\* A statement fails without effect: no connection, context done, bad value.
DatabaseFails(t) ==
    /\ pc[t] # "done"
    /\ pc[t] = "start" => req[t].amount # Malformed
    /\ Answer(t, Failure(t))
    /\ UNCHANGED <<rowVars, req, snap, reported>>

\* A month ends.
CardExpires(c) ==
    /\ status[c] # "none" /\ expiry[c] = "valid"
    /\ expiry' = [expiry EXCEPT ![c] = "past"]
    /\ UNCHANGED <<status, balance, opening, pc, req, snap, reply, reported>>

Step(t) ==
    \/ RejectAmount(t) \/ RejectZero(t) \/ LookupCard(t) \/ Debit(t) \/ Decline(t)
    \/ FindCard(t) \/ Credit(t) \/ CreditRefused(t) \/ Reread(t)
    \/ ReadCard(t) \/ WriteCard(t) \/ SoftDeleteCard(t)
    \/ InsertCard(t) \/ InsertRefused(t) \/ DatabaseFails(t)

Next == (\E t \in Txn : Step(t)) \/ (\E c \in Card : CardExpires(c))

Spec == Init /\ [][Next]_vars

------------------------------------------------------------------------------
TypeOK ==
    /\ status \in [Card -> Status]
    /\ balance \in [Card -> {b \in Int : b <= Limit}]
    /\ expiry \in [Card -> Expiry]
    /\ opening \in [Card -> Int]
    /\ pc \in [Txn -> Pc]
    /\ req \in [Txn -> Request]
    /\ snap \in [Txn -> Row]
    /\ reply \in [Txn -> Code]
    /\ reported \in [Txn -> [before : Int, after : Int]]

\* What an operation does to the balance when it takes effect.
Effect(t) ==
    CASE req[t].kind \in Approve -> 0 - req[t].amount
      [] req[t].kind \in {"reversal", "topup"} -> req[t].amount
      [] OTHER -> 0

Effects == [t \in Txn |-> Effect(t)]

On(c, kinds) == {t \in Txn : CardOf(t) = c /\ req[t].kind \in kinds}

\* Operations whose caller was told that they took effect, and those whose
\* caller was told of a failure, or nothing yet, and that may have.
Confirmed(c) == {t \in On(c, Priced) : reply[t] \in {"00", "ok"}}
Unclear(c)   == {t \in On(c, Priced) : /\ req[t].amount > 0
                                       /\ reply[t] \in {"96", "error"} \/ pc[t] = "reread"}
Overwritten(c) == \E t \in On(c, {"update"}) : pc[t] = "done"

Total(ts) == SumFunctionOnSet(Effects, ts)

\* The balance is explained by the answers: approvals, reversals and top-ups
\* that were confirmed took effect once each, declines (05, 14, 51, 54, 78) and
\* operations without an answer not at all, and only a failure leaves it open.
LedgerExplained ==
    \A c \in Card : ~Overwritten(c) =>
        \E ts \in SUBSET Unclear(c) :
            balance[c] = opening[c] + Total(Confirmed(c)) + Total(ts)

\* Concurrent debits never overdraw a card: a negative balance was written as
\* such by an administrator.
NoOverdraft == \A c \in Card : balance[c] >= 0 \/ \E b \in Balances : b <= balance[c]

\* Nothing but authorizations has changed the balance.
DebitsOnly(c) ==
    /\ ~Overwritten(c)
    /\ \A t \in On(c, {"reversal", "topup"}) : pc[t] \in {"start", "credit"}

\* The balances that approvals report (and the audit trail stores) put the
\* approvals of a card that nothing else changes in one order.
ReportsOrdered ==
    \A c \in Card : DebitsOnly(c) =>
        \A t, u \in On(c, Approve) : t # u /\ reply[t] = "00" /\ reply[u] = "00" =>
            reported[t].after >= reported[u].before \/ reported[u].after >= reported[t].before

\* However an operation that blocks or deletes the card interleaves with an
\* authorization, nothing is debited from a card that is not active by then.
InactiveNeverDebited ==
    [][\A t \in Txn : pc[t] = "debit" /\ balance' # balance /\ pc'[t] = "done" =>
          status[CardOf(t)] = "ACTIVE"]_vars

------------------------------------------------------------------------------
\* What comments and documents claim of the code.

\* docs/TRANSACTION_SCENARIOS.md:356: a card with a past expiry date is
\* declined with 54.
ExpiredDeclined ==
    \A t \in Txn : req[t].kind \in Approve /\ reply[t] = "00" => snap[t].expiry = "valid"

\* docs/c4-container.md:100: the acquirer only reads the issuer's card data; an
\* update that gives no balance leaves it alone.
UpdateLeavesBalance ==
    [][\A t \in Txn : pc[t] = "write" /\ pc'[t] = "done" => balance' = balance]_vars

==============================================================================
