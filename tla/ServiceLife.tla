------------------------------ MODULE ServiceLife ------------------------------
(***************************************************************************)
(* The two programs from start to crash and start again                     *)
(* (cmd/acquirer/main.go, cmd/issuer/main.go): each waits for its databases, *)
(* runs every migration file again, with no record of what has run, and      *)
(* serves.  They may share a database or have one each, and start and die     *)
(* while the other one serves.  AuditTrail is what the issuer does with its   *)
(* audit channel while it serves; the rows live in the schema the files make. *)
(***************************************************************************)
EXTENDS AuditTrail

VARIABLES
    mode,   \* how the programs are configured
    stage,  \* how far each program has come
    step,   \* the database it waits for, or the file it runs
    db      \* the tables and indexes of each database

lifeVars == <<stage, step, db>>
allVars  == <<vars, mode, lifeVars>>

Program  == {"acquirer", "issuer"}
Mode     == {"shared", "split"}
Database == {"acquirer db", "issuer db"}
Stage    == {"down", "connect", "migrate", "switch", "serving"}

AuditTable == [acquirer |-> "acquirer_transactions", issuer |-> "issuer_transactions"]

\* DATABASE_URL of each program, and ISSUER_DATABASE_URL of the acquirer.
Home(p) == IF mode = "split" /\ p = "acquirer" THEN "acquirer db" ELSE "issuer db"
Reaches(p) ==
    IF mode = "split" /\ p = "acquirer" THEN <<"acquirer db", "issuer db">> ELSE <<Home(p)>>

------------------------------------------------------------------------------
\* migrations/: the acquirer of a shared database has the files of both.
Tables(p) ==
    {AuditTable[p]} \cup (IF p = "issuer" THEN {"cards"}
                          ELSE IF mode = "shared" THEN {"cards", AuditTable["issuer"]}
                          ELSE {})

RedundantIndex == [cards                 |-> "idx_cards_pan",
                   acquirer_transactions |-> "idx_acq_txn_stan",
                   issuer_transactions   |-> "idx_iss_txn_stan"]
KeptIndex      == [cards                 |-> "idx_cards_status",
                   acquirer_transactions |-> "idx_acq_txn_created_at",
                   issuer_transactions   |-> "idx_iss_txn_created_at"]

On(index, tables) == {index[t] : t \in tables}
File(on, creates, drops) == [on |-> on, creates |-> creates, drops |-> drops]

InitialSchema(p) == File({}, Tables(p) \cup On(RedundantIndex, Tables(p)), {})
Indexes(p)       == File(Tables(p), On(KeptIndex, Tables(p)), {})

\* A fault, not part of LifeNext: the third file does not know the index on cards.
ForgetfulDrop(p) == File({}, {}, On(RedundantIndex, {AuditTable[p]}))

DropRedundant(p) == File({}, {}, On(RedundantIndex, Tables(p)))

\* A fault, not part of LifeNext: the pattern finds the .down.sql files too.
GlobAll(p) ==
    <<File({}, {}, Tables(p)), InitialSchema(p),
      File({}, {}, On(KeptIndex, Tables(p))), Indexes(p),
      File(Tables(p), On(RedundantIndex, Tables(p)), {}), DropRedundant(p)>>

\* "*.up.sql", sorted by name.
Files(p) == <<InitialSchema(p), Indexes(p), DropRedundant(p)>>

\* CREATE ... IF NOT EXISTS and DROP ... IF EXISTS; a dropped table takes its
\* rows along.  The statements of a file are one transaction, since Exec
\* without arguments sends them as one simple query.
Apply(d, file) ==
    /\ file.on \subseteq db[d]
    /\ db' = [db EXCEPT ![d] = (@ \ file.drops) \cup file.creates]
    /\ rows' = IF d = Home("issuer") /\ AuditTable["issuer"] \in file.drops
               THEN [r \in Record |-> 0] ELSE rows
    /\ UNCHANGED <<pc, auditCh, holding, lost>>

LifeInit ==
    /\ Init
    /\ mode \in Mode
    /\ stage = [p \in Program |-> "down"]
    /\ step = [p \in Program |-> 1]
    /\ db = [d \in Database |-> {}]

Goto(p, where, k) ==
    stage' = [stage EXCEPT ![p] = where] /\ step' = [step EXCEPT ![p] = k]

------------------------------------------------------------------------------
\* A fault, not part of LifeNext: a file that fails is logged and passed over.
LenientMigrateFile(p) ==
    /\ stage[p] = "migrate" /\ step[p] <= Len(Files(p))
    /\ Apply(Home(p), Files(p)[step[p]]) \/ (MaxCrash > crashes /\ UNCHANGED <<vars, db>>)
    /\ Goto(p, "migrate", step[p] + 1)
    /\ UNCHANGED <<crashes, mode>>

\* The container's restart policy, or somebody, starts the program.
Launch(p) ==
    /\ stage[p] = "down" /\ Goto(p, "connect", 1)
    /\ UNCHANGED <<vars, mode, db>>

\* waitForPool: a ping is answered in time; on to the next database, if any.
Connect(p) ==
    /\ stage[p] = "connect"
    /\ IF step[p] < Len(Reaches(p))
       THEN Goto(p, "connect", step[p] + 1) ELSE Goto(p, "migrate", 1)
    /\ UNCHANGED <<vars, mode, db>>

MigrateFile(p) ==
    /\ stage[p] = "migrate" /\ step[p] <= Len(Files(p))
    /\ Apply(Home(p), Files(p)[step[p]])
    /\ Goto(p, "migrate", step[p] + 1)
    /\ UNCHANGED <<crashes, mode>>

\* The issuer listens at once; the acquirer starts its switch and goes on after
\* ten seconds at the latest, with a connection to the issuer or without.
Serve(p) ==
    /\ \/ stage[p] = "migrate" /\ step[p] > Len(Files(p)) /\ p = "issuer"
       \/ stage[p] = "switch"
    /\ Goto(p, "serving", 1)
    /\ UNCHANGED <<vars, mode, db>>

StartSwitch(p) ==
    /\ stage[p] = "migrate" /\ step[p] > Len(Files(p)) /\ p = "acquirer"
    /\ Goto(p, "switch", 1)
    /\ UNCHANGED <<vars, mode, db>>

\* log.Fatalf: no ping is answered in thirty seconds, or a file fails, which
\* may have been executed all the same.
StartFails(p) ==
    /\ crashes < MaxCrash /\ crashes' = crashes + 1
    /\ \/ stage[p] = "connect" /\ UNCHANGED <<pc, auditCh, holding, rows, lost, db>>
       \/ /\ stage[p] = "migrate" /\ step[p] <= Len(Files(p))
          /\ \/ Apply(Home(p), Files(p)[step[p]])
             \/ UNCHANGED <<pc, auditCh, holding, rows, lost, db>>
    /\ Goto(p, "down", 1)
    /\ UNCHANGED mode

\* A program that serves is killed.  The issuer takes its channel with it.
Killed(p) ==
    /\ stage[p] = "serving"
    /\ IF p = "issuer" THEN Crash
       ELSE crashes < MaxCrash /\ crashes' = crashes + 1
            /\ UNCHANGED <<pc, auditCh, holding, rows, lost>>
    /\ Goto(p, "down", 1)
    /\ UNCHANGED <<mode, db>>

Starts(p) == Launch(p) \/ Connect(p) \/ MigrateFile(p) \/ StartSwitch(p) \/ Serve(p)

------------------------------------------------------------------------------
\* The issuer handles transactions and writes its trail while it serves; an
\* insert needs the table.
HandleServing(r) == stage["issuer"] = "serving" /\ Handle(r) /\ UNCHANGED <<mode, lifeVars>>

WorkServing(w) ==
    /\ stage["issuer"] = "serving"
    /\ \/ Receive(w) \/ InsertFails(w)
       \/ Insert(w) /\ AuditTable["issuer"] \in db[Home("issuer")]
    /\ UNCHANGED <<mode, lifeVars>>

LifeNext ==
    \/ \E p \in Program : Starts(p) \/ StartFails(p) \/ Killed(p)
    \/ \E r \in Record : HandleServing(r)
    \/ \E w \in Worker : WorkServing(w)

\* Programs are started again, and handlers run on; nothing is assumed of the
\* workers, that is of the database.  Failed starts and crashes cease, as
\* MaxCrash bounds them.
LifeSpec ==
    /\ LifeInit /\ [][LifeNext]_allVars
    /\ \A p \in Program : WF_allVars(Starts(p))
    /\ \A r \in Record : WF_allVars(HandleServing(r))

\* The workers run as well, and every insert returns.
WorkersRun == \A w \in Worker : WF_allVars(WorkServing(w))

------------------------------------------------------------------------------
\* A program that serves finds the tables of its statements in its own
\* database, and the indexes that stay, whatever starts failed before and
\* whatever the other program does to a shared one.
ServingHasSchema ==
    \A p \in Program : stage[p] = "serving" =>
        Tables(p) \cup On(KeptIndex, Tables(p)) \subseteq db[Home(p)]

\* Every start creates the redundant indexes and drops them again.  Once nobody
\* is between the two, or died there, they are gone.
SchemaSettles ==
    (\A p \in Program : stage[p] \in {"switch", "serving"}) =>
        \A d \in Database : db[d] \cap On(RedundantIndex, DOMAIN RedundantIndex) = {}

\* No start, of either program, at any moment, costs a record.
RowsSurvive == [][\A r \in Record : rows'[r] >= rows[r]]_rows

\* No handler waits for the audit log: with the database stuck and the channel
\* full, every transaction is answered, unless the process dies under it.
LoggingNeverBlocks ==
    \A r \in Record : pc[r] = "handling" ~> pc[r] \in {"answered", "lost"}

\* If the workers run, what has been queued is stored in the end, except for
\* the records whose own insert failed or that a crash took.
QueuedIsStored ==
    WorkersRun => \A r \in Record : r \in Queued ~> rows[r] = 1 \/ r \in lost

==============================================================================
