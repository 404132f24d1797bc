------------------------------ MODULE Migrator ------------------------------
(***************************************************************************)
(* lib/migrations/migrate/: Migrator.ts with migration-list-resolver.ts    *)
(* and table-creator.ts.  Several processes (Runner) migrate one database. *)
(* An action is what a runner does between two awaited statements; the     *)
(* database runs each statement atomically, keeps a transaction's changes  *)
(* to itself until COMMIT, and makes an UPDATE wait for the transaction    *)
(* that has changed the same row.                                          *)
(*                                                                         *)
(* A migration is a number; the migration source lists them in ascending   *)
(* order.  What it does to the schema is either there, missing, or half    *)
(* done, the last only where no transaction surrounds it.                  *)
(***************************************************************************)
EXTENDS Order

CONSTANTS
  Runner,
  Mig,        \* the migrations of all the sources
  Source,     \* per runner, config.migrationSource.getMigrations
  Setting,    \* per migration, config.transaction: "default", "on" or "off"
  Disable,    \* config.disableTransactions
  Validate,   \* not config.disableMigrationsListValidation
  Fresh,      \* the migration tables do not exist yet
  Ops,        \* the operations runners start
  MaxCalls,   \* bound: operations per runner
  MaxFails,   \* bound: statements and migrations that fail
  MaxLosses,  \* bound: statements on the lock table that fail
  MaxCrashes  \* bound: processes that die

Unnamed == 0
Kinds   == {"latest", "up", "down", "rollback", "rollbackAll", "list", "unlock"}
Op      == [kind : Kinds, name : Mig \cup {Unnamed}]
NoOp    == [kind |-> "none", name |-> Unnamed]
Row     == [name : Mig, batch : Nat]

ASSUME MigratorAssumption ==
  /\ IsFiniteSet(Mig) /\ Mig \subseteq Nat \ {Unnamed}
  /\ Source \in [Runner -> SUBSET Mig]
  /\ Setting \in [Mig -> {"default", "on", "off"}]
  /\ {Disable, Validate, Fresh} \subseteq BOOLEAN
  /\ Ops \subseteq Op
  /\ {MaxCalls, MaxFails, MaxLosses, MaxCrashes} \subseteq Nat

VARIABLES
  tables,    \* which of the two migration tables exist
  lockRows,  \* is_locked of the rows of the lock table, as committed
  rows,      \* the rows of the migration table, by id, as committed
  schema,    \* what the migrations have done to the database
  held,      \* rows of the lock table changed by the runner's transaction
  pending,   \* rows inserted by the runner's transaction
  pc,        \* the statement the runner is about to issue
  op,        \* the operation it carries out
  todo,      \* migrations it has still to run
  wrapped,   \* one transaction surrounds the whole batch
  batch,     \* batchNo
  outcome,   \* of its last operation
  calls, fails, losses, crashes

db   == <<tables, lockRows, rows, schema>>
trx  == <<held, pending>>
task == <<op, todo, wrapped, batch>>
bounds == <<calls, fails, losses, crashes>>
vars == <<db, trx, task, pc, outcome, bounds>>

Ensuring == {"hasTable", "createTable", "hasLock", "createLock", "peek",
             "recheck", "insertLock"}
Listing  == {"list", "lastBatch"}
Critical == {"relist", "batch", "run", "record", "free", "cleanup"}
Unlocking == {"unlock", "unlockDelete", "unlockInsert"}

TypeOK ==
  /\ tables \in SUBSET {"migrations", "lock"}
  /\ lockRows \in Seq({0, 1})
  /\ rows \in Seq(Row)
  /\ schema \in [Mig -> {"absent", "partial", "present"}]
  /\ held \in [Runner -> SUBSET Nat]
  /\ pending \in [Runner -> Seq(Row)]
  /\ pc \in [Runner -> {"idle", "lock"} \cup Ensuring \cup Listing \cup Critical
                         \cup Unlocking]
  /\ op \in [Runner -> Op \cup {NoOp}]
  /\ todo \in [Runner -> Seq(Mig)]
  /\ wrapped \in [Runner -> BOOLEAN]
  /\ batch \in [Runner -> Nat]
  /\ outcome \in [Runner -> {"none", "done", "locked", "failed"}]
  /\ calls \in [Runner -> Nat]
  /\ {fails, losses, crashes} \subseteq Nat

Init ==
  /\ tables = IF Fresh THEN {} ELSE {"migrations", "lock"}
  /\ lockRows = IF Fresh THEN <<>> ELSE <<0>>
  /\ rows = <<>>
  /\ schema = [m \in Mig |-> "absent"]
  /\ held = [r \in Runner |-> {}]
  /\ pending = [r \in Runner |-> <<>>]
  /\ pc = [r \in Runner |-> "idle"]
  /\ op = [r \in Runner |-> NoOp]
  /\ todo = [r \in Runner |-> <<>>]
  /\ wrapped = [r \in Runner |-> FALSE]
  /\ batch = [r \in Runner |-> 0]
  /\ outcome = [r \in Runner |-> "none"]
  /\ calls = [r \in Runner |-> 0]
  /\ fails = 0 /\ losses = 0 /\ crashes = 0

-----------------------------------------------------------------------------
Goto(r, label) == pc' = [pc EXCEPT ![r] = label]

\* Variant: the transaction of a failed operation stays open.
FinishedNotRolledBack(r, result) ==
  /\ Goto(r, "idle")
  /\ outcome' = [outcome EXCEPT ![r] = result]
  /\ op' = [op EXCEPT ![r] = NoOp]
  /\ todo' = [todo EXCEPT ![r] = <<>>]
  /\ wrapped' = [wrapped EXCEPT ![r] = FALSE]
  /\ batch' = [batch EXCEPT ![r] = 0]
  /\ held' = IF result = "done" THEN [held EXCEPT ![r] = {}] ELSE held
  /\ pending' = [pending EXCEPT ![r] = <<>>]

\* r's operation settles; a transaction of its own that is open is over.
Finished(r, result) ==
  /\ Goto(r, "idle")
  /\ outcome' = [outcome EXCEPT ![r] = result]
  /\ op' = [op EXCEPT ![r] = NoOp]
  /\ todo' = [todo EXCEPT ![r] = <<>>]
  /\ wrapped' = [wrapped EXCEPT ![r] = FALSE]
  /\ batch' = [batch EXCEPT ![r] = 0]
  /\ held' = [held EXCEPT ![r] = {}]
  /\ pending' = [pending EXCEPT ![r] = <<>>]

Up(r) == op[r].kind \in {"latest", "up"}

\* Names in the migration table, as every other transaction sees it.
Completed == {rows[i].name : i \in DOMAIN rows}

FirstOf(s)   == IF s = <<>> THEN <<>> ELSE <<Head(s)>>
LastOf(s)    == FirstOf(Reverse(s))

NewMigrations(r)       == Source[r] \ Completed
CompletedMigrations(r) == Source[r] \cap Completed

\* The migration asked for by name cannot be run: up looks for it among the new
\* ones, down among the completed ones.
NotFound(r) ==
  /\ op[r].name # Unnamed
  /\ op[r].name \notin IF Up(r) THEN NewMigrations(r) ELSE CompletedMigrations(r)

\* validateMigrationList
Corrupt(r) == Validate /\ ~(Completed \subseteq Source[r])

\* The migrations an operation picks from what it listed.
Picked(r) ==
  IF op[r].name # Unnamed THEN <<op[r].name>> ELSE
  CASE op[r].kind = "latest"    -> Ascending(NewMigrations(r))
    [] op[r].kind = "up"        -> FirstOf(Ascending(NewMigrations(r)))
    [] op[r].kind = "down"      -> LastOf(Ascending(CompletedMigrations(r)))
    [] op[r].kind = "rollbackAll" -> Reverse(Ascending(CompletedMigrations(r)))
    [] OTHER                    -> <<>>

\* transactionForAll: a migration that opts out of its transaction opts the
\* whole batch out; rollback and down never wrap.
TransactionForAll(r, ms) ==
  Up(r) /\ ~Disable /\ \A m \in ToSet(ms) : Setting[m] # "off"

\* _useTransaction, for one migration outside a wrapping transaction.
UseTransaction(m) ==
  Setting[m] = "on" \/ (Setting[m] = "default" /\ ~Disable)

-----------------------------------------------------------------------------
\* An operation starts.  The operator unlocks only when no operation runs, as
\* the warning in _runBatch asks, and starts none before that is over.
Start(r) ==
  /\ pc[r] = "idle" /\ calls[r] < MaxCalls
  /\ \E o \in Ops :
       /\ \A q \in Runner : pc[q] \notin Unlocking
       /\ o.kind = "unlock" => \A q \in Runner : pc[q] = "idle"
       /\ op' = [op EXCEPT ![r] = o]
       /\ Goto(r, IF o.kind = "unlock" THEN "unlock" ELSE "hasTable")
  /\ calls' = [calls EXCEPT ![r] = @ + 1]
  /\ outcome' = [outcome EXCEPT ![r] = "none"]
  /\ UNCHANGED <<db, trx, todo, wrapped, batch, fails, losses, crashes>>

\* ensureTable: each table is looked for, and created in a later statement.
HasTable(r) ==
  /\ \/ pc[r] = "hasTable"
        /\ Goto(r, IF "migrations" \in tables THEN "hasLock" ELSE "createTable")
     \/ pc[r] = "hasLock"
        /\ Goto(r, IF "lock" \in tables THEN "peek" ELSE "createLock")
  /\ UNCHANGED <<db, trx, task, outcome, bounds>>

\* CREATE TABLE fails when another runner was faster.
CreateTable(r, table, then) ==
  /\ IF table \in tables
     THEN Finished(r, "failed") /\ UNCHANGED tables
     ELSE /\ tables' = tables \cup {table}
          /\ Goto(r, then)
          /\ UNCHANGED <<trx, task, outcome>>
  /\ UNCHANGED <<lockRows, rows, schema, bounds>>

CreateMigrationTable(r) ==
  pc[r] = "createTable" /\ CreateTable(r, "migrations", "hasLock")

CreateLockTable(r) == pc[r] = "createLock" /\ CreateTable(r, "lock", "peek")

\* The lock row is looked for twice before it is inserted.
SelectLock(r) ==
  /\ \/ pc[r] = "peek" /\ Goto(r, IF lockRows = <<>> THEN "recheck" ELSE "list")
     \/ pc[r] = "recheck" /\ Goto(r, IF lockRows = <<>> THEN "insertLock" ELSE "list")
  /\ UNCHANGED <<db, trx, task, outcome, bounds>>

InsertLock(r) ==
  /\ pc[r] = "insertLock"
  /\ lockRows' = Append(lockRows, 0)
  /\ Goto(r, "list")
  /\ UNCHANGED <<tables, rows, schema, trx, task, outcome, bounds>>

\* listCompleted answers: the list is validated and the migrations are picked.
List(r) ==
  /\ pc[r] = "list"
  /\ IF Corrupt(r) \/ NotFound(r)
     THEN Finished(r, "failed")
     ELSE IF op[r].kind = "list"
     THEN Finished(r, "done")
     ELSE /\ todo' = [todo EXCEPT ![r] = Picked(r)]
          /\ wrapped' = [wrapped EXCEPT ![r] = TransactionForAll(r, Picked(r))]
          /\ Goto(r, IF op[r].kind = "rollback" THEN "lastBatch" ELSE "lock")
          /\ UNCHANGED <<trx, op, batch, outcome>>
  /\ UNCHANGED <<db, bounds>>

\* max(batch), 0 without rows.
LatestBatch == IF rows = <<>> THEN 0 ELSE rows[CHOOSE i \in DOMAIN rows :
                 \A j \in DOMAIN rows : rows[j].batch <= rows[i].batch].batch

\* _getLastBatch asks the database again, latest id first.
LastBatch(r) ==
  /\ pc[r] = "lastBatch"
  /\ LET last == Reverse(Selected(rows, {i \in DOMAIN rows : rows[i].batch = LatestBatch}))
     IN todo' = [todo EXCEPT ![r] = [i \in DOMAIN last |-> last[i].name]]
  /\ Goto(r, "lock")
  /\ UNCHANGED <<db, trx, op, wrapped, batch, outcome, bounds>>

-----------------------------------------------------------------------------
Unlocked == {i \in DOMAIN lockRows : lockRows[i] = 0}
AllRows(value) == [i \in DOMAIN lockRows |-> value]

\* An UPDATE of the lock table waits for transactions that have changed it.
Blocked(r) == \E q \in Runner \ {r} : held[q] # {}

\* Variants: a LockError is cleaned up after like any error; the lock is always
\* taken in a transaction of its own.
LockErrorFrees(r) ==
  /\ pc[r] = "lock" /\ ~Blocked(r)
  /\ IF Cardinality(Unlocked) # 1
     THEN Goto(r, "cleanup") /\ UNCHANGED <<lockRows, held>>
     ELSE /\ IF wrapped[r]
             THEN held' = [held EXCEPT ![r] = Unlocked] /\ UNCHANGED lockRows
             ELSE lockRows' = AllRows(1) /\ UNCHANGED held
          /\ Goto(r, IF wrapped[r] THEN "relist" ELSE "batch")
  /\ UNCHANGED <<pending, task, outcome, tables, rows, schema, bounds>>

LockOutsideTrx(r) ==
  /\ pc[r] = "lock" /\ ~Blocked(r)
  /\ IF Cardinality(Unlocked) # 1
     THEN Finished(r, "locked") /\ UNCHANGED lockRows
     ELSE /\ lockRows' = AllRows(1)
          /\ Goto(r, IF wrapped[r] THEN "relist" ELSE "batch")
          /\ UNCHANGED <<trx, task, outcome>>
  /\ UNCHANGED <<tables, rows, schema, bounds>>

\* _lockMigrations: an UPDATE of the rows that are not locked must change
\* exactly one.  Without a wrapping transaction _getLock commits it at once.
Lock(r) ==
  /\ pc[r] = "lock" /\ ~Blocked(r)
  /\ IF Cardinality(Unlocked) # 1
     THEN Finished(r, "locked") /\ UNCHANGED lockRows
     ELSE /\ IF wrapped[r]
             THEN held' = [held EXCEPT ![r] = Unlocked] /\ UNCHANGED lockRows
             ELSE lockRows' = AllRows(1) /\ UNCHANGED held
          /\ Goto(r, IF wrapped[r] THEN "relist" ELSE "batch")
          /\ UNCHANGED <<pending, task, outcome>>
  /\ UNCHANGED <<tables, rows, schema, bounds>>

\* Any failure of the lock statement counts as a LockError, after which the
\* lock is not freed: also when its COMMIT was carried out and not answered.
LockFails(r) ==
  /\ pc[r] = "lock" /\ losses < MaxLosses
  /\ \/ UNCHANGED lockRows
     \/ ~wrapped[r] /\ ~Blocked(r) /\ Cardinality(Unlocked) = 1 /\ lockRows' = AllRows(1)
  /\ losses' = losses + 1
  /\ Finished(r, "locked")
  /\ UNCHANGED <<tables, rows, schema, calls, fails, crashes>>

\* Variant: the list read before the lock is trusted.
RelistTrusted(r) ==
  /\ pc[r] = "relist" /\ Goto(r, "batch")
  /\ UNCHANGED <<db, trx, task, outcome, bounds>>

\* In a wrapping transaction the list is read again under the lock.
Relist(r) ==
  /\ pc[r] = "relist"
  /\ todo' = [todo EXCEPT ![r] = Selected(@, {i \in DOMAIN @ : @[i] \notin Completed})]
  /\ Goto(r, "batch")
  /\ UNCHANGED <<db, trx, op, wrapped, batch, outcome, bounds>>

\* The first migration to run, or the lock.
Proceed(r, ms) == Goto(r, IF ms = <<>> THEN "free" ELSE "run")

\* Variant: a batch that is taken back gets the number before it.
BatchDown(r) == IF Up(r) THEN LatestBatch + 1 ELSE LatestBatch - 1

BatchNumber(r) == LatestBatch + IF Up(r) THEN 1 ELSE 0

\* Variant: an invalid migration ends the operation outside the try block.
ReadBatchOutsideTry(r) ==
  /\ pc[r] = "batch"
  /\ IF ToSet(todo[r]) \subseteq Source[r]
     THEN /\ batch' = [batch EXCEPT ![r] = BatchNumber(r)]
          /\ Proceed(r, todo[r])
          /\ UNCHANGED <<trx, op, todo, wrapped, outcome>>
     ELSE Finished(r, "failed")
  /\ UNCHANGED <<db, bounds>>

\* The structure of the migrations is validated, which fails for one that is
\* not in the source, and the latest batch number is read.
ReadBatch(r) ==
  /\ pc[r] = "batch"
  /\ IF ToSet(todo[r]) \subseteq Source[r]
     THEN /\ batch' = [batch EXCEPT ![r] = BatchNumber(r)]
          /\ Proceed(r, todo[r])
     ELSE Goto(r, "cleanup") /\ UNCHANGED batch
  /\ UNCHANGED <<db, trx, op, todo, wrapped, outcome, bounds>>

\* Variant: the migration is handed knex and not the wrapping transaction.
RunOutsideTrx(r) ==
  /\ pc[r] = "run"
  /\ schema' = [schema EXCEPT ![Head(todo[r])] = IF Up(r) THEN "present" ELSE "absent"]
  /\ Goto(r, "record")
  /\ UNCHANGED <<tables, lockRows, rows, trx, task, outcome, bounds>>

\* A migration runs: in the wrapping transaction, where nobody sees it before
\* COMMIT, in a transaction of its own, or bare.
Run(r) ==
  /\ pc[r] = "run"
  /\ schema' = IF wrapped[r] THEN schema
               ELSE [schema EXCEPT ![Head(todo[r])] =
                       IF Up(r) THEN "present" ELSE "absent"]
  /\ Goto(r, "record")
  /\ UNCHANGED <<tables, lockRows, rows, trx, task, outcome, bounds>>

\* The rows a DELETE by name leaves.
Without(m) == Selected(rows, {i \in DOMAIN rows : rows[i].name # m})

\* Variant: the row is inserted with knex and not the wrapping transaction.
RecordOutsideTrx(r) ==
  /\ pc[r] = "record"
  /\ LET m == Head(todo[r])
     IN rows' = IF Up(r) THEN Append(rows, [name |-> m, batch |-> batch[r]])
                ELSE Without(m)
  /\ todo' = [todo EXCEPT ![r] = Tail(@)]
  /\ Proceed(r, Tail(todo[r]))
  /\ UNCHANGED <<tables, lockRows, schema, trx, op, wrapped, batch, outcome, bounds>>

\* Its row is inserted or deleted, by a statement of its own.
Record(r) ==
  /\ pc[r] = "record"
  /\ LET m == Head(todo[r])
         row == [name |-> m, batch |-> batch[r]]
     IN IF wrapped[r]
        THEN pending' = [pending EXCEPT ![r] = Append(@, row)] /\ UNCHANGED rows
        ELSE /\ rows' = IF Up(r) THEN Append(rows, row)
                        ELSE Without(m)
             /\ UNCHANGED pending
  /\ todo' = [todo EXCEPT ![r] = Tail(@)]
  /\ Proceed(r, Tail(todo[r]))
  /\ UNCHANGED <<tables, lockRows, schema, held, op, wrapped, batch, outcome, bounds>>

\* _freeLock at the end of a batch without a transaction around it.
FreeLock(r) ==
  /\ pc[r] = "free" /\ ~wrapped[r] /\ ~Blocked(r)
  /\ lockRows' = AllRows(0)
  /\ Finished(r, "done")
  /\ UNCHANGED <<tables, rows, schema, bounds>>

\* _freeLock and COMMIT at the end of one with a transaction around it.
CommitBatch(r) ==
  /\ pc[r] = "free" /\ wrapped[r] /\ ~Blocked(r)
  /\ lockRows' = AllRows(0)
  /\ rows' = rows \o pending[r]
  /\ schema' = [m \in Mig |-> IF \E i \in DOMAIN pending[r] : pending[r][i].name = m
                              THEN "present" ELSE schema[m]]
  /\ Finished(r, "done")
  /\ UNCHANGED <<tables, bounds>>

\* The catch of _runBatch, without a transaction around the batch.
CleanUp(r) ==
  /\ pc[r] = "cleanup" /\ ~Blocked(r)
  /\ lockRows' = AllRows(0)
  /\ Finished(r, "failed")
  /\ UNCHANGED <<tables, rows, schema, bounds>>

\* The UPDATE of the catch fails, which is swallowed: the lock stays.
CleanUpFails(r) ==
  /\ pc[r] = "cleanup" /\ losses < MaxLosses
  /\ losses' = losses + 1
  /\ Finished(r, "failed")
  /\ UNCHANGED <<db, calls, fails, crashes>>

\* forceFreeMigrationsLock: all lock rows are deleted and one is inserted.
Unlock(r) ==
  /\ pc[r] = "unlock"
  /\ IF "lock" \in tables
     THEN Goto(r, "unlockDelete") /\ UNCHANGED <<trx, task, outcome>>
     ELSE Finished(r, "done")
  /\ UNCHANGED <<db, bounds>>

UnlockDelete(r) ==
  /\ pc[r] = "unlockDelete" /\ ~Blocked(r)
  /\ lockRows' = <<>>
  /\ Goto(r, "unlockInsert")
  /\ UNCHANGED <<tables, rows, schema, trx, task, outcome, bounds>>

UnlockInsert(r) ==
  /\ pc[r] = "unlockInsert"
  /\ lockRows' = Append(lockRows, 0)
  /\ Finished(r, "done")
  /\ UNCHANGED <<tables, rows, schema, bounds>>

-----------------------------------------------------------------------------
\* What is left of the migration r is interrupted in: half of it, perhaps,
\* where no transaction undoes it.
Interrupted(r) ==
  \/ UNCHANGED schema
  \/ /\ pc[r] = "run" /\ ~wrapped[r] /\ ~UseTransaction(Head(todo[r]))
     /\ schema' = [schema EXCEPT ![Head(todo[r])] = "partial"]

\* A statement or a migration fails.  A transaction around the batch rolls back
\* with everything in it, the lock included; without one the lock is freed.
\* (An unlock that fails has the effect of one whose process dies.)
Fail(r) ==
  /\ pc[r] \notin {"idle", "lock", "cleanup"} \cup Unlocking /\ fails < MaxFails
  /\ fails' = fails + 1
  /\ IF pc[r] \in Critical /\ ~wrapped[r]
     THEN Goto(r, "cleanup") /\ UNCHANGED <<trx, task, outcome>>
     ELSE Finished(r, "failed")
  /\ Interrupted(r)
  /\ UNCHANGED <<tables, lockRows, rows, calls, losses, crashes>>

\* The process dies: the server rolls its open transaction back.
Crash(r) ==
  /\ pc[r] # "idle" /\ crashes < MaxCrashes
  /\ crashes' = crashes + 1
  /\ Finished(r, "none")
  /\ Interrupted(r)
  /\ UNCHANGED <<tables, lockRows, rows, calls, fails, losses>>

Ensure(r) == \/ HasTable(r) \/ CreateMigrationTable(r) \/ CreateLockTable(r)
             \/ SelectLock(r) \/ InsertLock(r)

RunBatch(r) == \/ Lock(r) \/ Relist(r) \/ ReadBatch(r) \/ Run(r) \/ Record(r)
               \/ FreeLock(r) \/ CommitBatch(r) \/ CleanUp(r)

ForceFree(r) == Unlock(r) \/ UnlockDelete(r) \/ UnlockInsert(r)

Step(r) == Ensure(r) \/ List(r) \/ LastBatch(r) \/ RunBatch(r) \/ ForceFree(r)

Fault(r) == LockFails(r) \/ CleanUpFails(r) \/ Fail(r) \/ Crash(r)

Next == \E r \in Runner : Start(r) \/ Step(r) \/ Fault(r)

Spec == Init /\ [][Next]_vars

-----------------------------------------------------------------------------
(* Properties *)

\* Migrations never run in two processes at once, whichever of them use a
\* transaction: what the lock table is for, over failures, crashes and unlocks.
MutualExclusion ==
  \A q, r \in Runner : pc[q] \in Critical /\ pc[r] \in Critical => q = r

\* Whatever races to create it, the lock has one row at most.
OneLockRow == Len(lockRows) <= 1

\* No migration is recorded, and so none has been run, a second time: the list
\* an operation works from was read before it got the lock.
RecordedOnce ==
  \A i, j \in DOMAIN rows : rows[i].name = rows[j].name => i = j

\* Record and schema disagree on no more migrations than were interrupted or
\* are between their two statements.
Disagreements ==
  {m \in Mig : schema[m] # IF m \in Completed THEN "present" ELSE "absent"}

RecordMatchesSchema ==
  Cardinality(Disagreements) <=
    fails + crashes + Cardinality({r \in Runner : pc[r] = "record" /\ ~wrapped[r]})

\* Where a transaction surrounds every batch, the runners implement atomic
\* deployments: migrations that others ran meanwhile are not run again, and a
\* batch that fails or dies leaves nothing, neither in the schema nor recorded.
Present == {m \in Mig : schema[m] = "present"}
Deployed == INSTANCE Deployments WITH log <- rows, applied <- Present
DeploysAtomically == Deployed!Spec

\* The lock is returned: without a runner that holds it it is free, unless a
\* process died or a statement on the lock table itself failed.
LockReturned ==
  1 \in ToSet(lockRows) =>
    \/ \E r \in Runner : pc[r] \in Critical /\ ~wrapped[r]
    \/ crashes + losses > 0

\* Runners with a transaction wait for each other and are never turned away
\* (#1962), unless the lock table was created with more rows than one.
NeverTurnedAway ==
  Len(lockRows) <= 1 => \A r \in Runner : outcome[r] # "locked" \/ losses > 0

-----------------------------------------------------------------------------
(* Liveness *)

\* Statements are answered and migrations settle.
FairSpec == Spec /\ \A r \in Runner : WF_vars(Step(r))

\* Every operation ends, also while others hold or wait for the lock.
OperationsEnd == \A r \in Runner : pc[r] # "idle" ~> pc[r] = "idle"
=============================================================================
