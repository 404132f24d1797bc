# knex in TLA+

Formal models of [knex](../src/README.md), checked with TLC and, where it matters most,
proved with TLAPS for every instance. Paths below are relative to `src/lib/`; line
numbers refer to the commit in `src/`.

## 1. The system

knex builds SQL, sends it through pooled connections, and offers transactions and
migrations on top. Most of its lines turn builders into text; what is hard to get right there
is which clause, binding or statement ends up where, and what compiling leaves behind. The
rest is concurrent:

| Part | State | Operations | Interacts with | Hard because |
|---|---|---|---|---|
| **Transactions** `execution/transaction.ts` | `_completed`, `outerTx`, `_lastChild`, the promise with `_resolver`/`_rejecter`, the connection, the 5 s timer of `rollback` | constructor, `begin`, `savepoint`, `commit`, `release`, `rollback`, `rollbackTo`, `query`, `_evaluateContainer`, `acquireConnection`, `makeTransactor`, `makeTxClient` | pool (`client.acquireConnection`, `releaseConnection`), driver (`_query`), the caller's container | children share the parent's connection and savepoint stack; transactors outlive their transaction; errors in `begin` are swallowed; timeouts race answers |
| **Client and pool** `client.ts` | `pool`, connection settings with an expiration checker | `initializePool`, `acquireConnection`, `releaseConnection`, `destroy`, `query`, `stream` | tarn, the drivers | bounded number of connections, acquire timeout, lost and disposed connections |
| **Runner** `execution/runner.ts`, `execution/internal/*` | `connection`, `connection.__knex__disposed` | `run`, `query`, `queryArray`, `stream`, `ensureConnection` | client, builder events, transactions (SQLite alterations) | query timeout with or without cancel, answers after the timeout, release in `finally` |
| **Migrator** `migrations/migrate/*` | database: migrations table, lock table; process: `config`, `_activeMigration` | `latest`, `up`, `down`, `rollback`, `forceFreeMigrationsLock`, `_runBatch`, `_waterfallBatch`, `ensureTable` | transactions, the database, other processes that migrate it | concurrent processes, lists read before the lock, crashes with the lock held, half of a batch done |
| **Knex context** `knex-builder/make-knex.ts` | `userParams`, `client.config.wrapIdentifier/postProcessResponse` | `transaction`, `transactionProvider`, `disableProcessing`, `enableProcessing`, `withUserParams` | client, migrator | one configuration shared by all copies of an instance |
| **MSSQL** `dialects/mssql` | `requestQueue` of the client | `_query`, `_enqueueRequest`, `_chomp`, `cancelQuery`; transactions by driver calls | tedious | one queue for all connections, popped from its end |
| **Dialect transactions** | as Transactions | overrides of `begin`, `query`, `savepoint`, `commit`, ... | drivers | implicit commits, no savepoints (Redshift), `finally` commits (Oracle) |
| **SQLite alterations** `dialects/sqlite3/schema/ddl.ts` | pragma `foreign_keys`, the altered table | `alter`, `generateAlterCommands` | runner, transactions | a pragma switched off around a transaction, failures in between |
| **Batch insert** `execution/batch-insert.ts` | `returning`, `transaction` | chunking, insertion in order | transactions | all or nothing over chunks |
| **Query builder and compilers** `query/*`, `formatter/*`, `dialects/*/query/*` | `_statements`, `single`, the flags `_bool` and `_not`, bindings | chaining, `clone`, `clear*`, `toSQL` | runner | bindings must line up with placeholders in every dialect's order of clauses; clones share objects; compiling writes into them |
| **Schema builder and compilers** `schema/*`, `dialects/*/schema/*` | grouped statements | `create`, `alter` and the methods of the table and column builders, `toSQL` | runner, databases | calls are grouped and reordered; dialects merge some into CREATE TABLE, split others, and refuse some |
| **Seeder**, sources, generators | | file system access | migrator | |
| Dialect clients, utilities | | calls of drivers, text | | |


The central interaction: a query or a container runs in `Transaction` or `Runner`, on a
connection `Client` takes from the pool; a transactor is a second client that answers
`acquireConnection` with the connection of its transaction. `Migrator` is a user of all of
these, in several processes on one database. Everything in one process runs on the
JavaScript event loop: code between two suspensions is atomic, everything else
interleaves.

What makes each part correct, in a sentence: a transaction's writes are durable exactly when
it resolved (`Transaction`); a connection has one user at a time and is clean when it is
handed out (`Client`, `Runner`); migrations run once, in one process at a time, as whole
batches where that is asked for (`Migrator`); options saved are the options restored (knex
context); a request runs on its own connection (MSSQL); an altered table is altered
completely or not at all and foreign keys are checked again (SQLite); bindings are in the
order of their placeholders and every clause is as its call asked (query builder and
compilers); a table is what the calls ask for, one by one (schema builder and compilers).

The commit has defects that keep modules from loading: `client.ts:241` is a syntax error,
`transaction.ts:277` uses a mixin it does not import, `make-knex.ts:84` reads `_config`, which
may be undefined, `sqlite-ddl-operations.ts:25` says `export` twice, and the imports of
`mssql-columncompiler.ts` do not parse. The models translate what each function says and leave these aside.
`client.ts:148` initialises the pool only where the configuration gives it no `max`; that one
is modelled (`Init` of `Runner`).

## 2. Modules

| Module | Models | Extends / uses |
|---|---|---|
| `Session` | the database session of one connection: transaction, savepoints, what each statement does (external) | |
| `Transaction` | `execution/transaction.ts` over the pool, the connections and `Session` | `Session` |
| `MCTransaction` | instances for TLC | `Transaction` |
| `TransactionProofs` | inductive invariant of `Transaction`: types, ownership of connections, completion, siblings | `Transaction` |
| `SessionProofs` | what the server's session has to do with the transactions: writes in their own transaction, clean connections | `TransactionProofs` |
| `DurabilityProofs` | careful callers: commits are kept, rollbacks stay local, what is durable was committed | `SessionProofs` |
| `Runner` | `execution/runner.ts`, the pool of `client.ts`, `util/timeout.ts` | |
| `MCRunner` | instances for TLC | `Runner` |
| `RunnerProofs` | one user per connection and the end of `destroy()`; nobody waits behind an abandoned statement, no KILL hits a stranger | `Runner` |
| `Order` | lists of migrations: sorted, and filtered | |
| `Deployments` | abstract: migrations of one database as atomic batches | `Order` |
| `Migrator` | `migrations/migrate/`: Migrator, table creator, list resolver; refines `Deployments` | `Order`, `Deployments` (INSTANCE) |
| `MCMigrator` | instances for TLC | `Migrator` |
| `MigratorProofs` | types, mutual exclusion, the return of the lock, the record, for any number of runners | `Migrator` |
| `DeploymentProofs` | wrapped batches: the refinement of `Deployments` and what goes with it | `MigratorProofs` |
| `Sql` | a compiled piece: tokens of text and the bindings pushed while it was made | |
| `QueryBuilder` | `query/querybuilder.ts`: statements, flags, clearing, cloning | `Sql` |
| `QueryCompiler` | `query/querycompiler.ts` | `QueryBuilder` |
| `DialectQueries` | what the dialects override of it | `QueryCompiler` |
| `Queries`, `MCQueries` | programs that call, clone and compile in any order | `DialectQueries` |
| `Tables` | a table with a row and a table that references it, at the database (external) | |
| `SchemaCompiler` | `schema/*` and the dialects' table compilers: calls to statements | `Tables` |
| `SqliteAlteration` | `dialects/sqlite3/schema/`: parser, definitions, SQLite3_DDL | `SchemaCompiler` |
| `Schema`, `MCSchema` | running what was compiled, the alteration in its transaction, faults | `SqliteAlteration` |
| `SchemaProofs` | an alteration leaves no temporary table and no switched setting, for any calls and faults | `Schema` |
| `Requests` | the request queue of `dialects/mssql/index.ts` | |
| `DialectTransactions`, `MCDialectTransactions` | the transaction classes of MySQL, Oracle, Redshift and SQL Server | `Requests`, `Session` (INSTANCE) |
| `DialectProofs` | what these keep, roll back and give back, for any number of writes and requests | `DialectTransactions` |

Operators whose comment starts with *Variant* are plausible mistakes in the definition that
follows them. No action uses them; each shows that some property would notice.

### Session and Transaction

One element of `Trx` is one `Transaction` object, one of `PoolConn` a slot of the pool, one
of `ExtConn` a connection the caller passes in `config.connection`. State and code:

| Variable | Code |
|---|---|
| `completed`, `outer`, `anc`, `prev`, `lastChild`, `cfg` | `_completed`, `outerTx` (and its chain), `_previousSibling`, `_lastChild`, the options |
| `exec` | the promise `transaction()` returns: pending, committed, rolled back, rejected, rejected with undefined (which `rollback()` without an error does when it times out) |
| `life`, `stage` | constructed / connection acquired / `acquireConnection`'s finally done; where `_evaluateContainer` has got to |
| `timer` | the race in `rollback` and `rollbackTo`, with the `error` argument it would reject with |
| `free`, `chan`, `reply`, `dead` | idle slots; statements sent and answers not yet seen, per connection; lost connections |
| `sess`, `durable`, `wrote` | the server's view, the writes it has made permanent, the one statement a user sends |

An action is one callback: `NewTransaction` and `NewNested` (constructor), `AcquireConnection`
(up to the first statement sent), `Deliver` (the handlers of `query`, one disjunct per kind of
answer), `InvokeContainer`, `ContainerSettles`, `UserFinishes` (an explicit `commit` or
`rollback`), `UserQuery`, `RollbackTimeout`, `Release`; `Execute`, `Disconnect` and
`ReplaceConnection` are the outside. `IsCompleted` is the recursive walk over `outerTx`, as a
quantifier over the chain `anc`. Chains of `then` callbacks that touch nothing shared are
folded into the action that starts them. With `Disciplined = FALSE` callers do anything at any
time; with `TRUE` they await what they start.

Not distinguished: the values of a commit, event payloads (`__knexTxId` of a parent after a
child), `transactionProvider`, queries that are streams. Rollback errors are told apart only as
given or undefined.

### Runner

One element of `Run` is one `Runner.run`, one of `Trx` a transaction reduced to what it
is for the pool: it acquires, sends BEGIN, lends its connection to its queries, sends COMMIT
and releases. `Start`/`Acquire` is `ensureConnection` up to `acquireConnection`; `Serve` hands
a validated connection over and sends the first statement; `AnswerRun` is `query` and
`queryArray` (next statement, success, failure, each with the `finally` that releases);
`Timeout`, `TimeoutCancels`, `Kill`, `Cancelled` and `CancelFails` are the catch of `query`
with `cancelQuery`; `Destroy`, `Destroyed`, `Initialize` are the client's. The pool is the
library tarn, whose rules (oldest acquire first, `validate` before handing out, `destroy`
waiting for what is used) are external. A statement that KILL has hit may stay in the queue
for any time: the answer to KILL says nothing of the moment the statement ends.

### Migrator and Deployments

One element of `Runner` (in this module) is one process. `pc` is the statement it is about to
issue: the tables are ensured (`HasTable`, `CreateMigrationTable`, `CreateLockTable`,
`SelectLock`, `InsertLock`), the migrations listed and picked (`List`, `LastBatch`), the lock
taken (`Lock`), and the batch run (`Relist`, `ReadBatch`, `Run`, `Record`, `FreeLock`,
`CommitBatch`, `CleanUp`). `held` and `pending` are what a transaction around the batch has
written and others do not see; `Blocked` is the wait for the row lock of the lock table.
`Fail`, `LockFails`, `CleanUpFails` and `Crash` are the faults. `Deployments` knows only a log
of migrations and what is applied, and deploys, or takes back, a batch in one step; `Migrator`
implements it with `log <- rows` and `applied <- Present` where batches are wrapped.

The lists the migrator sorts and filters are `Ascending` and `Selected` of `Order`. Both are defined by what
they return (the list that holds a set in ascending order; the elements at the chosen positions in
their order) and not by a recursive computation, so that proofs can speak of them; lemmas of `MigratorProofs`
show that there always is such a list.

The operator's part is external: as the warning in `_runBatch` asks, `migrate:unlock` is
started only while nothing else runs, and nothing is started before it is over (guard of
`Start`).

### Queries

A builder is a record of its fields; a statement keeps the grouping, the type, the flags and the
values it brought in, each value a token that names its call. `objects` is the heap of plain
objects that `clone()` copies by reference (`update`, `counter`, `skip`). `toSQL` is an operator
from builder and objects to a piece: the tokens of the text in order, and the bindings in the order
they were pushed (`Written` takes the order of evaluation and the order of writing apart).
`Sql(d, b, o)` in `DialectQueries` is the whole query of a dialect. The action `ToSQL` is what
compiling changes: `ArrowCallbacks`, `KeptLimit`, `KeptCounters` (of an update, and of a merge with an object of its
own). A row of an insert holds a token per value, so that a value bound out of order shows like any other. Identifiers, quoting and named
bindings are abstracted; a raw column or table is one token with a binding.

The properties except by name what the code gets wrong: `Misordered` (parts compiled in another order than
written), `LeavesFlags`, `Shared`, `Moved`, and in `WheresKept` nothing at all, which is why `orWhere` with an
object has its own run.

### Schema

A call is a record (method, columns, options); `Compile(dialect, method, calls)` is the list of
statements a dialect's compilers make of one `createTable` or `alterTable` callback. `Tables` is
the database: what a statement does to a definition, to the row in it, and whether it is accepted.
`Schema` runs the statements one by one, with a fault at any of them; for SQLite the statement
`rebuild` starts an alteration, in the steps of `SQLite3_DDL.alter` and `queryArray`
(`Read`, `ForeignKept` or `ForeignOff`, `Begin`, `CreateTemp`, `CopyData`, `DropOriginal`,
`RenameTable`, `CreateIndexes`, `ForeignKeyCheck`, `ForeignOn`). What a database refuses whoever writes the statement
is `Accepts`, and per database `MySqlAllows`, `SqlServerAllows`, `OracleAllows`: two constraints of one name, null where it is null
already (Oracle), another type for a column with values or a key's, an auto_increment column without a key, a column something depends
on. A call that asks for such a thing is not possible, and no property expects it to succeed. `Meaning` gives the statement a call asks for
by itself; `Want` applies those in the order of the calls, and `AsAsked` compares. `Known` and `Unlike` name
the shapes in which a dialect differs, one line each.

### Requests and DialectTransactions

`requestQueue` and `running` are the queue on the prototype of the SQL Server client and the request
each connection executes. `DialectTransactions` has two top-level transactions on connections of
their own and one nested in the first. Each dialect's overrides choose the branch of `Commit` and
`Rollback`: `Query` (MySQL, Redshift), `CommitTransaction`, `RollbackTransaction`, `Release` (SQL Server),
`RollbackAsync` and the commit in `Settle` (Oracle's `acquireConnection`). A statement and its answer are one step, as their
interleavings are `Transaction`'s; requests of SQL Server are two, since the queue is shared.

A container that ends its transaction by hand settles afterwards, and `_evaluateContainer` then calls `commit` or `rollback` once
more: `EndAgain`. MySQL and Redshift send nothing, as `query()` refuses for a completed transaction. `commit` and `rollback` of Oracle and SQL
Server do not look: `CommitAgain`, `RollbackAgain`; `ReleaseAndRollBack` is the second end of Oracle's nested transaction that reaches the
server before the `finally` commits. A deadlock, at any statement of MySQL or SQL Server that fails, ends the
whole transaction at the server (`Executed`). `undone` collects what these take back; the promise of whoever wrote it may have
resolved before, which is the code's, and `CommittedIsKept` leaves those writes out.

## 3. Runs

| Run | Question | Bounds |
|---|---|---|
| `careless` | Explicit commits and rollbacks at any time, external connections, an isolation level, callers that await nothing: who owns a connection, what is left on it, whose transaction does a late write get into, is every statement sent by someone whose top-level transaction holds the connection? | 2 transactions, 1 pooled and 1 external connection, 1 explicit call each |
| `disciplined` | For callers that await: is *committed* the same as *durable*, do siblings take turns, is a rollback to a savepoint local? | 3 transactions, 1 lost connection, a server that keeps a transaction open when COMMIT fails |
| `ends` | Does every transaction end, and a rollback even when the server hangs? | 3 transactions, 2 roots, 1 lost connection |
| `queries` | Timeouts, cancellations, losses and `destroy()` over one connection: is it given back once, clean or marked; is a cancellation harmless to others; does `destroy()` end with nothing open? | 2 queries, 2 transactions, 1 connection, 1 loss |
| `migrate_wrapped` | Batches in transactions, on a database without migration tables, whose lock table gets one row or two: run once, one runner at a time, never turned away, atomic | 2 runners with 3 operations each, 3 migrations, 2 failures, 1 lost statement, 2 crashes |
| `migrate_mixed` | All operations, batches with and without a transaction, a runner whose directory lacks a migration, a lock left behind and `unlock`: one at a time, lock returned, record and schema agree but for interruptions, every operation ends | 2 runners with 2 operations, 2 migrations, 1 fault of each kind, no crash within an unlock |
| `migrate_fresh` (violation) | Does the lock table get one row on a fresh database? | 2 runners, 1 operation |
| `compile` | Do bindings reach their placeholders, flags their clause, values their column; does compiling change what anything compiles to? | 33 shapes of calls, 3 calls or clones, 2 builders, 5 dialects |
| `or_where_object` (violation) | Does `orWhere` with an object keep its conditions? | 2 shapes of calls |
| `schema` | Is the table what the calls ask for, are possible calls accepted, do rows and references survive, is nothing left behind? | 5 tables, 18 calls, 2 calls in one or two alterations, 6 dialects, a fault anywhere |
| `dialect_transactions` | Is what resolved permanent, what was rolled back gone, and a returned connection clean, with the overrides of four dialects, transactions ended once or twice, deadlocks? | 3 transactions, 3 writes together, 1 lost connection |
| `mssql_requests` (violation) | Does a request run on the connection it was made for? | as above, SQL Server only |

Why these bounds are enough. Transactions interact through a parent, a sibling or the pool:
three objects give a child with a sibling, a grandchild, and a root that competes for the one
connection; a single pooled connection makes every release visible to the next user. More
explicit calls than one per transaction add refused calls only, since the first completes
it. `MaxWriters` limits how many transactions send a statement of their own; a write needs one
who writes and one who could be hurt. Two queries and two
transactions, which are also users of a connection, give one that leaves something on it, a second
whose KILL hits that leftover, and a third that gets the connection next, as well as two queries
at once in one transaction. Two runners make all
races over the lock (the actions of a third are those of the second, and the proofs do not
bound them); three migrations give a batch with a first, a middle and a last one. Each kind of
fault occurs once or twice, at every point; a crash within `migrate:unlock` is left to the hazard list
(`UnlocksComplete`): it leaves the lock without a row, and the next operations race to insert it, as in
`migrate_fresh`.

Two clauses interact by what the first leaves behind, or by the order in which they are compiled; a third call gives
the clone, the clearing or the second compilation that makes it matter. For schemas, two calls are
enough for an order to be wrong, in one callback or in two, over tables whose first callback has
up to five calls. A dialect's transaction interacts with its nested one, with whoever gets its connection next, and, through the
request queue, with one other connection: a write before the savepoint, one after it and one on the other connection
are three (four writes pass as well, in some minutes).

Where all work may end within the bounds, deadlock is not checked: the final state of a run has
no successor. Symmetry is used for safety only; where liveness is checked, identities are
numbers and objects are created in their order (`CreationOrder`, `StartOrder`), which constrains
only the order of identities without meaning and no action with fairness.

**Fairness.** The event loop runs what is ready and timers fire (`RuntimeFairness`); drivers
deliver what arrived and report a lost connection (`DriverFairness`). That a server answers and
a container ends is not knex's to promise: it is the premise `OutsideFairness` of
`EveryTransactionEnds`, and `RollbackAlwaysReleases` does without it. `OperationsEnd` and
`DestroyEnds` assume that statements are answered, with success or an error, that migrations
settle, and that containers end. No action of a user (start, begin, commit by hand, destroy) is
fair.

**Divergences found** (each a run). `migrate_fresh`: two first runs insert two lock rows and then nobody gets the
lock. `or_where_object`: the conditions of `orWhere({...})` are added while the query is compiled,
to the wrong builder. `mssql_requests`: a request runs on whichever connection is free first.

## 4. Proofs

Every theorem holds for any number of transactions, connections, queries, runners and migrations and for any
bounds, from the assumptions declared with the constants; what one assumes beyond them is said below and in
its ASSUME. The inductive invariants were first checked by TLC on small instances. A
module proves one lemma per action (or per group of actions that leave the same things alone) and puts them
together over `Next`.

**`TransactionProofs`** (careless or careful callers).

- `Inductive`: `Spec => []IInv`. `ConnectionOwnership` is not inductive by itself: that `Release`
  frees a connection once needs to know where the connection of an open transaction came from
  (`ConnectionSource`), that nested transactions hold their parent's (`Nesting`, `Rooted`), that
  an external connection serves one live root (`ExternalOnce`), what each stage implies of `life`
  and `exec` (`LifeCycle`), and which statements may be on their way on which connection
  (`Traffic`). `IInv` is their conjunction.
- `TypeCorrect`, `Ownership`, `SettledCompleted` are consequences; `PostsByHolder` is the action
  property `PostedByHolder`, from `IInv` step by step.
- `SiblingsWait`: `SiblingsTakeTurns`. A child waits only for the one created just before it, so
  the invariant has to say that the waiting reaches back to all the others. `Turns` says that the children of a transaction
  have an order of age (there is a relation `ahead`, as the variables do not record one) in which `prev` is the next older,
  `lastChild` the youngest, and everything ahead of one that has started is done.

**`SessionProofs`** (careless or careful callers; the server side of `Transaction`).

- `SessionInductive`: `Spec => [](IInv /\ SessionInv)`. `SessionInv` relates, on each connection, three things that
  move apart while statements travel: where a transaction has got to, what it has sent that waits in `chan` or `reply`, and the
  session. Its parts: a top-level transaction that has begun and is not completed owns the session, and nothing on its way ends it
  (`HolderOwns`); an opening statement is the last one on its connection, as nothing else is sent before its answer
  (`OpeningIsLast`); statements of nested transactions and queries reach the server while the session is their own root's, with nothing before them that
  would end it (`InnerInOwn`); which kinds a top-level and a nested transaction send, the last ones only when completed (`Senders`); the
  transactions around a nested one are past their init (`AroundUnderway`); a lost connection has nothing under way (`DeadIsIdle`).
- `WritesStayInside`: `WritesInOwnTransaction`, also for a transactor used after its transaction, a
  rollback that timed out with its answer still to come, a BEGIN that failed while the container ran.
- `OwnerInductive` and `PoolIsClean`: `IdleConnectionsAreClean`, assuming `~CommitFailureKeepsOpen`, that is, that a COMMIT
  that fails ends the transaction at the server. Where it does not (SQLite), the connection goes back with the transaction open
  (hazard at `transaction.ts:159`). `OwnerInv` adds who can be an owner:
  a top-level transaction of this connection, and once it is completed only while the statement that ends the session is on its way
  (`Owned`), which stays true when a timeout closes the transaction and its connection goes to the next one; and nobody whose BEGIN was not run
  (`NotYetOwned`).

**`DurabilityProofs`**, for callers that await what they call (`Disciplined`); any options, failures, timeouts, lost connections, and
servers whose failing statements abort the transaction or do not.

- `CarefulInductive`: `CarefulInv`. What the callers' waiting amounts to: around a transaction that goes on, the others are open and have nothing
  under way (`AroundWaits`); unsettled ones of a connection are nested in each other (`OneLine`, with `SiblingsTakeTurns`); and what every message
  says of its sender (`Flies`), in particular that a COMMIT is never sent with a query unanswered.
- `ServerInductive`: `ServerInv`. Whose a session is and whose writes it carries (`OwnerIs`, `Writers`), and that a savepoint separates:
  what came before it is of others, what came after is of its transaction, as long as that has not ended (`MarkSplits`); later ones
  are nested deeper (`Earlier`). `RollbackStaysLocal`, that is `RollbackIsLocal`, follows, also for a ROLLBACK TO whose timeout has settled the transaction long before.
- `DurableInductive`: `DurableInv`. A write that was acknowledged stays in the session until the top-level transaction commits, if
  nobody around it gave up (`AckedKept`). For that, a rollback must find its savepoint (`HasNeeded`: without it the session aborts), what failed must be gone
  before that COMMIT (`FailedGoes`, or what is durable would include it), and an aborted session must have somebody who will roll back
  (`AbortedGoes`, or the COMMIT would discard in silence). `Permanent` says what durable writes are.
- `CommitsAreDurable` and `DurablesAreCommitted`: `CommittedIsDurable` and `DurableIsCommitted`. A connection that is lost takes the
  answers with it that were on their way, so a top-level transaction may reject although its COMMIT is durable (after a fault only, hence `faults # 0`);
  nested ones around a durable write have always resolved by commit, since without their answer nobody sends the COMMIT.

**`RunnerProofs`**.

- `PoolInductive`: `Spec => []PoolInv`. `OneUser` alone is not inductive. That a connection is given
  back by the one who acquired it, and then by nobody else, needs the correspondence of used slots
  and holders in both directions (`Holding`); what being at some stage says of holding, with queries
  of a transaction holding nothing and being in flight only while their transaction is open
  (`Lending`, which is why `Commit` waits for them); and that whoever waits for a connection waits
  once (`Queueing`), or a timeout of one acquire would leave a second entry to be served. `Closed`
  says what a destroyed pool is.
- `OneUserHolds` and `GoneIsOverHolds` follow, the second because nobody can be in flight without a
  used slot.
- `StatementsInductive`: `Spec => [](PoolInv /\ StatementInv)`. The order of statements on a connection matters here: `Once` says that
  nobody has two statements out, `Progress` how many a query has sent, and `Items`, of every statement the server has not answered,
  that whoever waits for it uses its connection; that one nobody waits for was cancelled, or is on a connection that is marked
  (`__knex__disposed`) and used by nobody but the transaction it was sent in; and that a KILL has hit only statements that the
  canceller's own transaction waited for.
- `RunnerTyping`, `NobodyWaitsBehind` (`NobodyBehindTimedOut`) and `NoInnocentHit` (`NoInnocentKilled`) follow.

**`MigratorProofs`** (all operations, wrapped or not, failures and crashes).

- The first lemmas say what `Order` computes. The induction theorems of the library take an operator as a parameter, so
  the lemmas that need induction use that a nonempty set of naturals has a least element: a smallest counterexample is taken and
  contradicted.
- `Typing`: `TypeOK`, without further assumptions.
- The rest assumes that the lock table exists (`~Fresh`) and that nobody unlocks by force. Without these there can be two lock rows, as
  `migrate_fresh` shows; `migrate_mixed` checks the same properties with careful unlocks.
- `LockInductive`: there is one lock row; it is held uncommitted by at most one runner or
  committed by at most one, and exactly those are in their critical section. The invariant has to
  speak of runners with and without a transaction together, because each kind excludes the other
  by another mechanism: the row's value, or the wait for the row. `RunnersExclude` and `LockComesBack` follow.
- `RecordKeepsUp`: `RecordMatchesSchema`. `RecordInv` counts: `Unexplained`, the migrations on which schema and record differ beyond what a
  recording runner has just carried out, has at most `fails + crashes` elements, since only an interruption
  takes a runner out of `Record`. That is inductive only with mutual exclusion: two recorders would explain each other's differences away.

**`DeploymentProofs`**, under `Wrapping`: transactions are not disabled, no migration opts out, and runners deploy
(`latest`, `up`) or list. The database may be fresh, so there may be several lock rows.

- `DeployInductive`: `DeployInv`. The wrapping transaction surrounds lock, migrations and records (`Surrounded`); others
  never see the lock taken, so all its rows read 0 (`Unseen`); once a runner is inside, its batch is ascending and unrecorded and its number is the next one
  (`Planned`); what is recorded is recorded once and in the order of batches (`Recorded`).
- `Refinement`: `DeploysAtomically`. The initial states map to the initial state; `CommitBatch` maps to one `Deploy` of the whole
  batch, every other action to a stutter, as what it writes is in `pending` or concerns the lock.
- `OnceRecorded`, `EverybodyWaits` (`NeverTurnedAway`), `DeployersExclude` (`MutualExclusion`). The last does not follow
  from the lock's value, which others do not see, but from the wait for the row.

**`DialectProofs`** (the overrides of MySQL, Oracle, Redshift and SQL Server; three transactions, as in the model,
and any number of writes, requests, deadlocks and lost connections; transactions are ended once, or once more by their container).

- `DialectInductive`: `Spec => []DialectInv`, in five parts. `Course`: how far the transactions are. `InTurn`: a waiting
  request is of a transaction that has begun and an orphan unless its connection is busy, a connection runs something
  only while its session is open, and once a transaction was committed or rolled back (or a nested one has begun in it) no request of it will run on its own
  connection but orphans. `Sessions`: whose each session is, and that the savepoint of the nested transaction is the only one and
  remembers no write of it. `Permanence`: besides the three properties, what may still be committed is permanent, in the session, or was taken back
  by the server (`Kept`), a rollback to the savepoint leaves what the outer transaction wrote (`KeptBefore`), and nothing is permanent before the
  top-level transaction has committed (`NotYet`). That last one is why an implicit commit or Oracle's commit of the outer transaction
  has to be excepted from `RolledBackIsGone`.
- The dialects differ in their statements but not in what these may do: `Ended` states what may become of session and
  permanent writes when a transaction ends, `Ran` and `Moved` what a statement, its answer or a lost connection may do to the writes and to the
  queue. Every branch of `Commit`, `Rollback`, and of a `Begin` or `Savepoint` that fails, is shown to be an `Ended` (or Oracle's
  rollback without a connection, which settles nothing: `Forgotten`), and that is shown once to keep the invariant. A second end settles
  nothing either: it is shown to be a `Ran` that starts no transaction and makes nothing permanent but for one that has
  failed (`AgainKeeps`). That needs the savepoint of the nested transaction to keep remembering what was there before it (`Savepoints`)
  and a connection that was given back clean to have nothing that another commit or rollback could touch (`ReturnedClean`).
- `CommittedStays` (`CommittedIsKept`), `RolledBackGoes` (`RolledBackIsGone`), `ComesBackClean` (`ReturnedClean`) follow.

**`SchemaProofs`** (any calls, dialects and faults, in a transaction of the caller or not; nothing is assumed of the constants).

- `AlterationInductive`: `Spec => []AlterationInv`. That nothing is left behind at the end rests on every stage: the temporary table
  exists exactly from its creation to its renaming, and its definition keeps its shape, so that the renaming has something to
  rename (`TempInv`); the setting that `wasOn` remembers is the one found, and off in between unless a transaction of the caller makes the
  pragma ineffective (`ForeignInv`); and what a rollback would restore has no trace of the alteration (`SavedInv`).
- `LeavesNothing`: `NothingLeftBehind`.

**Only model-checked.** All liveness (`EveryTransactionEnds`, `RollbackAlwaysReleases`, `OperationsEnd`, `DestroyEnds`), which is out of
this prover's reach. What careless callers may expect beyond
`TransactionProofs` and `SessionProofs`. Rolled-back and mixed batches beyond the theorems above, and
the migrator's lock with careful unlocks. The other properties of queries and schemas, whose compilers are evaluated on data: what they compute for every
input needs induction over it.

## 5. Defects the models leave out or name

Not run of their own, but met while modelling, and excepted by name where a property would see them:

- `transaction.ts:139`, `:152`: when the 5 s timeout of `rollback()` fires, the promise rejects with the
  argument of `rollback`, which may be undefined (`CHANGELOG.md:1505` promises an error).
- `Migrator.ts:361`: with transactions disabled the list read before the lock is run as it is, so a
  runner that locks after another one repeats what that one has done; the test for it
  (`migration-integration.spec.js:943`) is skipped.
- `runner.ts:200`: a cancelled query gives its connection back when KILL is answered, not when the
  query is over.
- Queries: bindings of raw tables, `in` lists with a raw column, `distinctOn`, deletes with joins, and inserts of several rows into
  a raw table in Oracle, which writes the table into every row but binds it once, after the values of the first (`Misordered`); flags kept after a
  `whereBetween` that throws or an object without keys (`LeavesFlags`); `whereNot({a, b})` negates `a` only;
  `orWhereJsonSupersetOf` asks for a subset; counters end up in the object of `update()`, or of `merge()`, and in the clones that share it
  (`Shared`, `Moved`); columns of `jsonSet`, `jsonInsert`, `jsonRemove` throw.
- Schemas (`Known`, `Unlike`, `Enforced`, `ReferencesLost`): `check()` in `alterTable` without a name calls the constraint
  `"t"_1`, quotes included, and ignores its bindings, which the database refuses (`CheckMalformed`); numbers of constraints begin with 1 in every callback, so that the second
  of two alterations repeats a name (`CheckRepeated`); PostgreSQL drops the not null of any column it changes, which a key column refuses; SQLite
  refuses the statement of `check()` in `alterTable`; columns are written before every other call of the
  callback; SQLite keeps the last of two inline checks and the first of two changes, and in a transaction of
  the caller its pragma does nothing, so dropping the old table deletes or refuses what references it; `increments()` with
  `primary()` differs by dialect; `dropColumn` of Oracle calls a helper that is not imported; MySQL loses
  references when `renameColumn` fails half-way.
- Transactions: on SQL Server and Oracle a container that ended its transaction by hand and then settles ends it again: `await n.commit()`
  followed by a throw rolls SQL Server back to the savepoint of `n` after `n` has resolved, and what was written since is lost
  (`undone`); MySQL takes the missing savepoint of a nested transaction whose outer one was a deadlock's victim for success (errno 1305, `undone` as well).
  Oracle commits the outer transaction when the nested one ends (`NestedIsOver`), and never settles one whose
  rollback fails; SQL Server leaves requests of a failed connection in the queue (`orphaned`) and returns a connection whose
  rollback was refused; Redshift's `savepoint()` throws, so it has no nested transactions; its COMMIT after a failed
  statement discards (`Discarded`).

## 6. Not modelled

CockroachDB's migrations, which commit the lock outside the transaction; `status` and `currentVersion`, which only
read; streams; the provider of connection settings; statements of the caller that manipulate
transactions by themselves; subqueries and groups beyond the one of `orWhere`, `columnInfo`, CockroachDB's `upsert`; views, comments
and renamed tables; two SQLite alterations at once; the timeout of Oracle's rollback; `disableProcessing`, `transactionProvider`, batch
insert and `Seeder`. Of ends after the end: more than one per transaction, and one that comes when the connection already serves another
transaction; MySQL's SAVEPOINT outside a transaction, which succeeds and is forgotten, fails in the model; a write in the outer transaction of SQL Server or Oracle through
the transactor of a nested one that `release` has not marked as completed. In an insert of several rows into Oracle, that only one
DEFAULT at either end of a row is taken out of its `using` clause. Drivers and their adapters, generators of files, logging and text utilities keep no
state of knex.

## 7. Plan

1. *(done)* `Transaction`, `Session`, `TransactionProofs`; `Migrator`, `Deployments`, `MigratorProofs`;
   `Runner`, `RunnerProofs`.
2. *(done)* `Queries` and below; `Schema` and below; `DialectTransactions`, `Requests`.
3. *(done)* `SessionProofs`, `DurabilityProofs`, `Order`, `DeploymentProofs`, `SchemaProofs`; siblings in
   `TransactionProofs`, statements in `RunnerProofs`, types and the record in `MigratorProofs`; `DialectProofs`.
4. Proofs: that `Written` aligns what it writes in the order of evaluation.
5. `KnexContext` (shared options, `transactionProvider`), batch insert over `Transaction`'s promise, streams.
