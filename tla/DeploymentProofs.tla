-------------------------- MODULE DeploymentProofs --------------------------
(***************************************************************************)
(* Where a transaction surrounds every batch, also on a database without   *)
(* migration tables: for any number of runners and migrations and any      *)
(* bounds, the runners implement Deployments, no migration is recorded     *)
(* twice, and nobody is turned away from the lock.                         *)
(***************************************************************************)
EXTENDS MigratorProofs

\* Nothing opts out of the transaction, and runners go forward or list.
Wrapping ==
  /\ ~Disable
  /\ \A m \in Mig : Setting[m] # "off"
  /\ \A o \in Ops : o.kind \in {"latest", "up", "list"}

-----------------------------------------------------------------------------
\* From the lock on, a transaction surrounds a batch that goes forward.
Surrounded == \A r \in Runner :
  /\ pc[r] \notin {"lastBatch"} \cup Unlocking
  /\ pc[r] # "idle" => op[r].kind \in {"latest", "up", "list"}
  /\ pc[r] \in {"lock"} \cup Critical => wrapped[r] /\ Up(r)

\* Nobody sees the lock taken: who has taken it holds its rows, and alone.
Unseen ==
  /\ \A i \in DOMAIN lockRows : lockRows[i] = 0
  /\ \A r \in Runner : pc[r] \in {"list", "lock"} \cup Critical => lockRows # <<>>
  /\ \A r \in Runner : held[r] # {} <=> pc[r] \in Critical
  /\ MutualExclusion
  /\ \A r \in Runner : outcome[r] = "locked" => losses > 0 \/ Len(lockRows) > 1

Names(s) == [i \in DOMAIN s |-> s[i].name]

\* The batch of r: what it has run and not committed, and what it has still to run.
Whole(r) == Names(pending[r]) \o todo[r]

\* A batch is in the order of its migrations.  Once it has been listed under the
\* lock none of it is recorded, and its number is the next one.
PlannedFor(r) ==
  /\ Increasing(todo[r])
  /\ pc[r] \notin {"run", "record", "free"} => pending[r] = <<>>
  /\ pc[r] \in {"batch", "run", "record", "free"} =>
       Increasing(Whole(r)) /\ \A i \in DOMAIN Whole(r) : Whole(r)[i] \notin Completed
  /\ pc[r] \in {"run", "record", "free"} =>
       /\ batch[r] = LatestBatch + 1
       /\ \A i \in DOMAIN pending[r] : pending[r][i].batch = batch[r]

Planned == \A r \in Runner : PlannedFor(r)

\* What is recorded: every migration once, in the order of the batches.
Recorded ==
  /\ RecordedOnce
  /\ \A i, j \in DOMAIN rows : i < j => rows[i].batch <= rows[j].batch

DeployInv == TypeInv /\ Surrounded /\ Unseen /\ Planned /\ Recorded
-----------------------------------------------------------------------------
\* A step of r leaves what the other runners have.
Elsewhere(r) == \A q \in Runner \ {r} :
  /\ pc'[q] = pc[q] /\ op'[q] = op[q] /\ todo'[q] = todo[q] /\ wrapped'[q] = wrapped[q]
  /\ batch'[q] = batch[q] /\ held'[q] = held[q] /\ pending'[q] = pending[q]

LEMMA FinishedElsewhere ==
  ASSUME TypeInv, NEW r \in Runner, NEW result, Finished(r, result)
  PROVE  /\ Elsewhere(r)
         /\ pc'[r] = "idle" /\ op'[r] = NoOp /\ todo'[r] = <<>> /\ wrapped'[r] = FALSE
         /\ held'[r] = {} /\ pending'[r] = <<>> /\ outcome'[r] = result
         /\ \A q \in Runner \ {r} : outcome'[q] = outcome[q]
BY DEF TypeInv, RunnerTypes, Finished, Goto, Elsewhere

\* A batch is planned as before where neither it nor the record has changed.
LEMMA StillPlanned ==
  ASSUME NEW q \in Runner, PlannedFor(q), UNCHANGED rows,
         pc'[q] = pc[q], todo'[q] = todo[q], pending'[q] = pending[q], batch'[q] = batch[q]
  PROVE  PlannedFor(q)'
<1>1. Completed' = Completed /\ LatestBatch' = LatestBatch
  BY DEF Completed, LatestBatch
<1>2. Whole(q)' = Whole(q)
  BY DEF Whole, Names
<1> QED
  BY <1>1, <1>2 DEF PlannedFor

\* The others' batches while r is the one that runs migrations.
LEMMA OthersPlanned ==
  ASSUME Planned, MutualExclusion, NEW r \in Runner, Elsewhere(r),
         UNCHANGED rows \/ pc[r] \in Critical
  PROVE  \A q \in Runner \ {r} : PlannedFor(q)'
<1> SUFFICES ASSUME NEW q \in Runner \ {r}
             PROVE  PlannedFor(q)'
  OBVIOUS
<1>1. CASE UNCHANGED rows
  BY <1>1, StillPlanned DEF Planned, Elsewhere
<1>2. CASE pc[r] \in Critical
  <2>1. pc[q] \notin Critical
    BY <1>2 DEF MutualExclusion
  <2>2. pc'[q] \notin {"batch", "run", "record", "free"}
    BY <2>1 DEF Elsewhere, Critical
  <2>3. PlannedFor(q)
    BY DEF Planned
  <2> QED
    BY <2>2, <2>3 DEF PlannedFor, Elsewhere
<1> QED
  BY <1>1, <1>2

\* Lock rows stay free, and do not become fewer.
LEMMA RowsStayFree ==
  ASSUME lockRows \in Seq({0, 1}), \A i \in DOMAIN lockRows : lockRows[i] = 0,
         \/ lockRows' = lockRows
         \/ lockRows' = AllRows(0)
         \/ lockRows' = Append(lockRows, 0)
  PROVE  /\ \A i \in DOMAIN lockRows' : lockRows'[i] = 0
         /\ lockRows # <<>> => lockRows' # <<>>
         /\ Len(lockRows) > 1 => Len(lockRows') > 1
<1>1. CASE lockRows' = lockRows
  BY <1>1
<1>2. CASE lockRows' = AllRows(0)
  <2>1. AllRows(0) \in Seq({0, 1}) /\ Len(AllRows(0)) = Len(lockRows)
    BY AllRowsTypes
  <2>2. \A i \in DOMAIN AllRows(0) : AllRows(0)[i] = 0
    BY DEF AllRows
  <2>3. lockRows # <<>> => Len(lockRows) # 0
    OBVIOUS
  <2>4. Len(AllRows(0)) # 0 => AllRows(0) # <<>>
    BY <2>1
  <2> QED
    BY <1>2, <2>1, <2>2, <2>3, <2>4
<1>3. CASE lockRows' = Append(lockRows, 0)
  <2>1. /\ Len(lockRows') = Len(lockRows) + 1 /\ Len(lockRows) \in Nat
        /\ DOMAIN lockRows' = 1 .. Len(lockRows) + 1
        /\ \A i \in DOMAIN lockRows' : lockRows'[i] = IF i \in DOMAIN lockRows THEN lockRows[i] ELSE 0
    BY <1>3
  <2> QED
    BY <2>1
<1> QED
  BY <1>1, <1>2, <1>3

-----------------------------------------------------------------------------
\* The operation of r settles.
LEMMA SettleStep ==
  ASSUME DeployInv, TypeInv', NEW r \in Runner, NEW result, Finished(r, result),
         UNCHANGED rows \/ (pc[r] \in Critical /\ Recorded'),
         lockRows' = lockRows \/ lockRows' = AllRows(0), losses' >= losses,
         result = "locked" => losses' > 0 \/ Len(lockRows) > 1
  PROVE  DeployInv'
<1>1. /\ Elsewhere(r)
      /\ pc'[r] = "idle" /\ op'[r] = NoOp /\ todo'[r] = <<>> /\ wrapped'[r] = FALSE
      /\ held'[r] = {} /\ pending'[r] = <<>> /\ outcome'[r] = result
      /\ \A q \in Runner \ {r} : outcome'[q] = outcome[q]
  BY FinishedElsewhere DEF DeployInv
<1>2. Surrounded'
  BY <1>1 DEF DeployInv, Surrounded, Elsewhere, Up, Critical, Unlocking, NoOp
<1>3. /\ \A i \in DOMAIN lockRows' : lockRows'[i] = 0
      /\ lockRows # <<>> => lockRows' # <<>>
      /\ Len(lockRows) > 1 => Len(lockRows') > 1
  BY RowsStayFree DEF DeployInv, TypeInv, DatabaseTypes, Unseen
<1>4. losses > 0 => losses' > 0
  BY DEF DeployInv, TypeInv, BoundTypes
<1>5. Unseen'
  BY <1>1, <1>3, <1>4 DEF DeployInv, Unseen, MutualExclusion, Elsewhere, Critical
<1>6. Planned'
  <2>1. \A q \in Runner \ {r} : PlannedFor(q)'
    BY <1>1, OthersPlanned DEF DeployInv, Unseen
  <2>2. PlannedFor(r)'
    BY <1>1 DEF PlannedFor, Increasing
  <2> QED
    BY <2>1, <2>2 DEF Planned
<1>7. Recorded'
  <2>1. CASE UNCHANGED rows
    BY <2>1 DEF DeployInv, Recorded, RecordedOnce
  <2> QED
    BY <2>1
<1> QED
  BY <1>2, <1>5, <1>6, <1>7 DEF DeployInv

\* r goes on to another statement and nothing is recorded.
LEMMA MoveStep ==
  ASSUME DeployInv, TypeInv', NEW r \in Runner, NEW label \in Labels, Goto(r, label),
         Elsewhere(r), UNCHANGED <<rows, losses>>,
         lockRows' = lockRows \/ lockRows' = Append(lockRows, 0),
         UNCHANGED outcome \/ outcome' = [outcome EXCEPT ![r] = "none"],
         label \in {"list", "lock"} \cup Critical => lockRows' # <<>>,
         held'[r] # {} <=> label \in Critical,
         label \in Critical => \A q \in Runner \ {r} : pc[q] \notin Critical,
         label \notin {"lastBatch"} \cup Unlocking,
         op'[r].kind \in {"latest", "up", "list"},
         label \in {"lock"} \cup Critical => wrapped'[r] /\ Up(r)',
         PlannedFor(r)'
  PROVE  DeployInv'
<1>1. pc'[r] = label
  BY DEF DeployInv, TypeInv, RunnerTypes, Goto
<1>2. Surrounded'
  BY <1>1 DEF DeployInv, Surrounded, Elsewhere, Up
<1>3. /\ \A i \in DOMAIN lockRows' : lockRows'[i] = 0
      /\ lockRows # <<>> => lockRows' # <<>>
      /\ Len(lockRows) > 1 => Len(lockRows') > 1
  BY RowsStayFree DEF DeployInv, TypeInv, DatabaseTypes, Unseen
<1>4. \A q \in Runner : outcome'[q] = "locked" => losses' > 0 \/ Len(lockRows') > 1
  BY <1>3 DEF DeployInv, TypeInv, RunnerTypes, Unseen
<1>5. Unseen'
  BY <1>1, <1>3, <1>4 DEF DeployInv, Unseen, MutualExclusion, Elsewhere
<1>6. Planned'
  BY OthersPlanned DEF DeployInv, Unseen, Planned
<1>7. Recorded'
  BY DEF DeployInv, Recorded, RecordedOnce
<1> QED
  BY <1>2, <1>5, <1>6, <1>7 DEF DeployInv

\* The same outside the critical section, with no change to what r has.
LEMMA WalkStep ==
  ASSUME DeployInv, TypeInv', NEW r \in Runner, NEW label \in Ensuring \cup {"list"},
         Goto(r, label), pc[r] \notin Critical,
         UNCHANGED <<trx, todo, wrapped, batch, rows, losses>>,
         lockRows' = lockRows \/ lockRows' = Append(lockRows, 0),
         UNCHANGED outcome \/ outcome' = [outcome EXCEPT ![r] = "none"],
         label = "list" => lockRows' # <<>>,
         op' = op \/ op' = [op EXCEPT ![r] = op'[r]],
         op'[r].kind \in {"latest", "up", "list"}
  PROVE  DeployInv'
<1>1. /\ label \in Labels
      /\ label \notin {"lastBatch", "lock"} \cup Unlocking \cup Critical
      /\ label \notin {"batch", "run", "record", "free"}
  BY DEF Labels, Ensuring, Listing, Unlocking, Critical
<1>2. pc'[r] = label /\ Elsewhere(r)
  BY DEF DeployInv, TypeInv, RunnerTypes, Goto, Elsewhere, trx
<1>3. held'[r] = {}
  BY DEF DeployInv, Unseen, trx
<1>4. PlannedFor(r)'
  <2>1. pc[r] \notin {"run", "record", "free"}
    BY DEF Critical
  <2> QED
    BY <1>1, <1>2, <2>1 DEF DeployInv, Planned, PlannedFor, trx
<1> QED
  BY <1>1, <1>2, <1>3, <1>4, MoveStep

-----------------------------------------------------------------------------
LEMMA StartDeploys ==
  ASSUME Wrapping, DeployInv, TypeInv', NEW r \in Runner, Start(r)
  PROVE  DeployInv'
<1>1. PICK o \in Ops :
        op' = [op EXCEPT ![r] = o] /\ Goto(r, IF o.kind = "unlock" THEN "unlock" ELSE "hasTable")
  BY DEF Start
<1>2. o.kind \in {"latest", "up", "list"}
  BY DEF Wrapping
<1>3. Goto(r, "hasTable") /\ op'[r] = o
  BY <1>1, <1>2 DEF DeployInv, TypeInv, RunnerTypes
<1>4. pc[r] \notin Critical
  BY DEF Start, Critical
<1>5. UNCHANGED <<trx, todo, wrapped, batch, rows, losses, lockRows>>
      /\ outcome' = [outcome EXCEPT ![r] = "none"]
  BY DEF Start, db
<1>6. op' = [op EXCEPT ![r] = op'[r]]
  BY <1>1, <1>3
<1>7. "hasTable" \in Ensuring \cup {"list"} /\ "hasTable" # "list"
  BY DEF Ensuring
<1> QED
  BY <1>2, <1>3, <1>4, <1>5, <1>6, <1>7, WalkStep

LEMMA EnsureDeploys ==
  ASSUME DeployInv, TypeInv', NEW r \in Runner, Ensure(r)
  PROVE  DeployInv'
<1>1. pc[r] \notin Critical /\ pc[r] # "idle"
  BY DEF Ensure, HasTable, CreateMigrationTable, CreateLockTable, SelectLock, InsertLock,
         Critical
<1>2. op[r].kind \in {"latest", "up", "list"} /\ losses \in Nat /\ losses >= losses
  BY <1>1 DEF DeployInv, Surrounded, TypeInv, BoundTypes
<1>3. {"hasTable", "createTable", "hasLock", "createLock", "peek", "recheck", "insertLock"}
        \subseteq Ensuring
  BY DEF Ensuring
<1>4. ASSUME NEW label \in Ensuring \cup {"list"}, Goto(r, label),
             UNCHANGED <<trx, task, outcome, rows, losses>>,
             lockRows' = lockRows \/ lockRows' = Append(lockRows, 0),
             label = "list" => lockRows' # <<>>
      PROVE  DeployInv'
  BY <1>1, <1>2, <1>4, WalkStep DEF task
<1>5. CASE HasTable(r)
  <2>1. PICK label \in {"hasLock", "createTable", "peek", "createLock"} : Goto(r, label)
    BY <1>5 DEF HasTable
  <2>2. UNCHANGED <<trx, task, outcome, rows, losses, lockRows>>
    BY <1>5 DEF HasTable, db, bounds
  <2>3. label \in Ensuring \cup {"list"} /\ label # "list"
    BY <1>3
  <2> QED
    BY <1>4, <2>1, <2>2, <2>3
<1>6. ASSUME NEW table, NEW then \in {"hasLock", "peek"}, CreateTable(r, table, then)
      PROVE  DeployInv'
  <2>1. UNCHANGED <<rows, lockRows, losses>>
    BY <1>6 DEF CreateTable, bounds
  <2>2. CASE table \in tables
    BY <1>2, <1>6, <2>1, <2>2, SettleStep DEF CreateTable
  <2>3. CASE table \notin tables
    <3>1. then \in Ensuring \cup {"list"} /\ then # "list"
      BY <1>3
    <3> QED
      BY <1>4, <1>6, <2>1, <2>3, <3>1 DEF CreateTable
  <2> QED
    BY <2>2, <2>3
<1>7. CASE CreateMigrationTable(r) \/ CreateLockTable(r)
  BY <1>6, <1>7 DEF CreateMigrationTable, CreateLockTable
<1>8. CASE SelectLock(r)
  <2>1. PICK label \in {"recheck", "insertLock", "list"} :
          Goto(r, label) /\ (label = "list" => lockRows # <<>>)
    BY <1>8 DEF SelectLock
  <2>2. UNCHANGED <<trx, task, outcome, rows, losses, lockRows>>
    BY <1>8 DEF SelectLock, db, bounds
  <2>3. label \in Ensuring \cup {"list"}
    BY <1>3
  <2> QED
    BY <1>4, <2>1, <2>2, <2>3
<1>9. CASE InsertLock(r)
  <2>1. Append(lockRows, 0) # <<>>
    <3>1. lockRows \in Seq({0, 1})
      BY DEF DeployInv, TypeInv, DatabaseTypes
    <3>2. Len(Append(lockRows, 0)) = Len(lockRows) + 1 /\ Len(lockRows) \in Nat
      BY <3>1
    <3> QED
      BY <3>2
  <2> QED
    BY <1>4, <1>9, <2>1 DEF InsertLock, bounds
<1> QED
  BY <1>5, <1>7, <1>8, <1>9 DEF Ensure

\* Migrations are picked in their order.
LEMMA PickedInOrder ==
  ASSUME TypeInv, NEW r \in Runner, op[r].kind \in {"latest", "up"}
  PROVE  Increasing(Picked(r))
<1>1. NewMigrations(r) \in SUBSET Nat /\ IsFiniteSet(NewMigrations(r))
  <2>1. NewMigrations(r) \subseteq Mig
    BY MigratorAssumption DEF NewMigrations
  <2> QED
    BY <2>1, MigratorAssumption, FS_Subset
<1> DEFINE new == Ascending(NewMigrations(r))
<1>2. Increasing(new)
  BY <1>1, AscendingLists
<1>3. \A x : Increasing(<<x>>)
  BY DEF Increasing
<1>4. Increasing(FirstOf(new))
  BY <1>3 DEF FirstOf, Increasing
<1> HIDE DEF new
<1>5. \/ Picked(r) = <<op[r].name>>
      \/ Picked(r) = new
      \/ Picked(r) = FirstOf(new)
  <2>1. CASE op[r].kind = "latest"
    BY <2>1, Zenon DEF Picked, new
  <2>2. CASE op[r].kind = "up"
    BY <2>2, Zenon DEF Picked, new
  <2> QED
    BY <2>1, <2>2
<1> QED
  BY <1>2, <1>3, <1>4, <1>5

LEMMA ListDeploys ==
  ASSUME Wrapping, DeployInv, TypeInv', NEW r \in Runner, List(r)
  PROVE  DeployInv'
<1>1. op[r].kind \in {"latest", "up", "list"} /\ losses \in Nat /\ losses >= losses
  BY DEF List, DeployInv, Surrounded, TypeInv, BoundTypes
<1>2. UNCHANGED <<rows, lockRows, losses>>
  BY DEF List, db, bounds
<1>3. ASSUME NEW result \in {"failed", "done"}, Finished(r, result)
      PROVE  DeployInv'
  BY <1>1, <1>2, <1>3, SettleStep
<1>4. CASE Corrupt(r) \/ NotFound(r) \/ op[r].kind = "list"
  BY <1>3, <1>4 DEF List
<1>5. CASE ~(Corrupt(r) \/ NotFound(r) \/ op[r].kind = "list")
  <2> DEFINE ms == Picked(r)
  <2>1. /\ todo' = [todo EXCEPT ![r] = ms]
        /\ wrapped' = [wrapped EXCEPT ![r] = TransactionForAll(r, ms)]
        /\ UNCHANGED <<held, pending, op, batch, outcome>>
        /\ Goto(r, IF op[r].kind = "rollback" THEN "lastBatch" ELSE "lock")
    BY <1>5 DEF List, trx
  <2>2. op[r].kind # "rollback" /\ Goto(r, "lock")
    BY <1>1, <2>1
  <2>3. Up(r) /\ ms \in Seq(Mig) /\ Increasing(ms)
    <3>1. op[r].kind \in {"latest", "up"}
      BY <1>1, <1>5
    <3> QED
      BY <3>1, PickedInOrder, PickedTypes DEF DeployInv, TypeInv, DatabaseTypes, RunnerTypes, Up
  <2> HIDE DEF ms
  <2>4. TransactionForAll(r, ms)
    <3>1. \A m \in ToSet(ms) : m \in Mig
      BY <2>3 DEF ToSet
    <3> QED
      BY <2>3, <3>1 DEF Wrapping, TransactionForAll
  <2>5. todo'[r] = ms /\ wrapped'[r] /\ Up(r)'
    BY <2>1, <2>3, <2>4 DEF DeployInv, TypeInv, RunnerTypes, Up
  <2>6. Elsewhere(r)
    BY <2>1, <2>2 DEF DeployInv, TypeInv, RunnerTypes, Goto, Elsewhere
  <2>7. pc[r] = "list" /\ pc[r] \notin Critical /\ held'[r] = {} /\ pending'[r] = <<>>
        /\ pc'[r] = "lock"
    <3>1. pc[r] = "list" /\ pc[r] \notin Critical
      BY DEF List, Critical
    <3> QED
      BY <2>1, <2>2, <3>1 DEF DeployInv, TypeInv, RunnerTypes, Unseen, Planned, PlannedFor, Goto
  <2>8. PlannedFor(r)'
    BY <2>3, <2>5, <2>7 DEF PlannedFor
  <2>9. /\ "lock" \in Labels /\ "lock" \notin Critical
        /\ "lock" \notin {"lastBatch"} \cup Unlocking
    BY DEF Labels, Critical, Unlocking
  <2>10. lockRows' # <<>>
    BY <1>2, <2>7 DEF DeployInv, Unseen
  <2>11. op'[r].kind \in {"latest", "up", "list"} /\ UNCHANGED <<rows, losses, lockRows, outcome>>
    BY <1>1, <1>2, <2>1
  <2> QED
    BY <2>2, <2>5, <2>6, <2>7, <2>8, <2>9, <2>10, <2>11, MoveStep
<1> QED
  BY <1>4, <1>5

-----------------------------------------------------------------------------
\* An UPDATE of free rows changes as many as there are.
LEMMA AllUnlocked ==
  ASSUME lockRows \in Seq({0, 1}), \A i \in DOMAIN lockRows : lockRows[i] = 0,
         lockRows # <<>>
  PROVE  Unlocked # {} /\ (Cardinality(Unlocked) # 1 => Len(lockRows) > 1)
<1>1. Unlocked = 1 .. Len(lockRows) /\ Len(lockRows) \in Nat /\ Len(lockRows) # 0
  BY DEF Unlocked
<1>2. Cardinality(1 .. Len(lockRows)) = Len(lockRows)
  BY <1>1, FS_Interval
<1> QED
  BY <1>1, <1>2

LEMMA LockDeploys ==
  ASSUME DeployInv, TypeInv', NEW r \in Runner, Lock(r) \/ LockFails(r)
  PROVE  DeployInv'
<1>1. pc[r] = "lock" /\ wrapped[r] /\ Up(r) /\ lockRows # <<>> /\ losses \in Nat
  BY DEF Lock, LockFails, DeployInv, Surrounded, Unseen, TypeInv, BoundTypes
<1>2. /\ Unlocked # {} /\ (Cardinality(Unlocked) # 1 => Len(lockRows) > 1)
  BY <1>1, AllUnlocked DEF DeployInv, Unseen, TypeInv, DatabaseTypes
<1>3. CASE LockFails(r)
  <2>1. UNCHANGED <<rows, lockRows>> /\ losses' = losses + 1 /\ Finished(r, "locked")
    BY <1>1, <1>3 DEF LockFails
  <2>2. losses' >= losses /\ losses' > 0
    BY <1>1, <2>1
  <2> QED
    BY <2>1, <2>2, SettleStep
<1>4. CASE Lock(r) /\ Cardinality(Unlocked) # 1
  <2>1. UNCHANGED <<rows, lockRows, losses>> /\ Finished(r, "locked")
    BY <1>4 DEF Lock, bounds
  <2>2. losses' >= losses
    BY <1>1, <2>1
  <2> QED
    BY <1>2, <1>4, <2>1, <2>2, SettleStep
<1>5. CASE Lock(r) /\ Cardinality(Unlocked) = 1
  <2>1. /\ held' = [held EXCEPT ![r] = Unlocked] /\ Goto(r, "relist")
        /\ UNCHANGED <<lockRows, pending, op, todo, wrapped, batch, outcome, rows, losses>>
    BY <1>1, <1>5 DEF Lock, task, bounds
  <2>2. \A q \in Runner \ {r} : pc[q] \notin Critical
    BY <1>5 DEF Lock, Blocked, DeployInv, Unseen
  <2>3. Elsewhere(r) /\ pc'[r] = "relist" /\ held'[r] = Unlocked
    BY <2>1 DEF DeployInv, TypeInv, RunnerTypes, Goto, Elsewhere
  <2>4. PlannedFor(r)'
    BY <1>1, <2>1, <2>3 DEF DeployInv, Planned, PlannedFor
  <2>5. /\ "relist" \in Labels /\ "relist" \in Critical
        /\ "relist" \notin {"lastBatch"} \cup Unlocking
    BY DEF Labels, Critical, Unlocking
  <2>6. op'[r].kind \in {"latest", "up", "list"} /\ wrapped'[r] /\ Up(r)'
    BY <1>1, <2>1 DEF Up
  <2> QED
    BY <1>1, <1>2, <2>1, <2>2, <2>3, <2>4, <2>5, <2>6, MoveStep
<1> QED
  BY <1>3, <1>4, <1>5

\* What is left of a batch that has run nothing is all of it.
LEMMA WholeIsTodo ==
  ASSUME NEW p, NEW s \in Seq(Mig), p = <<>>
  PROVE  Names(p) \o s = s
<1>1. Names(p) = <<>>
  BY DEF Names
<1> QED
  BY <1>1

\* Running a migration moves it, and changes nothing in the whole batch.
LEMMA WholeStays ==
  ASSUME NEW p \in Seq(Row), NEW s \in Seq(Mig), s # <<>>,
         NEW row \in Row, row.name = Head(s)
  PROVE  Names(Append(p, row)) \o Tail(s) = Names(p) \o s
<1> DEFINE n == Len(p)
           k == Len(s)
<1>1. n \in Nat /\ k \in Nat /\ k # 0 /\ DOMAIN p = 1 .. n
  OBVIOUS
<1>2. \A i \in 1 .. n : p[i] \in Row
  OBVIOUS
<1>3. Names(p) \in [1 .. n -> Mig] /\ Names(p) \in Seq(Mig) /\ Len(Names(p)) = n
  <2>1. Names(p) \in [1 .. n -> Mig]
    BY <1>1, <1>2 DEF Names, Row
  <2> QED
    BY <1>1, <2>1
<1>4. Names(Append(p, row)) = Append(Names(p), row.name)
  <2> DEFINE x == Append(p, row)
             y == Append(Names(p), row.name)
  <2>1. /\ DOMAIN x = 1 .. n + 1 /\ x[n + 1] = row /\ \A i \in 1 .. n : x[i] = p[i]
        /\ DOMAIN y = 1 .. n + 1 /\ y[n + 1] = row.name
        /\ \A i \in 1 .. n : y[i] = Names(p)[i]
    <3> HIDE DEF n
    <3>1. /\ DOMAIN x = 1 .. n + 1 /\ x[n + 1] = row /\ \A i \in 1 .. n : x[i] = p[i]
      BY <1>1 DEF n
    <3>2. row.name \in Mig
      BY DEF Row
    <3> DEFINE a == Names(p)
               b == row.name
    <3> HIDE DEF a, b
    <3>3. /\ DOMAIN Append(a, b) = 1 .. n + 1 /\ Append(a, b)[n + 1] = b
          /\ \A i \in 1 .. n : Append(a, b)[i] = a[i]
      <4>1. a \in Seq(Mig) /\ Len(a) = n /\ b \in Mig
        BY <1>3, <3>2 DEF a, b
      <4> QED
        BY <1>1, <4>1
    <3> QED
      BY <3>1, <3>3 DEF a, b
  <2>2. \A i \in 1 .. n + 1 : i # n + 1 => i \in 1 .. n
    BY <1>1
  <2>3. \A i \in 1 .. n : Names(p)[i] = p[i].name
    BY <1>1 DEF Names
  <2> HIDE DEF x, y
  <2>4. \A i \in 1 .. n + 1 : x[i].name = y[i]
    BY <2>1, <2>2, <2>3
  <2>5. Names(x) = [i \in 1 .. n + 1 |-> x[i].name]
    BY <2>1 DEF Names
  <2>6. y = [i \in 1 .. n + 1 |-> y[i]]
    <3>1. y \in Seq(Mig)
      <4>1. Names(p) \in Seq(Mig) /\ row.name \in Mig
        BY <1>3 DEF Row
      <4> QED
        BY <4>1 DEF y
    <3> QED
      BY <2>1, <3>1
  <2> QED
    BY <2>4, <2>5, <2>6 DEF x, y
<1>5. row.name \in Mig
  BY DEF Row
<1> DEFINE a == Names(p)
<1> HIDE DEF a
<1>6. Append(a, Head(s)) \o Tail(s) = a \o s
  <2>1. a \in Seq(Mig)
    BY <1>3 DEF a
  <2> QED
    BY <2>1
<1> QED
  BY <1>4, <1>6 DEF a

\* What is selected from a list in ascending order is in ascending order.
LEMMA SelectedInOrder ==
  ASSUME NEW s \in Seq(Mig), Increasing(s), NEW I \in SUBSET DOMAIN s
  PROVE  /\ Selected(s, I) \in Seq(Mig) /\ Increasing(Selected(s, I))
         /\ \A k \in DOMAIN Selected(s, I) : \E i \in I : Selected(s, I)[k] = s[i]
<1> DEFINE n == Cardinality(I)
           t == Selected(s, I)
<1>1. /\ t \in Seq(Mig) /\ Len(t) = n /\ n \in Nat
      /\ \A k \in 1 .. n : \E i \in I : t[k] = s[i]
      /\ \A k, l \in 1 .. n : k < l => \E i, j \in I : i < j /\ t[k] = s[i] /\ t[l] = s[j]
  BY SelectedPart
<1> HIDE DEF n, t
<1>2. DOMAIN t = 1 .. n
  BY <1>1
<1>3. \A i, j \in I : i < j => s[i] < s[j]
  BY DEF Increasing
<1>4. Increasing(t)
  BY <1>1, <1>2, <1>3 DEF Increasing
<1> QED
  BY <1>1, <1>2, <1>4 DEF t

LEMMA RelistDeploys ==
  ASSUME DeployInv, TypeInv', NEW r \in Runner, Relist(r)
  PROVE  DeployInv'
<1> DEFINE I == {i \in DOMAIN todo[r] : todo[r][i] \notin Completed}
           rest == Selected(todo[r], I)
<1>1. /\ pc[r] = "relist" /\ wrapped[r] /\ Up(r) /\ lockRows # <<>> /\ pc[r] \in Critical
      /\ held[r] # {} /\ pending[r] = <<>> /\ todo[r] \in Seq(Mig) /\ Increasing(todo[r])
  <2>1. pc[r] = "relist" /\ pc[r] \in Critical
    BY DEF Relist, Critical
  <2> QED
    BY <2>1 DEF DeployInv, TypeInv, RunnerTypes, Surrounded, Unseen, Planned, PlannedFor
<1>2. /\ todo' = [todo EXCEPT ![r] = rest] /\ Goto(r, "batch")
      /\ UNCHANGED <<rows, lockRows, losses, held, pending, op, wrapped, batch, outcome>>
  BY DEF Relist, db, trx, bounds
<1>3. I \in SUBSET DOMAIN todo[r] /\ \A i \in I : todo[r][i] \notin Completed
  OBVIOUS
<1> HIDE DEF I
<1>4. /\ rest \in Seq(Mig) /\ Increasing(rest)
      /\ \A k \in DOMAIN rest : \E i \in I : rest[k] = todo[r][i]
  BY <1>1, <1>3, SelectedInOrder
<1>5. \A k \in DOMAIN rest : rest[k] \notin Completed
  BY <1>3, <1>4
<1> HIDE DEF rest
<1>6. Elsewhere(r) /\ pc'[r] = "batch" /\ todo'[r] = rest
  BY <1>2 DEF DeployInv, TypeInv, RunnerTypes, Goto, Elsewhere
<1>7. Whole(r)' = rest
  BY <1>1, <1>2, <1>4, <1>6, WholeIsTodo DEF Whole
<1>8. Completed' = Completed
  BY <1>2 DEF Completed
<1>9. PlannedFor(r)'
  BY <1>1, <1>2, <1>4, <1>5, <1>6, <1>7, <1>8 DEF PlannedFor
<1>10. /\ "batch" \in Labels /\ "batch" \in Critical
       /\ "batch" \notin {"lastBatch"} \cup Unlocking
  BY DEF Labels, Critical, Unlocking
<1>11. op'[r].kind \in {"latest", "up", "list"} /\ wrapped'[r] /\ Up(r)' /\ held'[r] # {}
  BY <1>1, <1>2 DEF Up
<1>12. \A q \in Runner \ {r} : pc[q] \notin Critical
  BY <1>1 DEF DeployInv, Unseen, MutualExclusion
<1> QED
  BY <1>1, <1>2, <1>6, <1>9, <1>10, <1>11, <1>12, MoveStep

\* From one statement of a batch to the next.
LEMMA BatchGoesOn ==
  ASSUME DeployInv, TypeInv', NEW r \in Runner, NEW label \in Critical, Goto(r, label),
         pc[r] \in Critical, Elsewhere(r), PlannedFor(r)',
         UNCHANGED <<rows, lockRows, losses, held, op, wrapped, outcome>>
  PROVE  DeployInv'
<1>1. /\ label \in Labels /\ label \notin {"lastBatch"} \cup Unlocking
      /\ pc[r] # "idle"
  BY DEF Labels, Critical, Unlocking
<1>2. lockRows # <<>> /\ held[r] # {} /\ op[r].kind \in {"latest", "up", "list"}
      /\ wrapped[r] /\ Up(r)
  BY <1>1 DEF DeployInv, Unseen, Surrounded
<1>3. \A q \in Runner \ {r} : pc[q] \notin Critical
  BY DEF DeployInv, Unseen, MutualExclusion
<1>4. Up(r)'
  BY <1>2 DEF Up
<1> QED
  BY <1>1, <1>2, <1>3, <1>4, MoveStep

LEMMA ReadBatchDeploys ==
  ASSUME DeployInv, TypeInv', NEW r \in Runner, ReadBatch(r)
  PROVE  DeployInv'
<1>1. pc[r] = "batch" /\ pc[r] \in Critical
  BY DEF ReadBatch, Critical
<1>2. PICK label \in {"run", "free", "cleanup"} :
        Goto(r, label) /\ (label # "cleanup" => batch' = [batch EXCEPT ![r] = BatchNumber(r)])
  BY DEF ReadBatch, Proceed
<1>3. /\ UNCHANGED <<rows, lockRows, losses, held, pending, op, todo, wrapped, outcome>>
      /\ batch' = batch \/ batch' = [batch EXCEPT ![r] = BatchNumber(r)]
  BY DEF ReadBatch, db, trx, bounds
<1>4. Elsewhere(r) /\ pc'[r] = label /\ (label # "cleanup" => batch'[r] = BatchNumber(r))
  BY <1>2, <1>3 DEF DeployInv, TypeInv, RunnerTypes, Goto, Elsewhere
<1>5. BatchNumber(r) = LatestBatch + 1
  BY <1>1 DEF DeployInv, Surrounded, BatchNumber
<1>6. PlannedFor(r)'
  <2>1. pending[r] = <<>> /\ pending'[r] = <<>> /\ todo'[r] = todo[r]
    BY <1>1, <1>3 DEF DeployInv, Planned, PlannedFor
  <2>2. /\ Increasing(todo[r]) /\ Increasing(Whole(r))
        /\ \A i \in DOMAIN Whole(r) : Whole(r)[i] \notin Completed
    BY <1>1 DEF DeployInv, Planned, PlannedFor
  <2>3. Whole(r)' = Whole(r) /\ Completed' = Completed /\ LatestBatch' = LatestBatch
    BY <1>3 DEF Whole, Names, Completed, LatestBatch
  <2>4. \A i \in DOMAIN pending'[r] : FALSE
    BY <2>1
  <2>5. Increasing(todo'[r]) /\ Increasing(Whole(r)')
    BY <2>1, <2>2, <2>3
  <2>6. label # "cleanup" => batch'[r] = LatestBatch' + 1
    BY <1>4, <1>5, <2>3
  <2> QED
    BY <1>4, <2>1, <2>2, <2>3, <2>4, <2>5, <2>6 DEF PlannedFor
<1>7. label \in Critical
  BY DEF Critical
<1> QED
  BY <1>1, <1>2, <1>3, <1>4, <1>6, <1>7, BatchGoesOn

LEMMA RunDeploys ==
  ASSUME DeployInv, TypeInv', NEW r \in Runner, Run(r)
  PROVE  DeployInv' /\ UNCHANGED schema
<1>1. pc[r] = "run" /\ pc[r] \in Critical /\ "record" \in Critical
  BY DEF Run, Critical
<1>2. wrapped[r]
  BY <1>1 DEF DeployInv, Surrounded
<1>3. /\ UNCHANGED <<rows, schema, lockRows, losses, held, pending, op, todo, wrapped,
                     batch, outcome>>
      /\ Goto(r, "record")
  BY <1>2 DEF Run, trx, task, bounds
<1>4. Elsewhere(r) /\ pc'[r] = "record"
  BY <1>3 DEF DeployInv, TypeInv, RunnerTypes, Goto, Elsewhere
<1>5. PlannedFor(r)'
  <2>1. Whole(r)' = Whole(r) /\ Completed' = Completed /\ LatestBatch' = LatestBatch
    BY <1>3 DEF Whole, Names, Completed, LatestBatch
  <2> QED
    BY <1>1, <1>3, <1>4, <2>1 DEF DeployInv, Planned, PlannedFor
<1> QED
  BY <1>1, <1>3, <1>4, <1>5, BatchGoesOn

LEMMA RecordDeploys ==
  ASSUME DeployInv, TypeInv', NEW r \in Runner, Record(r)
  PROVE  DeployInv' /\ UNCHANGED <<rows, schema>>
<1> DEFINE row == [name |-> Head(todo[r]), batch |-> batch[r]]
<1>1. pc[r] = "record" /\ pc[r] \in Critical
  BY DEF Record, Critical
<1>2. wrapped[r]
  BY <1>1 DEF DeployInv, Surrounded
<1>3. /\ UNCHANGED <<rows, schema, lockRows, losses, held, op, wrapped, batch, outcome>>
      /\ pending' = [pending EXCEPT ![r] = Append(pending[r], row)]
      /\ todo' = [todo EXCEPT ![r] = Tail(todo[r])]
  BY <1>2 DEF Record, bounds
<1>4. PICK label \in {"run", "free"} : Goto(r, label)
  BY DEF Record, Proceed
<1>5. /\ todo[r] # <<>> /\ todo[r] \in Seq(Mig) /\ pending[r] \in Seq(Row)
      /\ batch[r] \in Nat
  BY <1>1 DEF DeployInv, TypeInv, Busy, RunnerTypes
<1>6. row \in Row /\ row.name = Head(todo[r]) /\ row.batch = batch[r]
  BY <1>5 DEF Row
<1>7. Elsewhere(r) /\ pc'[r] = label /\ todo'[r] = Tail(todo[r])
      /\ pending'[r] = Append(pending[r], row)
  BY <1>3, <1>4 DEF DeployInv, TypeInv, RunnerTypes, Goto, Elsewhere
<1> HIDE DEF row
<1>8. Whole(r)' = Whole(r)
  BY <1>5, <1>6, <1>7, WholeStays DEF Whole
<1>9. Completed' = Completed /\ LatestBatch' = LatestBatch
  BY <1>3 DEF Completed, LatestBatch
<1>10. PlannedFor(r)'
  <2>1. /\ Increasing(todo[r]) /\ Increasing(Whole(r)) /\ batch[r] = LatestBatch + 1
        /\ \A i \in DOMAIN Whole(r) : Whole(r)[i] \notin Completed
        /\ \A i \in DOMAIN pending[r] : pending[r][i].batch = batch[r]
    BY <1>1 DEF DeployInv, Planned, PlannedFor
  <2>2. Increasing(Tail(todo[r]))
    <3>1. /\ DOMAIN todo[r] = 1 .. Len(todo[r]) /\ Len(todo[r]) \in Nat
          /\ DOMAIN Tail(todo[r]) = 1 .. Len(todo[r]) - 1
          /\ \A i \in 1 .. Len(todo[r]) - 1 : Tail(todo[r])[i] = todo[r][i + 1]
      BY <1>5
    <3>2. \A i, j \in 1 .. Len(todo[r]) - 1 :
            i < j => i + 1 \in 1 .. Len(todo[r]) /\ j + 1 \in 1 .. Len(todo[r]) /\ i + 1 < j + 1
      BY <3>1
    <3> QED
      BY <2>1, <3>1, <3>2 DEF Increasing
  <2>3. /\ DOMAIN Append(pending[r], row) = DOMAIN pending[r] \cup {Len(pending[r]) + 1}
        /\ \A i \in DOMAIN pending[r] : Append(pending[r], row)[i] = pending[r][i]
        /\ Append(pending[r], row)[Len(pending[r]) + 1] = row
    BY <1>5, <1>6
  <2>4. \A i \in DOMAIN pending'[r] : pending'[r][i].batch = batch'[r]
    BY <1>3, <1>6, <1>7, <2>1, <2>3
  <2>5. Increasing(todo'[r]) /\ Increasing(Whole(r)') /\ batch'[r] = LatestBatch' + 1
        /\ \A i \in DOMAIN Whole(r)' : Whole(r)'[i] \notin Completed'
    BY <1>3, <1>7, <1>8, <1>9, <2>1, <2>2
  <2>6. pc'[r] \in {"run", "record", "free"}
    BY <1>7
  <2> QED
    BY <2>4, <2>5, <2>6 DEF PlannedFor
<1>11. label \in Critical
  BY DEF Critical
<1> QED
  BY <1>1, <1>3, <1>4, <1>7, <1>10, <1>11, BatchGoesOn

-----------------------------------------------------------------------------
\* Rows in the order of their batches: the latest batch is that of the last row.
LEMMA NextIsLast ==
  ASSUME rows \in Seq(Row), Recorded
  PROVE  Deployed!NextBatch = LatestBatch + 1
<1> DEFINE n == Len(rows)
<1>1. n \in Nat /\ DOMAIN rows = 1 .. n
  OBVIOUS
<1>2. CASE rows = <<>>
  BY <1>2 DEF Deployed!NextBatch, LatestBatch
<1>3. CASE rows # <<>>
  <2>1. n # 0
    BY <1>3
  <2>2. n \in DOMAIN rows
    BY <1>1, <2>1
  <2>3. PICK i \in DOMAIN rows : LatestBatch = rows[i].batch
    BY <1>3, LatestBatchIs
  <2>4. rows[n].batch <= rows[i].batch
    BY <2>2, <2>3, LatestBatchIs
  <2>5. i = n \/ i < n
    BY <1>1
  <2>6. rows[i].batch <= rows[n].batch
    <3>1. rows[i].batch \in Nat
      BY <2>3, LatestBatchIs
    <3>2. CASE i = n
      BY <3>1, <3>2
    <3>3. CASE i < n
      BY <2>2, <3>3 DEF Recorded
    <3> QED
      BY <2>5, <3>2, <3>3
  <2>7. rows[i].batch \in Nat /\ rows[n].batch \in Nat
    <3>1. rows[i] \in Row /\ rows[n] \in Row
      BY <2>2
    <3> QED
      BY <3>1 DEF Row
  <2>8. rows[n].batch = LatestBatch
    BY <2>3, <2>4, <2>6, <2>7
  <2> QED
    BY <1>3, <2>8 DEF Deployed!NextBatch
<1> QED
  BY <1>2, <1>3

\* What r is about to commit: in order, not recorded, and of the next batch.
LEMMA ReadyToCommit ==
  ASSUME DeployInv, NEW r \in Runner, pc[r] = "free"
  PROVE  /\ rows \in Seq(Row) /\ pending[r] \in Seq(Row)
         /\ Names(pending[r]) \in Seq(Mig) /\ Increasing(Names(pending[r]))
         /\ \A i \in DOMAIN pending[r] : /\ pending[r][i] \in Row
                                         /\ pending[r][i].name \notin Completed
                                         /\ pending[r][i].batch = LatestBatch + 1
<1> DEFINE p == pending[r]
           n == Len(p)
           a == Names(p)
           s == todo[r]
<1>1. rows \in Seq(Row) /\ p \in Seq(Row) /\ s \in Seq(Mig)
  BY DEF DeployInv, TypeInv, DatabaseTypes, RunnerTypes
<1>2. n \in Nat /\ DOMAIN p = 1 .. n /\ \A i \in 1 .. n : p[i] \in Row
  BY <1>1
<1>3. a \in [1 .. n -> Mig] /\ \A i \in 1 .. n : a[i] = p[i].name
  BY <1>2 DEF Names, Row
<1>4. /\ Increasing(a \o s) /\ \A i \in DOMAIN (a \o s) : (a \o s)[i] \notin Completed
      /\ \A i \in DOMAIN p : p[i].batch = LatestBatch + 1
  BY DEF DeployInv, Planned, PlannedFor, Whole
<1> HIDE DEF a, n, s, p
<1>5. /\ a \in Seq(Mig)
      /\ \A i \in 1 .. n : i \in DOMAIN (a \o s) /\ (a \o s)[i] = a[i]
  BY <1>1, <1>2, <1>3
<1>6. DOMAIN a = 1 .. n
  BY <1>3
<1>7. Increasing(a)
  BY <1>4, <1>5, <1>6 DEF Increasing
<1>8. \A i \in 1 .. n : p[i].name \notin Completed
  BY <1>3, <1>4, <1>5
<1> QED
  BY <1>1, <1>2, <1>4, <1>5, <1>7, <1>8 DEF a, p

\* Committing it keeps the record: no name twice, batches in order.
LEMMA CommitRecorded ==
  ASSUME DeployInv, NEW r \in Runner, pc[r] = "free", rows' = rows \o pending[r]
  PROVE  Recorded'
<1> DEFINE p == pending[r]
           n == Len(rows)
           k == Len(p)
<1>1. /\ rows \in Seq(Row) /\ p \in Seq(Row) /\ Names(p) \in Seq(Mig) /\ Increasing(Names(p))
      /\ \A i \in DOMAIN p : /\ p[i] \in Row /\ p[i].name \notin Completed
                             /\ p[i].batch = LatestBatch + 1
  BY ReadyToCommit
<1>2. /\ n \in Nat /\ k \in Nat /\ DOMAIN rows = 1 .. n /\ DOMAIN p = 1 .. k
      /\ DOMAIN rows' = 1 .. n + k
      /\ \A i \in 1 .. n : rows'[i] = rows[i]
      /\ \A i \in 1 .. k : rows'[n + i] = p[i]
  BY <1>1
<1>3. \A i \in 1 .. n + k : i \in 1 .. n \/ \E j \in 1 .. k : i = n + j
  <2> SUFFICES ASSUME NEW i \in 1 .. n + k, i \notin 1 .. n
               PROVE  \E j \in 1 .. k : i = n + j
    OBVIOUS
  <2>1. i - n \in 1 .. k /\ i = n + (i - n)
    BY <1>2
  <2> QED
    BY <2>1
<1>4. /\ LatestBatch \in Nat /\ \A i \in 1 .. n : rows[i].batch <= LatestBatch
      /\ \A i \in 1 .. n : rows[i].batch \in Nat
  <2>1. \A i \in 1 .. n : rows[i] \in Row
    BY <1>1
  <2> QED
    BY <1>1, <1>2, <2>1, LatestBatchIs DEF Row
<1>5. \A i, j \in 1 .. k : p[i].name = p[j].name => i = j
  <2> SUFFICES ASSUME NEW i \in 1 .. k, NEW j \in 1 .. k, p[i].name = p[j].name
               PROVE  i = j
    OBVIOUS
  <2> DEFINE a == Names(p)
  <2>1. a[i] = a[j] /\ i \in DOMAIN a /\ j \in DOMAIN a /\ a[i] \in Nat
    <3>1. p[i].name \in Nat
      BY <1>1, <1>2, MigratorAssumption DEF Row
    <3> QED
      BY <1>2, <3>1 DEF Names
  <2>2. (i < j => a[i] < a[j]) /\ (j < i => a[j] < a[i])
    BY <1>1, <2>1 DEF Increasing
  <2> HIDE DEF a
  <2>3. ~(i < j) /\ ~(j < i)
    BY <2>1, <2>2
  <2> QED
    BY <2>3
<1> HIDE DEF n, k
<1>6. ASSUME NEW i \in 1 .. n + k, NEW j \in 1 .. n + k, rows'[i].name = rows'[j].name
      PROVE  i = j
  <2>1. \A x \in 1 .. n : \A y \in 1 .. k : rows[x].name # p[y].name
    BY <1>1, <1>2 DEF Completed
  <2>2. CASE i \in 1 .. n /\ j \in 1 .. n
    BY <1>2, <1>6, <2>2 DEF DeployInv, Recorded, RecordedOnce
  <2>3. ASSUME NEW x \in 1 .. k, i = n + x, j \in 1 .. n
        PROVE  FALSE
    BY <1>2, <1>6, <2>1, <2>3
  <2>4. ASSUME NEW x \in 1 .. k, j = n + x, i \in 1 .. n
        PROVE  FALSE
    BY <1>2, <1>6, <2>1, <2>4
  <2>5. ASSUME NEW x \in 1 .. k, NEW y \in 1 .. k, i = n + x, j = n + y
        PROVE  i = j
    BY <1>2, <1>5, <1>6, <2>5
  <2> QED
    BY <1>3, <2>2, <2>3, <2>4, <2>5
<1>7. ASSUME NEW i \in 1 .. n + k, NEW j \in 1 .. n + k, i < j
      PROVE  rows'[i].batch <= rows'[j].batch
  <2>1. CASE i \in 1 .. n /\ j \in 1 .. n
    BY <1>2, <1>7, <2>1 DEF DeployInv, Recorded
  <2>2. ASSUME NEW x \in 1 .. k, j = n + x, i \in 1 .. n
        PROVE  rows'[i].batch <= rows'[j].batch
    <3>1. rows'[i].batch = rows[i].batch /\ rows'[j].batch = LatestBatch + 1
      BY <1>1, <1>2, <2>2
    <3> QED
      BY <1>4, <2>2, <3>1
  <2>3. ASSUME NEW x \in 1 .. k, i = n + x, j \in 1 .. n
        PROVE  FALSE
    BY <1>2, <1>7, <2>3
  <2>4. ASSUME NEW x \in 1 .. k, NEW y \in 1 .. k, i = n + x, j = n + y
        PROVE  rows'[i].batch <= rows'[j].batch
    <3>1. \A z \in 1 .. k : rows'[n + z].batch = LatestBatch + 1
      BY <1>1, <1>2
    <3>2. rows'[i].batch = LatestBatch + 1 /\ rows'[j].batch = LatestBatch + 1
      BY <2>4, <3>1
    <3> QED
      BY <1>4, <3>2
  <2> QED
    BY <1>3, <2>1, <2>2, <2>3, <2>4
<1> QED
  BY <1>2, <1>6, <1>7 DEF Recorded, RecordedOnce

-----------------------------------------------------------------------------
LEMMA CommitDeploys ==
  ASSUME DeployInv, TypeInv', NEW r \in Runner, CommitBatch(r)
  PROVE  DeployInv'
<1>1. pc[r] = "free" /\ pc[r] \in Critical
  BY DEF CommitBatch, Critical
<1>2. /\ Finished(r, "done") /\ lockRows' = AllRows(0) /\ rows' = rows \o pending[r]
      /\ UNCHANGED losses
  BY DEF CommitBatch, bounds
<1>3. losses' >= losses
  BY <1>2 DEF DeployInv, TypeInv, BoundTypes
<1> QED
  BY <1>1, <1>2, <1>3, CommitRecorded, SettleStep

\* The other ends of an operation: without a transaction there is none but this.
LEMMA EndDeploys ==
  ASSUME DeployInv, TypeInv', NEW r \in Runner,
         \/ LastBatch(r) \/ FreeLock(r) \/ CleanUp(r) \/ ForceFree(r)
         \/ CleanUpFails(r) \/ Fail(r) \/ Crash(r)
  PROVE  DeployInv' /\ UNCHANGED <<rows, schema>>
<1>1. ~LastBatch(r) /\ ~ForceFree(r)
  BY DEF LastBatch, ForceFree, Unlock, UnlockDelete, UnlockInsert, DeployInv, Surrounded,
         Unlocking
<1>2. ~FreeLock(r)
  BY DEF FreeLock, DeployInv, Surrounded, Critical
<1>3. losses \in Nat /\ losses + 1 >= losses /\ losses >= losses
  BY DEF DeployInv, TypeInv, BoundTypes
<1>4. pc[r] \in Critical => wrapped[r]
  BY DEF DeployInv, Surrounded
<1>5. UNCHANGED <<rows, schema>>
  BY <1>1, <1>2, <1>4 DEF CleanUp, CleanUpFails, Fail, Crash, Interrupted, db, Critical
<1>6. CASE CleanUp(r)
  BY <1>3, <1>5, <1>6, SettleStep DEF CleanUp, bounds
<1>7. CASE CleanUpFails(r)
  BY <1>3, <1>5, <1>7, SettleStep DEF CleanUpFails, db
<1>8. CASE Fail(r)
  <2>1. Finished(r, "failed") /\ UNCHANGED <<lockRows, losses>>
    BY <1>4, <1>8 DEF Fail
  <2> QED
    BY <1>3, <1>5, <2>1, SettleStep
<1>9. CASE Crash(r)
  BY <1>3, <1>5, <1>9, SettleStep DEF Crash
<1> QED
  BY <1>1, <1>2, <1>5, <1>6, <1>7, <1>8, <1>9

LEMMA InitDeploys ==
  ASSUME Init
  PROVE  DeployInv
<1>1. TypeInv
  BY InitTypes
<1>2. Surrounded
  BY DEF Init, Surrounded, Unlocking, Critical
<1>3. Unseen
  <2>1. \A i \in DOMAIN lockRows : lockRows[i] = 0
    BY DEF Init
  <2> QED
    BY <2>1 DEF Init, Unseen, MutualExclusion, Critical
<1>4. Planned
  BY DEF Init, Planned, PlannedFor, Increasing
<1>5. Recorded
  BY DEF Init, Recorded, RecordedOnce
<1> QED
  BY <1>1, <1>2, <1>3, <1>4, <1>5 DEF DeployInv

\* The steps that commit nothing are invisible to who looks at the database.
LEMMA Invisible ==
  ASSUME Wrapping, DeployInv, TypeInv', NEW r \in Runner,
         Start(r) \/ Step(r) \/ Fault(r), ~CommitBatch(r)
  PROVE  DeployInv' /\ UNCHANGED <<rows, schema>>
<1>1. CASE Start(r)
  BY <1>1, StartDeploys DEF Start, db
<1>2. CASE Ensure(r)
  <2>1. UNCHANGED <<rows, schema>>
    BY <1>2 DEF Ensure, HasTable, CreateMigrationTable, CreateLockTable, CreateTable,
                SelectLock, InsertLock, db
  <2> QED
    BY <1>2, <2>1, EnsureDeploys
<1>3. CASE List(r)
  BY <1>3, ListDeploys DEF List, db
<1>4. CASE Lock(r) \/ LockFails(r)
  BY <1>4, LockDeploys DEF Lock, LockFails
<1>5. CASE Relist(r)
  BY <1>5, RelistDeploys DEF Relist, db
<1>6. CASE ReadBatch(r)
  BY <1>6, ReadBatchDeploys DEF ReadBatch, db
<1>7. CASE Run(r)
  BY <1>7, RunDeploys DEF Run, DeployInv
<1>8. CASE Record(r)
  BY <1>8, RecordDeploys
<1>9. CASE LastBatch(r) \/ FreeLock(r) \/ CleanUp(r) \/ ForceFree(r)
           \/ CleanUpFails(r) \/ Fail(r) \/ Crash(r)
  BY <1>9, EndDeploys
<1> QED
  BY <1>1, <1>2, <1>3, <1>4, <1>5, <1>6, <1>7, <1>8, <1>9 DEF Step, RunBatch, Fault

LEMMA NextDeploys ==
  ASSUME Wrapping, DeployInv, [Next]_vars
  PROVE  DeployInv'
<1>1. TypeInv'
  BY NextTypes DEF DeployInv
<1>2. CASE UNCHANGED vars
  <2>1. UNCHANGED <<rows, lockRows, held, pending, pc, op, todo, wrapped, batch, outcome, losses>>
    BY <1>2 DEF vars, db, trx, task, bounds
  <2>2. Planned'
    BY <2>1, StillPlanned DEF DeployInv, Planned
  <2> QED
    BY <1>1, <2>1, <2>2 DEF DeployInv, Surrounded, Unseen, MutualExclusion, Recorded,
                            RecordedOnce, Up
<1>3. ASSUME NEW r \in Runner, Start(r) \/ Step(r) \/ Fault(r)
      PROVE  DeployInv'
  BY <1>1, <1>3, Invisible, CommitDeploys
<1> QED
  BY <1>2, <1>3 DEF Next

-----------------------------------------------------------------------------
\* What a deployment shows of itself when it commits: it deploys a set of new
\* migrations at once.
LEMMA CommitIsDeploy ==
  ASSUME DeployInv, NEW r \in Runner, CommitBatch(r)
  PROVE  Deployed!Next
<1> DEFINE p == pending[r]
           a == Names(p)
           ms == ToSet(a)
<1>1. pc[r] = "free" /\ rows' = rows \o p
      /\ schema' = [m \in Mig |-> IF \E i \in DOMAIN p : p[i].name = m
                                  THEN "present" ELSE schema[m]]
  BY DEF CommitBatch
<1>2. /\ rows \in Seq(Row) /\ p \in Seq(Row) /\ a \in Seq(Mig) /\ Increasing(a)
      /\ \A i \in DOMAIN p : /\ p[i] \in Row /\ p[i].name \notin Completed
                             /\ p[i].batch = LatestBatch + 1
  BY <1>1, ReadyToCommit
<1>3. DOMAIN a = DOMAIN p /\ \A i \in DOMAIN p : a[i] = p[i].name
  BY DEF Names
<1> HIDE DEF p, a
<1>4. Ascending(ms) = a
  <2>1. a \in Seq(Nat)
    <3>1. a \in [1 .. Len(a) -> Mig] /\ Len(a) \in Nat
      BY <1>2
    <3>2. Mig \subseteq Nat
      BY MigratorAssumption
    <3>3. a \in [1 .. Len(a) -> Nat]
      BY <3>1, <3>2
    <3> QED
      BY <3>1, <3>3
  <2> QED
    BY <1>2, <2>1, AscendingOfSorted
<1>5. ms = {p[i].name : i \in DOMAIN p}
  BY <1>3 DEF ToSet
<1>6. Deployed!NextBatch = LatestBatch + 1
  BY <1>2, NextIsLast DEF DeployInv
<1>7. [i \in DOMAIN a |-> [name |-> a[i], batch |-> Deployed!NextBatch]] = p
  <2>1. \A i \in DOMAIN p : [name |-> a[i], batch |-> Deployed!NextBatch] = p[i]
    BY <1>2, <1>3, <1>6 DEF Row
  <2>2. p = [i \in DOMAIN p |-> p[i]]
    BY <1>2
  <2> QED
    BY <1>3, <2>1, <2>2
<1>8. Present' = Present \cup ms
  <2>1. ms \subseteq Mig
    BY <1>2, <1>5 DEF Row
  <2>2. \A m \in Mig : schema'[m] = IF m \in ms THEN "present" ELSE schema[m]
    BY <1>1, <1>5
  <2> QED
    BY <2>1, <2>2 DEF Present
<1>9. ms \in SUBSET (Mig \ Deployed!Recorded)
  <2>1. Deployed!Recorded = Completed
    BY DEF Deployed!Recorded, Completed
  <2> QED
    BY <1>2, <1>5, <2>1 DEF Row
<1>10. Deployed!Ascending(ms) = Ascending(ms)
  BY Zenon DEF Deployed!Ascending, Ascending, Deployed!Increasing, Increasing,
               Deployed!Cardinality, Cardinality
<1>11. Deployed!Deploy(ms)
  BY <1>1, <1>4, <1>7, <1>8, <1>10 DEF Deployed!Deploy
<1> QED
  BY <1>9, <1>11 DEF Deployed!Next

\* The invariant of the deployments holds.
THEOREM DeployInductive ==
  ASSUME Wrapping
  PROVE  Spec => []DeployInv
<1>1. Init => DeployInv
  BY InitDeploys
<1>2. DeployInv /\ [Next]_vars => DeployInv'
  BY NextDeploys
<1> QED
  BY <1>1, <1>2, PTL DEF Spec

\* Where a transaction surrounds every batch, the runners of Migrator.ts
\* implement the atomic deployments: every step either is one whole deployment,
\* the COMMIT of _runBatch, or changes nothing that others can see.
THEOREM Refinement ==
  ASSUME Wrapping
  PROVE  Spec => DeploysAtomically
<1>1. Init => Deployed!Init
  BY DEF Init, Deployed!Init, Present
<1>2. DeployInv /\ [Next]_vars => [Deployed!Next]_<<rows, Present>>
  <2> SUFFICES ASSUME DeployInv, [Next]_vars
               PROVE  [Deployed!Next]_<<rows, Present>>
    OBVIOUS
  <2>1. TypeInv'
    BY NextTypes DEF DeployInv
  <2>2. ASSUME UNCHANGED <<rows, schema>>
        PROVE  UNCHANGED <<rows, Present>>
    BY <2>2 DEF Present
  <2>3. CASE UNCHANGED vars
    BY <2>2, <2>3 DEF vars, db
  <2>4. ASSUME NEW r \in Runner, Start(r) \/ Step(r) \/ Fault(r)
        PROVE  [Deployed!Next]_<<rows, Present>>
    BY <2>1, <2>2, <2>4, CommitIsDeploy, Invisible
  <2> QED
    BY <2>3, <2>4 DEF Next
<1> QED
  BY <1>1, <1>2, DeployInductive, PTL DEF Spec, DeploysAtomically, Deployed!Spec

\* No migration is recorded twice, and so none is run twice, although the list a
\* runner works from was read before it got the lock: it reads it again.
THEOREM OnceRecorded ==
  ASSUME Wrapping
  PROVE  Spec => []RecordedOnce
<1>1. DeployInv => RecordedOnce
  BY DEF DeployInv, Recorded
<1> QED
  BY <1>1, DeployInductive, PTL

\* A runner with a transaction waits for the lock and is not turned away, unless
\* the race of table-creator.ts has left more lock rows than one or a statement
\* on the lock table failed.
THEOREM EverybodyWaits ==
  ASSUME Wrapping
  PROVE  Spec => []NeverTurnedAway
<1>1. DeployInv => NeverTurnedAway
  <2> SUFFICES ASSUME DeployInv, Len(lockRows) <= 1, NEW r \in Runner, outcome[r] = "locked"
               PROVE  losses > 0
    BY DEF NeverTurnedAway
  <2>1. Len(lockRows) \in Nat
    BY DEF DeployInv, TypeInv, DatabaseTypes
  <2> QED
    BY <2>1 DEF DeployInv, Unseen
<1> QED
  BY <1>1, DeployInductive, PTL

\* Two processes never run migrations at once, also while the migration tables
\* are being created and whatever rows that leaves in the lock table.
THEOREM DeployersExclude ==
  ASSUME Wrapping
  PROVE  Spec => []MutualExclusion
<1>1. DeployInv => MutualExclusion
  BY DEF DeployInv, Unseen
<1> QED
  BY <1>1, DeployInductive, PTL
=============================================================================
