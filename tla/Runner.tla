------------------------------- MODULE Runner -------------------------------
(***************************************************************************)
(* lib/execution/runner.ts with the pool of lib/client.ts: how a query     *)
(* gets a connection, runs its statements on it in order, times out, is    *)
(* cancelled through a connection of its own, and gives the connection     *)
(* back, while the pool loses connections and is destroyed.                *)
(*                                                                         *)
(* One element of Run is one Runner.run, one of Trx is a transaction whose *)
(* container awaits its queries; the queries of a transaction share its    *)
(* connection.  Streams, and the transactions a schema change opens inside *)
(* its run, are left out.  The pool itself is the library tarn.            *)
(***************************************************************************)
EXTENDS SequencesExt

CONSTANTS
  Run, Trx, Conn,
  NoTrx, NoConn, Nobody,
  Plans,      \* what queries ask for
  MaxLosses   \* bound: connections lost

\* length: the statements of builder.toSQL(); timeout: obj.timeout, without or
\* with obj.cancelOnTimeout.  Only a single statement has a timeout.
Plan == [length : Nat \ {0}, timeout : {"none", "plain", "cancel"}]

Lessee == Run \cup Trx

ASSUME RunnerAssumption ==
  /\ Run \cap Trx = {} /\ Nobody \notin Lessee
  /\ NoTrx \notin Trx /\ NoConn \notin Conn
  /\ Plans \subseteq Plan
  /\ \A p \in Plans : p.timeout # "none" => p.length = 1
  /\ MaxLosses \in Nat

VARIABLES
  pool,      \* client.pool: open, being destroyed, undefined
  slot,      \* per connection slot of the pool, what is in it
  disposed,  \* connections with __knex__disposed
  lost,      \* connections the server has closed
  queue,     \* per connection, statements the server has not answered
  waiting,   \* the pool's pending acquires, oldest first
  holds,     \* the connection acquired
  at,        \* where a run or a transaction has got to
  home,      \* the transaction a run belongs to
  plan,      \* what a run executes
  answered,  \* its statements that have succeeded
  outcome,   \* how it settled
  losses

resources == <<slot, disposed, lost, queue>>
fate      == <<at, outcome, holds>>
work      == <<home, plan, answered>>
vars == <<pool, resources, waiting, fate, work, losses>>

Statement == [by : Lessee, killer : Run \cup {Nobody}]

InFlight == {"awaiting", "killing", "killed"}

TypeOK ==
  /\ pool \in {"open", "closing", "gone"}
  /\ slot \in [Conn -> {"empty", "creating", "idle", "used"}]
  /\ disposed \subseteq Conn /\ lost \subseteq Conn
  /\ queue \in [Conn -> Seq(Statement)]
  /\ waiting \in Seq(Lessee)
  /\ holds \in [Lessee -> Conn \cup {NoConn}]
  /\ at \in [Lessee -> {"new", "acquiring", "settled", "beginning", "open",
                        "committing"} \cup InFlight]
  /\ home \in [Run -> Trx \cup {NoTrx}]
  /\ plan \in [Run -> Plan]
  /\ answered \in [Run -> Nat] /\ \A r \in Run : answered[r] <= plan[r].length
  /\ outcome \in [Lessee -> {"none", "ok", "failed", "timeout", "cancelFailed"}]
  /\ losses \in Nat

\* A pool whose config.pool has a max is made by initialize() only.
Init ==
  /\ pool \in {"open", "gone"}
  /\ slot = [c \in Conn |-> "empty"]
  /\ disposed = {} /\ lost = {}
  /\ queue = [c \in Conn |-> <<>>]
  /\ waiting = <<>>
  /\ holds = [x \in Lessee |-> NoConn]
  /\ at = [x \in Lessee |-> "new"]
  /\ home = [r \in Run |-> NoTrx]
  /\ plan = [r \in Run |-> [length |-> 1, timeout |-> "none"]]
  /\ answered = [r \in Run |-> 0]
  /\ outcome = [x \in Lessee |-> "none"]
  /\ losses = 0

-----------------------------------------------------------------------------
\* Who acquired the connection x works on: a run of a transaction uses the
\* transaction's (trxClient.acquireConnection), and gives nothing back.
Lease(x) == IF x \in Trx \/ home[x] = NoTrx THEN x ELSE home[x]
Uses(x)  == holds[Lease(x)]

Runs(t) == {r \in Run : home[r] = t}

Sent(q, x) == Append(q, [by |-> x, killer |-> Nobody])
Post(c, x) == queue' = [queue EXCEPT ![c] = Sent(@, x)]

Goto(x, label) == at' = [at EXCEPT ![x] = label] /\ UNCHANGED <<outcome, holds>>

\* x rejects without having had a connection.
Refused(xs) ==
  /\ at' = [x \in Lessee |-> IF x \in xs THEN "settled" ELSE at[x]]
  /\ outcome' = [x \in Lessee |-> IF x \in xs THEN "failed" ELSE outcome[x]]
  /\ UNCHANGED holds

\* The finally of ensureConnection, or of Transaction.acquireConnection, and
\* the promise of x.
Settles(x, result) ==
  /\ at' = [at EXCEPT ![x] = "settled"]
  /\ outcome' = [outcome EXCEPT ![x] = result]
  /\ holds' = [holds EXCEPT ![x] = NoConn]
  /\ slot' = [c \in Conn |-> IF holds[x] = c THEN "idle" ELSE slot[c]]

\* pool.acquire() queues; without a pool acquireConnection throws.
Acquire(x) ==
  IF pool = "gone"
  THEN Refused({x}) /\ UNCHANGED waiting
  ELSE Goto(x, "acquiring") /\ waiting' = Append(waiting, x)

\* A query of the main instance.
Start(r) ==
  /\ at[r] = "new"
  /\ \E p \in Plans : plan' = [plan EXCEPT ![r] = p]
  /\ Acquire(r)
  /\ UNCHANGED <<pool, resources, home, answered, losses>>

\* A query of a transaction: no acquisition, its first statement is sent.
StartIn(r, t) ==
  /\ at[r] = "new" /\ at[t] = "open"
  /\ \E p \in Plans : plan' = [plan EXCEPT ![r] = p]
  /\ home' = [home EXCEPT ![r] = t]
  /\ Post(holds[t], r)
  /\ Goto(r, "awaiting")
  /\ UNCHANGED <<pool, slot, disposed, lost, waiting, answered, losses>>

Begin(t) ==
  /\ at[t] = "new"
  /\ Acquire(t)
  /\ UNCHANGED <<pool, resources, work, losses>>

\* The container ends, after the queries it has started.
Commit(t) ==
  /\ at[t] = "open" /\ \A r \in Runs(t) : at[r] = "settled"
  /\ Post(holds[t], t)
  /\ Goto(t, "committing")
  /\ UNCHANGED <<pool, slot, disposed, lost, waiting, work, losses>>

-----------------------------------------------------------------------------
(* The pool *)

\* Variant: disposed connections are handed out too.
AnythingIsValid(c) == TRUE

\* pool validate
Valid(c) == c \notin disposed

Emptied(cs) ==
  /\ slot' = [c \in Conn |-> IF c \in cs THEN "empty" ELSE slot[c]]
  /\ disposed' = disposed \ cs
  /\ lost' = lost \ cs
  /\ queue' = [c \in Conn |-> IF c \in cs THEN <<>> ELSE queue[c]]

\* The oldest acquire gets an idle connection, and its first statement is sent.
Serve(c) ==
  /\ pool = "open" /\ waiting # <<>> /\ slot[c] = "idle" /\ Valid(c)
  /\ LET x == Head(waiting)
     IN /\ slot' = [slot EXCEPT ![c] = "used"]
        /\ holds' = [holds EXCEPT ![x] = c]
        /\ at' = [at EXCEPT ![x] = IF x \in Run THEN "awaiting" ELSE "beginning"]
        /\ Post(c, x)
  /\ waiting' = Tail(waiting)
  /\ UNCHANGED <<pool, disposed, lost, outcome, work, losses>>

\* One that validate refuses is destroyed.
Discard(c) ==
  /\ pool = "open" /\ waiting # <<>> /\ slot[c] = "idle" /\ ~Valid(c)
  /\ Emptied({c})
  /\ UNCHANGED <<pool, waiting, fate, work, losses>>

\* create: called while more acquires wait than connections are being made.
Create(c) ==
  /\ pool = "open" /\ slot[c] = "empty"
  /\ \A d \in Conn : slot[d] # "idle"
  /\ Cardinality({d \in Conn : slot[d] = "creating"}) < Len(waiting)
  /\ slot' = [slot EXCEPT ![c] = "creating"]
  /\ UNCHANGED <<pool, disposed, lost, queue, waiting, fate, work, losses>>

Created(c) ==
  /\ slot[c] = "creating"
  /\ slot' = [slot EXCEPT ![c] = "idle"]
  /\ UNCHANGED <<pool, disposed, lost, queue, waiting, fate, work, losses>>

\* The server refuses, the provider of the configuration or afterCreate fails:
\* with propagateCreateError the oldest acquire rejects.
CreateFails(c) ==
  /\ slot[c] = "creating"
  /\ slot' = [slot EXCEPT ![c] = "empty"]
  /\ IF waiting = <<>>
     THEN UNCHANGED <<waiting, fate>>
     ELSE Refused({Head(waiting)}) /\ waiting' = Tail(waiting)
  /\ UNCHANGED <<pool, disposed, lost, queue, work, losses>>

\* acquireTimeoutMillis
AcquireTimeout(x) ==
  /\ at[x] = "acquiring"
  /\ Refused({x})
  /\ \E i \in DOMAIN waiting : waiting[i] = x /\ waiting' = RemoveAt(waiting, i)
  /\ UNCHANGED <<pool, resources, work, losses>>

\* Variant: client.pool is forgotten before pool.destroy() is over.
DestroyForgets ==
  /\ pool = "open" /\ pool' = "gone"
  /\ UNCHANGED <<resources, waiting, fate, work, losses>>

\* client.destroy: the pool serves nobody any more ...
Destroy ==
  /\ pool = "open" /\ pool' = "closing"
  /\ UNCHANGED <<resources, waiting, fate, work, losses>>

\* ... waits for every connection that is made or used, rejects those who
\* wait, and closes the connections; client.pool is undefined.
Destroyed ==
  /\ pool = "closing" /\ pool' = "gone"
  /\ \A c \in Conn : slot[c] \in {"empty", "idle"}
  /\ Refused(ToSet(waiting)) /\ waiting' = <<>>
  /\ Emptied(Conn)
  /\ UNCHANGED <<work, losses>>

\* client.initializePool, which does nothing while there is a pool.
Initialize ==
  /\ pool = "gone" /\ pool' = "open"
  /\ UNCHANGED <<resources, waiting, fate, work, losses>>

-----------------------------------------------------------------------------
(* A query *)

\* The server closes a connection: 'end' and 'error' mark it.
Lose(c) ==
  /\ losses < MaxLosses /\ losses' = losses + 1
  /\ slot[c] \in {"idle", "used"} /\ c \notin lost
  /\ lost' = lost \cup {c}
  /\ disposed' = disposed \cup {c}
  /\ UNCHANGED <<pool, slot, queue, waiting, fate, work>>

\* The statement at the head of c's queue is answered.  A statement that was
\* killed, or whose connection is lost, fails; any other may.
CanAnswer(c, ok) ==
  /\ queue[c] # <<>> /\ slot[c] # "empty"
  /\ ok => c \notin lost /\ Head(queue[c]).killer = Nobody

\* Variant: one statement too many is sent.
LastOneSent(r) == answered[r] = plan[r].length

LastOne(r) == answered[r] + 1 = plan[r].length

Consume(c) == queue' = [queue EXCEPT ![c] = Tail(@)]

\* queryArray: the next statement is sent when the one before has succeeded.
SendsNext(c, r) ==
  /\ CanAnswer(c, TRUE) /\ ~LastOne(r)
  /\ queue' = [queue EXCEPT ![c] = Sent(Tail(@), r)]
  /\ answered' = [answered EXCEPT ![r] = @ + 1]
  /\ UNCHANGED <<slot, fate>>

Succeeds(c, r) ==
  /\ CanAnswer(c, TRUE) /\ LastOne(r)
  /\ answered' = [answered EXCEPT ![r] = @ + 1]
  /\ Consume(c)
  /\ Settles(r, "ok")

Fails(c, x) ==
  /\ CanAnswer(c, FALSE)
  /\ Consume(c)
  /\ Settles(x, "failed")
  /\ UNCHANGED answered

AnswerRun(c) ==
  /\ queue[c] # <<>>
  /\ LET r == Head(queue[c]).by
     IN /\ r \in Run /\ at[r] = "awaiting"
        /\ SendsNext(c, r) \/ Succeeds(c, r) \/ Fails(c, r)
  /\ UNCHANGED <<pool, disposed, lost, waiting, home, plan, losses>>

\* The answer of a query that has timed out settles nothing.
AnswerLate(c) ==
  /\ CanAnswer(c, FALSE)
  /\ Head(queue[c]).by \in Run /\ at[Head(queue[c]).by] # "awaiting"
  /\ Consume(c)
  /\ UNCHANGED <<pool, slot, disposed, lost, waiting, fate, work, losses>>

\* The answers to BEGIN and COMMIT.
AnswerTrx(c) ==
  /\ queue[c] # <<>>
  /\ LET t == Head(queue[c]).by
     IN /\ t \in Trx
        /\ \/ /\ at[t] = "beginning" /\ CanAnswer(c, TRUE)
              /\ Consume(c) /\ Goto(t, "open") /\ UNCHANGED <<slot, answered>>
           \/ /\ at[t] = "committing" /\ CanAnswer(c, TRUE)
              /\ Consume(c) /\ Settles(t, "ok") /\ UNCHANGED answered
           \/ at[t] \in {"beginning", "committing"} /\ Fails(c, t)
  /\ UNCHANGED <<pool, disposed, lost, waiting, home, plan, losses>>

Dispose(c) == disposed' = disposed \cup {c}

\* The timeout fires and the query is left to run: its connection is marked,
\* the pool will not hand it out again.
Timeout(r) ==
  /\ at[r] = "awaiting" /\ plan[r].timeout = "plain"
  /\ Dispose(Uses(r))
  /\ Settles(r, "timeout")
  /\ UNCHANGED <<pool, lost, queue, waiting, work, losses>>

\* Variant: the connection is given back before the query is cancelled.
TimeoutReleases(r) ==
  /\ at[r] = "awaiting" /\ plan[r].timeout = "cancel"
  /\ slot' = [slot EXCEPT ![Uses(r)] = "idle"]
  /\ Goto(r, "killing")
  /\ UNCHANGED <<pool, disposed, lost, queue, waiting, work, losses>>

\* It fires and the query is to be cancelled: cancelQuery starts to open a
\* connection outside the pool.
TimeoutCancels(r) ==
  /\ at[r] = "awaiting" /\ plan[r].timeout = "cancel"
  /\ Goto(r, "killing")
  /\ UNCHANGED <<pool, resources, waiting, work, losses>>

\* The server carries out KILL QUERY or pg_cancel_backend: whatever statement
\* the connection executes at this moment fails, sooner or later, if it
\* executes any that has not been killed before.
Kill(r) ==
  /\ at[r] = "killing"
  /\ IF queue[Uses(r)] = <<>> \/ queue[Uses(r)][1].killer # Nobody
     THEN UNCHANGED queue
     ELSE queue' = [queue EXCEPT ![Uses(r)][1].killer = r]
  /\ Goto(r, "killed")
  /\ UNCHANGED <<pool, slot, disposed, lost, waiting, work, losses>>

\* KILL is answered and its connection closed: the timeout is what r reports.
Cancelled(r) ==
  /\ at[r] = "killed"
  /\ Settles(r, "timeout")
  /\ UNCHANGED <<pool, disposed, lost, queue, waiting, work, losses>>

\* Variant: the connection is not given back.
CancelFailsHolding(r) ==
  /\ at[r] \in {"killing", "killed"}
  /\ Dispose(Uses(r))
  /\ at' = [at EXCEPT ![r] = "settled"]
  /\ outcome' = [outcome EXCEPT ![r] = "cancelFailed"]
  /\ UNCHANGED <<pool, slot, holds, lost, queue, waiting, work, losses>>

\* Opening that connection, or KILL, fails at any point.
CancelFails(r) ==
  /\ at[r] \in {"killing", "killed"}
  /\ Dispose(Uses(r))
  /\ Settles(r, "cancelFailed")
  /\ UNCHANGED <<pool, lost, queue, waiting, work, losses>>

-----------------------------------------------------------------------------
User == \/ \E r \in Run : Start(r) \/ \E t \in Trx : StartIn(r, t)
        \/ \E t \in Trx : Begin(t) \/ Commit(t)
        \/ Destroy \/ Initialize

Tarn == \/ \E c \in Conn : \/ Serve(c) \/ Discard(c)
                           \/ Create(c) \/ Created(c) \/ CreateFails(c)
        \/ \E x \in Lessee : AcquireTimeout(x)
        \/ Destroyed

Network == \E c \in Conn : AnswerRun(c) \/ AnswerLate(c) \/ AnswerTrx(c) \/ Lose(c)

Timers == \E r \in Run : Timeout(r) \/ TimeoutCancels(r)

Cancellation ==
  \E r \in Run : Kill(r) \/ Cancelled(r) \/ CancelFails(r)

Next == User \/ Tarn \/ Network \/ Timers \/ Cancellation

Spec == Init /\ [][Next]_vars

-----------------------------------------------------------------------------
(* Properties *)

\* Nobody waits behind the query of a stranger who no longer waits for it,
\* unless that was cancelled: when a query times out without that, or when the
\* cancellation fails, its connection is never used again.
NobodyBehindTimedOut ==
  \A c \in Conn : \A j \in DOMAIN queue[c] : \A i \in 1 .. j - 1 :
    LET x == queue[c][i].by
        y == queue[c][j].by
    IN at[x] = "settled" /\ at[y] # "settled" /\ Lease(x) # Lease(y) =>
         x \in Run /\ plan[x].timeout = "cancel" /\ outcome[x] = "timeout"

\* KILL names a connection, not a query, and reaches it some time later: it
\* never hits a query that anyone outside the canceller's own transaction
\* still waits for.
NoInnocentKilled ==
  \A c \in Conn : \A i \in DOMAIN queue[c] :
    LET m == queue[c][i] IN
      m.killer # Nobody /\ at[m.by] # "settled" => Lease(m.killer) = Lease(m.by)

\* A connection of the pool is in use by exactly those who have not given it
\* back, one at a time, on every path through success, errors and timeouts.
OneUser ==
  \A c \in Conn :
    Cardinality({x \in Lessee : holds[x] = c}) = IF slot[c] = "used" THEN 1 ELSE 0

\* Once destroy() is over nothing is open or going on, the connections that
\* cancel queries outside the pool included.
GoneIsOver ==
  pool = "gone" => /\ \A c \in Conn : slot[c] = "empty"
                   /\ \A x \in Lessee : at[x] \in {"new", "settled"}

-----------------------------------------------------------------------------
(* Liveness *)

\* Timers fire, the server answers or closes the connection, containers end.
FairSpec ==
  /\ Spec
  /\ \A c \in Conn : /\ WF_vars(AnswerRun(c)) /\ WF_vars(AnswerLate(c))
                     /\ WF_vars(AnswerTrx(c))
                     /\ WF_vars(Created(c) \/ CreateFails(c))
  /\ \A r \in Run : WF_vars(Kill(r) \/ Cancelled(r) \/ CancelFails(r))
  /\ \A x \in Lessee : WF_vars(AcquireTimeout(x))
  /\ \A t \in Trx : WF_vars(Commit(t))
  /\ WF_vars(Destroyed)

\* destroy() ends: whatever fails or times out, every connection comes back.
DestroyEnds == pool = "closing" ~> pool = "gone"
=============================================================================
