------------------------ MODULE DialectTransactions ------------------------
(***************************************************************************)
(* What the dialects' own Transaction classes make of a transaction: MySQL  *)
(* (and mysql2), Oracle, Redshift and SQL Server.  Two top-level            *)
(* transactions on connections of their own and one nested in the first.    *)
(* Transaction has the order in which statements and answers travel; here a *)
(* statement and its answer are one step, except for the requests of        *)
(* SQL Server, whose queue the connections share.  A connection that was    *)
(* given back is not used by anything else.                                 *)
(***************************************************************************)
EXTENDS Requests, FiniteSets, Naturals

CONSTANTS Dialects,   \* among mysql, oracledb, redshift and mssql
          MaxWrites,  \* bound: writes of the transactions together
          MaxFaults   \* bound: connections lost

Trx == {"a", "n", "b"}
Conn == {"c1", "c2"}
ConnOf(t) == IF t = "b" THEN "c2" ELSE "c1"
Outer(t) == IF t = "n" THEN "a" ELSE "none"
Nested(t) == t = "n"

ASSUME DialectTransactionsAssumption ==
    /\ Dialects \subseteq {"mysql", "oracledb", "redshift", "mssql"}
    /\ MaxWrites \in Nat /\ MaxFaults \in Nat

VARIABLES dialect,
          stage,         \* of a transaction: none, open, left by its container
          promise,       \* pending, committed, rolledback, failed
          completed,     \* _completed
          made,          \* writes a transaction has sent
          acknowledged,  \* writes the program knows to have succeeded
          over,          \* transactions that nothing is called on any more
          misrouted,     \* writes that ran on another connection
          orphaned,      \* writes left waiting for a connection that ran none
          implicit,      \* connections on which the server ended a transaction by itself
          undone,        \* writes the server discarded, by a deadlock or a second end
          session,       \* per connection, the server's side
          isTransaction, \* Oracle: statements on the connection are not committed
          held,          \* connections not given back
          lost,          \* connections that were lost
          durable        \* writes that are permanent

program == <<stage, promise, completed, made, acknowledged, over>>
database == <<misrouted, orphaned, implicit, undone, session, lost, durable>>
vars == <<dialect, program, database, isTransaction, held, requestQueue, running>>

S == INSTANCE Session WITH NoTrx <- "none",
       AbortOnError <- dialect = "redshift", CommitFailureKeepsOpen <- dialect # "redshift"

Init ==
    /\ dialect \in Dialects
    /\ stage = [t \in Trx |-> "none"]
    /\ promise = [t \in Trx |-> "pending"]
    /\ completed = [t \in Trx |-> FALSE]
    /\ made = [t \in Trx |-> 0]
    /\ acknowledged = {} /\ misrouted = {} /\ orphaned = {} /\ implicit = {} /\ durable = {}
    /\ over = {} /\ undone = {}
    /\ session = [c \in Conn |-> S!IdleSession]
    /\ isTransaction = [c \in Conn |-> FALSE]
    /\ held = {} /\ lost = {}
    /\ requestQueue = <<>> /\ running = [c \in Conn |-> Idle]

-----------------------------------------------------------------------------
(* The server *)

NotInTransaction(c) == session[c].owner = "none"

\* Statements fail on a lost connection, and some on others; the calls of the
\* SQL Server driver fail while a request is under way, and its server has
\* nothing to commit outside a transaction.
Outcomes(c, kind, t) ==
    IF \/ c \in lost \/ running[c] # Idle \/ ~S!CanRun(session[c], kind, t)
       \/ dialect = "mssql" /\ kind = "commit" /\ NotInTransaction(c)
    THEN {FALSE}
    ELSE IF S!MayFail(kind) THEN BOOLEAN ELSE {TRUE}

After(c, kind, t, ok) ==
    [session EXCEPT ![c] = IF ok THEN S!AfterSuccess(@, kind, t) ELSE S!AfterFailure(@, kind)]

MadeDurable(c, kind, t, ok) ==
    durable \cup IF ok THEN S!MadeDurable(session[c], kind, t) ELSE {}

\* Oracle is always in a transaction: a commit starts the next.
Recommenced(c) == [session EXCEPT ![c] = S!Began(S!IdleSession, "a")]

Emptied(c) ==
    IF dialect = "oracledb" THEN Recommenced(c) ELSE [session EXCEPT ![c] = S!IdleSession]

\* The victim of a deadlock loses its whole transaction in MySQL and SQL Server.
Deadlocks(c) == dialect \in {"mysql", "mssql"} /\ ~NotInTransaction(c)

-----------------------------------------------------------------------------
(* The program *)

Line(t) == {t, Outer(t)} \ {"none"}
IsCompleted(t) == \E u \in Line(t) : completed[u]

\* A program awaits the transactions it nests, but may end one whose statements
\* have not been answered.
Ready(t) ==
    /\ stage[t] = "open" /\ promise[t] = "pending"
    /\ t = "a" => stage["n"] # "open"

-----------------------------------------------------------------------------
(* Beginning *)

\* The promise settles and acquireConnection's finally runs: Oracle commits,
\* also what an outer transaction wrote.
Settle(t, result, after, permanent) ==
    LET c == ConnOf(t)
    IN /\ stage' = [stage EXCEPT ![t] = "left"]
       /\ promise' = [promise EXCEPT ![t] = result]
       /\ isTransaction' = [isTransaction EXCEPT ![c] = FALSE]
       /\ held' = IF Nested(t) THEN held ELSE held \ {c}
       /\ \E ok \in IF dialect = "oracledb" THEN Outcomes(c, "commit", t) ELSE {FALSE} :
            /\ session' = IF ok THEN Recommenced(c) ELSE after
            /\ durable' = permanent \cup IF ok THEN after[c].writes ELSE {}
       /\ UNCHANGED <<dialect, made, acknowledged, misrouted, orphaned, implicit, lost, requestQueue, running>>

Completed(t, flag) == completed' = [completed EXCEPT ![t] = @ \/ flag]

Begun(t) ==
    /\ stage' = [stage EXCEPT ![t] = "open"]
    /\ isTransaction' = [isTransaction EXCEPT ![ConnOf(t)] = dialect = "oracledb"]
    /\ held' = held \cup {ConnOf(t)}
    /\ UNCHANGED <<dialect, promise, completed, made, acknowledged, over, misrouted, orphaned, implicit,
                   undone, lost, durable, requestQueue, running>>

\* query() completes the transaction, and a container that runs all the same is
\* refused; where the error comes from the driver or is thrown, none runs.
NotBegun(t, after) ==
    /\ over' = over \cup {t} /\ UNCHANGED undone
    /\ Completed(t, dialect \in {"mysql", "oracledb"} \/ (dialect = "redshift" /\ ~Nested(t)))
    /\ Settle(t, "failed", after, durable)

\* Oracle sends nothing: it only stops committing each statement.
Begin(t) ==
    LET c == ConnOf(t)
    IN /\ ~Nested(t) /\ stage[t] = "none"
       /\ t = "b" => dialect = "mssql"
       /\ \E ok \in IF dialect = "oracledb" THEN {TRUE} ELSE Outcomes(c, "begin", t) :
            IF ok THEN Begun(t) /\ session' = After(c, "begin", t, ok)
            ELSE NotBegun(t, After(c, "begin", t, ok))

\* Redshift's savepoint() calls the logger, which is no function, and throws.
Savepoint(t) ==
    LET c == ConnOf(t)
    IN /\ Nested(t) /\ stage[t] = "none" /\ Ready(Outer(t))
       /\ IF dialect = "redshift" THEN NotBegun(t, session)
          ELSE \E ok \in Outcomes(c, "savepoint", t) :
                 IF ok THEN Begun(t) /\ session' = After(c, "savepoint", t, ok)
                 ELSE NotBegun(t, After(c, "savepoint", t, ok))

-----------------------------------------------------------------------------
(* Statements *)

\* A write succeeds or fails at the server, a deadlock takes what was written
\* before it; Oracle commits it if the connection is not marked as in a
\* transaction.
Executed(c, t, write, ok) ==
    LET after == After(c, "query", write, ok)
        commits == dialect = "oracledb" /\ ok /\ ~isTransaction[c]
    IN /\ acknowledged' = IF ok THEN acknowledged \cup {write} ELSE acknowledged
       /\ durable' = MadeDurable(c, "query", write, ok) \cup IF commits THEN after[c].writes ELSE {}
       /\ \/ /\ session' = IF commits THEN Recommenced(c) ELSE after
             /\ UNCHANGED <<implicit, undone>>
          \/ /\ ~ok /\ Deadlocks(c)
             /\ session' = Emptied(c)
             /\ implicit' = implicit \cup {c}
             /\ undone' = undone \cup session[c].writes

\* Requests of a connection that will not take them up by itself.
Orphans == {r.write : r \in {q \in ToSet(requestQueue') : running'[q.conn] = Idle}}

Write(t) ==
    /\ Ready(t) /\ ~IsCompleted(t) /\ made["a"] + made["n"] + made["b"] < MaxWrites
    /\ made' = [made EXCEPT ![t] = @ + 1]
    /\ IF dialect = "mssql"
       THEN /\ EnqueueRequest([trx |-> t, conn |-> ConnOf(t), write |-> <<t, made'[t]>>], lost)
            /\ UNCHANGED <<acknowledged, implicit, undone, session, durable>>
       ELSE /\ \E ok \in Outcomes(ConnOf(t), "query", t) : Executed(ConnOf(t), t, <<t, made'[t]>>, ok)
            /\ UNCHANGED <<requestQueue, running>>
    /\ orphaned' = orphaned \cup Orphans
    /\ UNCHANGED <<dialect, stage, promise, completed, over, misrouted, isTransaction, held, lost>>

\* A request of SQL Server is answered.
Complete(c) ==
    /\ running[c] # Idle
    /\ \E ok \in BOOLEAN :
         /\ Executed(c, running[c].trx, running[c].write, ok)
         /\ RequestCompleted(c, ok)
    /\ misrouted' = IF c # running[c].conn THEN misrouted \cup {running[c].write} ELSE misrouted
    /\ orphaned' = orphaned \cup Orphans
    /\ UNCHANGED <<dialect, stage, promise, completed, made, over, isTransaction, held, lost>>

\* A statement on tables, which commits by itself in MySQL and Oracle.
ImplicitCommit(t) ==
    LET c == ConnOf(t)
    IN /\ Ready(t) /\ ~IsCompleted(t) /\ c \notin lost
       /\ dialect \in {"mysql", "oracledb"}
       /\ implicit' = implicit \cup {c}
       /\ durable' = durable \cup session[c].writes
       /\ session' = Emptied(c)
       /\ UNCHANGED <<dialect, program, misrouted, orphaned, undone, isTransaction, held, lost,
                      requestQueue, running>>

-----------------------------------------------------------------------------
(* Ending *)

\* Variant: no error counts.
Swallowed(c, kind, t) == dialect = "mysql"

\* MySQL: that a savepoint does not exist is no error.
NoSuchSavepoint(c, kind, t) ==
    dialect = "mysql" /\ kind \in {"release", "rollbackTo"} /\ c \notin lost /\ ~S!HasMark(session[c], t)

\* query(): sends the last statement of a transaction and settles it.
Query(t, kind, result) ==
    LET c == ConnOf(t)
    IN \E ok \in Outcomes(c, kind, t) :
         /\ Completed(t, TRUE)
         /\ Settle(t, IF ok \/ NoSuchSavepoint(c, kind, t) THEN result ELSE "failed",
                   After(c, kind, t, ok), MadeDurable(c, kind, t, ok))

\* Oracle and SQL Server have nothing to release, and do not complete the
\* nested transaction; SQL Server completes none whose commit fails.
Release(t) == Completed(t, FALSE) /\ Settle(t, "committed", session, durable)

CommitTransaction(t) ==
    LET c == ConnOf(t)
    IN \E ok \in Outcomes(c, "commit", t) :
         /\ Completed(t, ok \/ dialect = "oracledb")
         /\ Settle(t, IF ok THEN "committed" ELSE "failed",
                   After(c, "commit", t, ok), MadeDurable(c, "commit", t, ok))

Commit(t) ==
    /\ Ready(t) /\ UNCHANGED <<over, undone>>
    /\ IF dialect \in {"oracledb", "mssql"}
       THEN IF Nested(t) THEN Release(t) ELSE CommitTransaction(t)
       ELSE Query(t, IF Nested(t) THEN "release" ELSE "commit", "committed")

\* Variant: the promise rejects and the connection is given back, not rolled back.
OnlyRejected(t) == Completed(t, TRUE) /\ Settle(t, "rolledback", session, durable)

\* Oracle: when the rollback fails nothing settles the promise, and the
\* connection is not given back.
RollbackAsync(t) ==
    LET c == ConnOf(t)
    IN /\ Completed(t, TRUE)
       /\ IF c \in lost
          THEN /\ stage' = [stage EXCEPT ![t] = "left"]
               /\ UNCHANGED <<dialect, promise, made, acknowledged, misrouted, orphaned, implicit, session,
                              lost, durable, isTransaction, held, requestQueue, running>>
          ELSE Settle(t, "rolledback", Recommenced(c), durable)

\* Variant: nothing to roll back where there is a transaction.
MistakenForIdle(t) == session[ConnOf(t)].owner # "none"

\* SQL Server: conn.inTransaction
NothingToRollBack(t) == NotInTransaction(ConnOf(t))

\* SQL Server: without a transaction the promise just rejects; with a request
\* under way it rejects too, and the transaction stays open.
RollbackTransaction(t) ==
    LET c == ConnOf(t)
        kind == IF Nested(t) THEN "rollbackTo" ELSE "rollback"
    IN /\ Completed(t, TRUE)
       /\ IF NothingToRollBack(t) THEN Settle(t, "rolledback", session, durable)
          ELSE \E ok \in Outcomes(c, kind, t) :
                 Settle(t, IF ok THEN "rolledback" ELSE "failed", After(c, kind, t, ok), durable)

Rollback(t) ==
    /\ Ready(t) /\ UNCHANGED <<over, undone>>
    /\ CASE dialect = "mssql" -> RollbackTransaction(t)
         [] dialect = "oracledb" /\ ~Nested(t) -> RollbackAsync(t)
         [] OTHER -> Query(t, IF Nested(t) THEN "rollbackTo" ELSE "rollback", "rolledback")

-----------------------------------------------------------------------------
(* Ending again: the container settles after the transaction was ended by    *)
(* hand, and its promise has settled.  query() refuses to send what a        *)
(* completed transaction asks for, so MySQL and Redshift do nothing; commit  *)
(* and rollback of Oracle and SQL Server do not look.                        *)

NotHeard ==
    UNCHANGED <<dialect, stage, promise, made, acknowledged, misrouted, orphaned, implicit, isTransaction,
                held, lost, requestQueue, running>>

\* A nested transaction has nothing to commit.
CommitAgain(t) ==
    LET c == ConnOf(t)
    IN /\ \E ok \in IF Nested(t) THEN {FALSE} ELSE Outcomes(c, "commit", t) :
            /\ Completed(t, ok \/ (dialect = "oracledb" /\ ~Nested(t)))
            /\ session' = IF ok THEN Emptied(c) ELSE session
            /\ durable' = MadeDurable(c, "commit", t, ok)
       /\ NotHeard /\ UNCHANGED undone

\* SQL Server rolls back to the savepoint of a nested transaction, which is still
\* there, and with it what others have written since; Oracle's nested one asks
\* query(), and its savepoint is gone when acquireConnection could commit.
RollbackAgain(t) ==
    LET c == ConnOf(t)
        kind == IF Nested(t) THEN "rollbackTo" ELSE "rollback"
        refused == IF dialect = "mssql" THEN NothingToRollBack(t) ELSE Nested(t) /\ IsCompleted(t)
    IN /\ Completed(t, TRUE)
       /\ \E ok \in IF refused THEN {FALSE} ELSE Outcomes(c, kind, t) :
            \/ ~ok /\ UNCHANGED session
            \/ ok /\ Nested(t) /\ session' = After(c, kind, t, ok)
            \/ ok /\ ~Nested(t) /\ session' = Emptied(c)
       /\ undone' = undone \cup (session[c].writes \ session'[c].writes)
       /\ NotHeard /\ UNCHANGED durable

\* A rollback of Oracle that failed has left the promise pending, which a commit
\* then rejects.
EndAgain(t) ==
    /\ dialect \in {"oracledb", "mssql"}
    /\ stage[t] = "left" /\ t \notin over /\ over' = over \cup {t}
    /\ \/ promise[t] = "pending" /\ CommitTransaction(t) /\ UNCHANGED undone
       \/ promise[t] # "pending" /\ CommitAgain(t)
       \/ RollbackAgain(t)

\* Oracle: a nested rollback() that does not wait for the commit() before it
\* reaches the server before acquireConnection commits.
ReleaseAndRollBack(t) ==
    LET c == ConnOf(t)
    IN /\ Ready(t) /\ dialect = "oracledb" /\ Nested(t)
       /\ over' = over \cup {t}
       /\ Completed(t, TRUE)
       /\ \E ok \in Outcomes(c, "rollbackTo", t) :
            LET after == After(c, "rollbackTo", t, ok)
            IN /\ Settle(t, "committed", after, durable)
               /\ undone' = undone \cup (session[c].writes \ after[c].writes)

-----------------------------------------------------------------------------
\* The server forgets what was not committed; a request under way fails.
Lose(c) ==
    /\ c \in held /\ c \notin lost /\ Cardinality(lost) < MaxFaults
    /\ lost' = lost \cup {c}
    /\ session' = [session EXCEPT ![c] = S!IdleSession]
    /\ running' = [running EXCEPT ![c] = Idle]
    /\ UNCHANGED requestQueue /\ orphaned' = orphaned \cup Orphans
    /\ UNCHANGED <<dialect, program, misrouted, implicit, undone, durable, isTransaction, held>>

Next ==
    \/ \E t \in Trx :
         \/ Begin(t) \/ Savepoint(t) \/ Write(t) \/ ImplicitCommit(t) \/ Commit(t) \/ Rollback(t)
         \/ EndAgain(t) \/ ReleaseAndRollBack(t)
    \/ \E c \in Conn : Complete(c) \/ Lose(c)

Spec == Init /\ [][Next]_vars

-----------------------------------------------------------------------------
(* Properties *)

\* Acknowledged writes, without those of requests of SQL Server that ran on
\* another connection or were taken up by whatever came next, and without those
\* a deadlock or a second end took back.
Writes(t) == {write \in acknowledged \ (misrouted \cup orphaned \cup undone) : write[1] = t}

\* The nested transaction is over: in Oracle that has committed the outer one.
NestedIsOver == dialect = "oracledb" /\ stage["n"] = "left"

\* After a statement that failed Redshift discards a transaction and reports
\* its commit as a success.
Discarded == dialect = "redshift" /\ Cardinality(acknowledged) < made["a"]

\* What a program wrote in transactions that resolved, the outer ones included,
\* is permanent: every commit(), release() and query() of the dialects.
CommittedIsKept ==
    \A t \in Trx :
        (\A u \in Line(t) : promise[u] = "committed") /\ ~Discarded => Writes(t) \subseteq durable

\* What was written in a transaction that was rolled back is neither permanent
\* nor left to be committed, unless the server ended a transaction before by
\* itself, for a statement on tables or a deadlock, or in Oracle the end of the
\* nested transaction has committed.
RolledBackIsGone ==
    \A t \in Trx :
        promise[t] = "rolledback" /\ ConnOf(t) \notin implicit /\ ~NestedIsOver =>
            Writes(t) \cap (durable \cup session[ConnOf(t)].writes) = {}

\* A connection that was given back has no transaction open and nothing
\* uncommitted, unless its transaction failed to end.
ReturnedClean ==
    \A t \in {"a", "b"} :
        promise[t] \in {"committed", "rolledback"} /\ ConnOf(t) \notin lost =>
            LET s == session[ConnOf(t)]
            IN s.writes = {} /\ (dialect # "oracledb" => s.owner = "none")

\* A statement runs on the connection of its own transaction: what the comment of
\* _query says ("Runs the query on the specified connection").
RunsWhereAsked == misrouted = {}
=============================================================================
