------------------------------ MODULE Session ------------------------------
(***************************************************************************)
(* The server side of one database connection, as knex uses it: at most    *)
(* one transaction, a stack of savepoints inside it, and the statements of *)
(* lib/execution/transaction.ts.  The database is not part of knex: these  *)
(* operators are what the statements knex sends rely on.                   *)
(*                                                                         *)
(* A write is identified with the knex transaction that issued it.  A      *)
(* savepoint remembers the writes made before it was set, so ROLLBACK TO   *)
(* restores that set and RELEASE only forgets the savepoint.               *)
(***************************************************************************)
EXTENDS Naturals, Sequences

CONSTANTS
  Trx,                  \* identities of knex Transaction objects (txid)
  NoTrx,                \* no transaction
  AbortOnError,         \* a failed statement aborts the transaction (PostgreSQL)
  CommitFailureKeepsOpen \* a failed COMMIT leaves the transaction open (SQLite)

ASSUME SessionAssumption ==
  /\ NoTrx \notin Trx
  /\ AbortOnError \in BOOLEAN
  /\ CommitFailureKeepsOpen \in BOOLEAN

Mark == [sp : Trx, before : SUBSET Trx]

SessionState ==
  [owner : Trx \cup {NoTrx}, aborted : BOOLEAN,
   writes : SUBSET Trx, marks : Seq(Mark)]

IdleSession == [owner |-> NoTrx, aborted |-> FALSE, writes |-> {}, marks |-> <<>>]

HasMark(s, t) == \E i \in DOMAIN s.marks : s.marks[i].sp = t

\* Position of t's savepoint: a Transaction sets its own at most once.
MarkOf(s, t) == CHOOSE i \in DOMAIN s.marks : s.marks[i].sp = t

Began(s, t) == [s EXCEPT !.owner = t]

Marked(s, t) == [s EXCEPT !.marks = Append(@, [sp |-> t, before |-> s.writes])]

Unmarked(s, t) == [s EXCEPT !.marks = SubSeq(@, 1, MarkOf(s, t) - 1)]

RolledBackTo(s, t) ==
  [s EXCEPT !.aborted = FALSE,
            !.writes  = s.marks[MarkOf(s, t)].before,
            !.marks   = SubSeq(@, 1, MarkOf(s, t))]

\* A write outside a transaction commits at once and leaves no trace here.
Written(s, t) ==
  IF s.owner = NoTrx THEN s ELSE [s EXCEPT !.writes = @ \cup {t}]

\* Whether the server can carry out a statement of the given kind for t.
CanRun(s, kind, t) ==
  CASE kind = "begin"      -> s.owner = NoTrx
    [] kind = "savepoint"  -> s.owner # NoTrx /\ ~s.aborted
    [] kind = "query"      -> ~s.aborted
    [] kind = "release"    -> ~s.aborted /\ HasMark(s, t)
    [] kind = "rollbackTo" -> HasMark(s, t)
    [] OTHER               -> TRUE

\* A statement the server could run may still fail (a constraint, a lock, a
\* deferred check); those that only move a savepoint or roll back do not.
MayFail(kind) == kind \in {"isolation", "begin", "query", "commit"}

AfterSuccess(s, kind, t) ==
  CASE kind = "begin"      -> Began(s, t)
    [] kind = "savepoint"  -> Marked(s, t)
    [] kind = "query"      -> Written(s, t)
    [] kind = "release"    -> Unmarked(s, t)
    [] kind = "rollbackTo" -> RolledBackTo(s, t)
    [] kind \in {"commit", "rollback"} -> IdleSession
    [] OTHER               -> s

AfterFailure(s, kind) ==
  IF kind = "commit" /\ ~CommitFailureKeepsOpen THEN IdleSession
  ELSE [s EXCEPT !.aborted = @ \/ (AbortOnError /\ s.owner # NoTrx)]

\* The writes a successful statement makes durable: COMMIT of an aborted
\* transaction reports success and discards everything, as PostgreSQL does.
MadeDurable(s, kind, t) ==
  CASE kind = "commit" /\ ~s.aborted        -> s.writes
    [] kind = "query" /\ s.owner = NoTrx    -> {t}
    [] OTHER                                -> {}
=============================================================================
