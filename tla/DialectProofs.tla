--------------------------- MODULE DialectProofs ---------------------------
(***************************************************************************)
(* What the transaction classes of the dialects keep, roll back and give     *)
(* back, for any dialects and any number of writes and requests: the         *)
(* inductive invariant of DialectTransactions, and its three properties.     *)
(***************************************************************************)
EXTENDS DialectTransactions, FiniteSetTheorems, SequenceTheorems, TLAPS

Writing == Trx \X Nat
Mark    == [sp : Trx, before : SUBSET Writing]
SessionState ==
    [owner : {"none", "a", "b"}, aborted : BOOLEAN, writes : SUBSET Writing, marks : Seq(Mark)]
Request == [trx : Trx, conn : Conn, write : Writing]

Roots == {"a", "b"}
Good  == {"committed", "rolledback"}
RootOf(t) == IF t = "b" THEN "b" ELSE "a"

TypeInv ==
    /\ dialect \in {"mysql", "oracledb", "redshift", "mssql"}
    /\ stage \in [Trx -> {"none", "open", "left"}]
    /\ promise \in [Trx -> {"pending", "committed", "rolledback", "failed"}]
    /\ completed \in [Trx -> BOOLEAN]
    /\ made \in [Trx -> Nat]
    /\ acknowledged \in SUBSET Writing /\ durable \in SUBSET Writing
    /\ misrouted \in SUBSET Writing /\ orphaned \in SUBSET Writing
    /\ over \in SUBSET Trx /\ implicit \in SUBSET Conn /\ undone \in SUBSET Writing
    /\ session \in [Conn -> SessionState]
    /\ isTransaction \in [Conn -> BOOLEAN]
    /\ held \in SUBSET Conn /\ lost \in SUBSET Conn
    /\ requestQueue \in Seq(Request)
    /\ running \in [Conn -> Request \cup {Idle}]

\* How far the transactions have got.
Course ==
    /\ \A t \in Trx : promise[t] # "pending" => stage[t] = "left"
    /\ stage["n"] = "open" => stage["a"] = "open"
    /\ stage["n"] = "left" => promise["n"] # "pending"
    /\ stage["n"] = "open" => dialect # "redshift"
    /\ stage["b"] # "none" => dialect = "mssql"
    /\ \A t \in Trx : stage[t] = "left" /\ promise[t] = "pending" =>
         dialect = "oracledb" /\ ConnOf(t) \in lost

-----------------------------------------------------------------------------
(* The requests of SQL Server *)

OfItsTransaction(r) ==
    r.conn = ConnOf(r.trx) /\ r.write[1] = r.trx /\ stage[r.trx] # "none"

\* A connection that takes none up by itself has orphans only.
Waiting(r) == running[r.conn] = Idle => r.write \in orphaned

\* No request of t will be run on its own connection but for orphans.
Over(t) ==
    /\ \A r \in ToSet(requestQueue) : r.trx = t => r.write \in orphaned
    /\ \A c \in Conn : running[c] # Idle /\ running[c].trx = t /\ running[c].conn = c =>
         running[c].write \in orphaned

InTurn ==
    /\ dialect # "mssql" => requestQueue = <<>> /\ \A c \in Conn : running[c] = Idle
    /\ \A r \in ToSet(requestQueue) : OfItsTransaction(r) /\ Waiting(r)
    /\ \A c \in Conn : running[c] # Idle =>
         /\ OfItsTransaction(running[c])
         /\ c \notin lost /\ (session[c].owner # "none" \/ c \in implicit)
    /\ stage["n"] = "open" => Over("a")
    /\ promise["n"] = "rolledback" /\ "c1" \notin implicit => Over("n")
    /\ \A t \in Roots : promise[t] \in Good /\ ConnOf(t) \notin implicit => running[ConnOf(t)] = Idle
    /\ promise["a"] \in Good /\ "c1" \notin implicit => Over("n")
    /\ \A t \in Roots : promise[t] \in Good /\ ConnOf(t) \notin implicit => Over(t)

-----------------------------------------------------------------------------
(* The sessions *)

Lasting(t) == ConnOf(t) \notin implicit /\ ~NestedIsOver

SessionOf(t) ==
    LET s == session[ConnOf(t)]
    IN /\ s.owner \in {"none", t}
       /\ s.owner = "none" => s.writes = {} /\ s.marks = <<>>
       /\ stage[t] = "none" => s.owner = "none" /\ ConnOf(t) \notin held \cup lost \cup implicit
       /\ stage[t] = "open" /\ ConnOf(t) \notin lost \cup implicit => s.owner = t
       /\ ConnOf(t) \in lost => s.owner = "none"
       /\ ConnOf(t) \in implicit /\ dialect = "mssql" => s.owner = "none"
       /\ \A w \in s.writes : w \in acknowledged /\ (w \in misrouted \/ ConnOf(w[1]) = ConnOf(t))

\* The savepoint of the nested transaction is the only one.
Savepoints ==
    LET s == session["c1"]
    IN /\ session["c2"].marks = <<>>
       /\ s.marks # <<>> =>
            /\ stage["n"] # "none"
            /\ Len(s.marks) = 1 /\ s.marks[1].sp = "n"
            /\ s.marks[1].before \subseteq s.writes
            /\ \A w \in s.marks[1].before : w[1] # "n"
       /\ stage["n"] = "open" /\ "c1" \notin lost \cup implicit => s.marks # <<>>

\* Only Redshift aborts, and then it discards.
Aborts ==
    /\ \A c \in Conn : session[c].aborted => Discarded
    /\ dialect = "redshift" =>
         IsFiniteSet(acknowledged) /\ Cardinality(acknowledged) <= made["a"]

Sessions ==
    /\ \A t \in Roots : SessionOf(t)
    /\ Savepoints /\ Aborts
    /\ dialect = "oracledb" /\ stage["a"] = "open" /\ stage["n"] # "left" => isTransaction["c1"]
    /\ \A w \in acknowledged : stage[w[1]] # "none"

-----------------------------------------------------------------------------
(* The writes *)

\* What may still be committed is permanent or in the session.
Kept(t) ==
    promise[RootOf(t)] = "pending" /\ promise[t] \in {"pending", "committed"} /\ ConnOf(t) \notin lost
      => Writes(t) \subseteq durable \cup session[ConnOf(t)].writes

\* A rollback to the savepoint leaves the writes of the outer transaction.
KeptBefore ==
    stage["n"] = "open" /\ "c1" \notin lost /\ session["c1"].marks # <<>>
      => Writes("a") \subseteq durable \cup session["c1"].marks[1].before

\* Nothing is permanent before its top-level transaction has committed.
NotYet(t) ==
    Lasting(t) /\ promise[RootOf(t)] \in {"pending", "rolledback"} => Writes(t) \cap durable = {}

Permanence ==
    /\ durable \subseteq acknowledged
    /\ \A t \in Trx : Kept(t) /\ NotYet(t)
    /\ KeptBefore
    /\ CommittedIsKept /\ RolledBackIsGone /\ ReturnedClean

DialectInv == TypeInv /\ Course /\ InTurn /\ Sessions /\ Permanence

-----------------------------------------------------------------------------
(* The server: what each statement makes of a session *)

LEMMA OutcomesAre ==
  ASSUME NEW c \in Conn, NEW kind, NEW t \in Trx, NEW ok \in Outcomes(c, kind, t)
  PROVE  /\ ok \in BOOLEAN
         /\ ok => /\ c \notin lost /\ running[c] = Idle /\ S!CanRun(session[c], kind, t)
                  /\ dialect = "mssql" /\ kind = "commit" => session[c].owner # "none"
         /\ ~ok => \/ c \in lost \/ running[c] # Idle \/ ~S!CanRun(session[c], kind, t)
                   \/ S!MayFail(kind)
BY DEF Outcomes, NotInTransaction, S!MayFail

\* The position of the one savepoint.
LEMMA OneMark ==
  ASSUME NEW s \in SessionState,
         s.marks # <<>> => Len(s.marks) = 1 /\ s.marks[1].sp = "n"
  PROVE  /\ S!HasMark(s, "n") <=> s.marks # <<>>
         /\ s.marks # <<>> => /\ S!MarkOf(s, "n") = 1
                              /\ SubSeq(s.marks, 1, S!MarkOf(s, "n") - 1) = <<>>
                              /\ SubSeq(s.marks, 1, S!MarkOf(s, "n")) = s.marks
                              /\ s.marks[1] \in Mark
<1>1. s.marks \in Seq(Mark)
  BY DEF SessionState
<1>2. CASE s.marks = <<>>
  BY <1>2 DEF S!HasMark
<1>3. CASE s.marks # <<>>
  <2>1. DOMAIN s.marks = {1} /\ s.marks[1].sp = "n" /\ s.marks[1] \in Mark
    BY <1>1, <1>3
  <2>2. S!HasMark(s, "n") /\ S!MarkOf(s, "n") = 1
    BY <2>1 DEF S!HasMark, S!MarkOf
  <2>3. SubSeq(s.marks, 1, 1) = s.marks /\ SubSeq(s.marks, 1, 0) = <<>>
    BY <1>1, <1>3
  <2>4. SubSeq(s.marks, 1, S!MarkOf(s, "n")) = s.marks
    BY <2>2, <2>3, Zenon
  <2>5. 1 - 1 = 0 /\ S!MarkOf(s, "n") - 1 = 1 - 1
    BY <2>2
  <2>6. SubSeq(s.marks, 1, S!MarkOf(s, "n") - 1) = <<>>
    BY <2>3, <2>5, Zenon
  <2> QED BY <1>3, <2>1, <2>2, <2>4, <2>6, Zenon
<1> QED BY <1>2, <1>3

\* What a statement that succeeds makes of the session s.
LEMMA Success ==
  ASSUME NEW s \in SessionState, NEW t \in Roots
  PROVE  /\ S!AfterSuccess(s, "begin", t) = [s EXCEPT !.owner = t]
         /\ S!AfterSuccess(s, "commit", t) = S!IdleSession
         /\ S!AfterSuccess(s, "rollback", t) = S!IdleSession
         /\ S!MadeDurable(s, "commit", t) = IF s.aborted THEN {} ELSE s.writes
         /\ S!MadeDurable(s, "rollback", t) = {}
         /\ S!MadeDurable(s, "begin", t) = {}
BY DEF S!AfterSuccess, S!MadeDurable, S!Began

LEMMA SuccessNested ==
  ASSUME NEW s \in SessionState
  PROVE  /\ S!AfterSuccess(s, "savepoint", "n") =
              [s EXCEPT !.marks = Append(@, [sp |-> "n", before |-> s.writes])]
         /\ S!AfterSuccess(s, "release", "n") =
              [s EXCEPT !.marks = SubSeq(@, 1, S!MarkOf(s, "n") - 1)]
         /\ S!AfterSuccess(s, "rollbackTo", "n") =
              [s EXCEPT !.aborted = FALSE,
                        !.writes  = s.marks[S!MarkOf(s, "n")].before,
                        !.marks   = SubSeq(s.marks, 1, S!MarkOf(s, "n"))]
         /\ S!MadeDurable(s, "release", "n") = {}
         /\ S!MadeDurable(s, "rollbackTo", "n") = {}
         /\ S!CanRun(s, "release", "n") <=> ~s.aborted /\ S!HasMark(s, "n")
         /\ S!CanRun(s, "rollbackTo", "n") <=> S!HasMark(s, "n")
         /\ ~S!MayFail("release") /\ ~S!MayFail("rollbackTo") /\ ~S!MayFail("savepoint")
BY DEF S!AfterSuccess, S!MadeDurable, S!Marked, S!Unmarked, S!RolledBackTo, S!CanRun, S!MayFail

LEMMA SuccessQuery ==
  ASSUME NEW s \in SessionState, NEW w \in Writing
  PROVE  /\ S!AfterSuccess(s, "query", w) =
              IF s.owner = "none" THEN s ELSE [s EXCEPT !.writes = @ \cup {w}]
         /\ S!MadeDurable(s, "query", w) = IF s.owner = "none" THEN {w} ELSE {}
BY DEF S!AfterSuccess, S!MadeDurable, S!Written

\* What one that fails makes of it.
LEMMA Failure ==
  ASSUME NEW s \in SessionState, NEW kind
  PROVE  S!AfterFailure(s, kind) =
           IF kind = "commit" /\ dialect = "redshift" THEN S!IdleSession
           ELSE [s EXCEPT !.aborted = @ \/ (dialect = "redshift" /\ s.owner # "none")]
BY DEF S!AfterFailure

LEMMA IdleIs ==
  /\ S!IdleSession \in SessionState
  /\ S!IdleSession.owner = "none" /\ ~S!IdleSession.aborted
  /\ S!IdleSession.writes = {} /\ S!IdleSession.marks = <<>>
BY DEF S!IdleSession, SessionState

-----------------------------------------------------------------------------
(* The end of a transaction, in whichever dialect *)

\* What may become of the session and of what is permanent when t ends with
\* `result`: z is the session on its connection, d what is permanent.
Ends(t, result, z, d) ==
    LET c == ConnOf(t)
        s == session[c]
    IN /\ z \in SessionState
       /\ durable \subseteq d /\ d \subseteq durable \cup s.writes
       /\ z.writes \subseteq s.writes
       /\ z.owner \in {"none", RootOf(t)}
       /\ z.owner = "none" => z.writes = {} /\ z.marks = <<>>
       /\ z.marks \in {<<>>, s.marks}
       /\ z.marks # <<>> => s.marks[1].before \subseteq z.writes
       /\ z.aborted => s.aborted
       /\ running[c] # Idle => z = s
       /\ c \in lost => z.owner = "none"
       /\ s.owner = "none" /\ dialect # "oracledb" => z.owner = "none"
       /\ t = "n" => /\ z.owner \in {s.owner, "a"}
                     /\ "c1" \notin lost => Writes("a") \subseteq d \cup z.writes
                     /\ result = "committed" => s.writes \subseteq d \cup z.writes \cup undone'
                     /\ dialect # "oracledb" => d = durable
                     /\ result = "rolledback" /\ "c1" \notin implicit =>
                          /\ running["c1"] = Idle
                          /\ dialect # "oracledb" => Writes("n") \cap z.writes = {}
       /\ t \in Roots /\ result \in Good =>
            /\ (running[c] = Idle \/ c \in implicit) /\ z.writes = {}
            /\ c \notin lost /\ dialect # "oracledb" => z.owner = "none"
       /\ t \in Roots /\ result = "committed" =>
            c \notin lost /\ (~s.aborted => s.writes \subseteq d)
       /\ t \in Roots /\ result = "rolledback" => d = durable

\* t is over, with `result`, or was never begun.
Ended(t, result) ==
    /\ promise[t] = "pending" /\ (t = "n" => stage[t] # "left")
    /\ t = "a" => stage["n"] # "open"
    /\ t = "n" => stage["a"] = "open"
    /\ t = "b" => dialect = "mssql"
    /\ result \in {"committed", "rolledback", "failed"}
    /\ stage[t] # "open" => result = "failed"
    /\ stage' = [stage EXCEPT ![t] = "left"]
    /\ promise' = [promise EXCEPT ![t] = result]
    /\ completed' \in [Trx -> BOOLEAN]
    /\ isTransaction' = [isTransaction EXCEPT ![ConnOf(t)] = FALSE]
    /\ held' \subseteq held
    /\ over \subseteq over' /\ over' \subseteq over \cup {t}
    /\ undone \subseteq undone' /\ undone' \subseteq undone \cup session[ConnOf(t)].writes
    /\ session' = [session EXCEPT ![ConnOf(t)] = session'[ConnOf(t)]]
    /\ Ends(t, result, session'[ConnOf(t)], durable')
    /\ UNCHANGED <<dialect, made, acknowledged, misrouted, orphaned, implicit, lost, requestQueue, running>>

\* acquireConnection's finally takes nothing from that: Oracle's commit keeps
\* what is there.
LEMMA SettleEnds ==
  ASSUME TypeInv, NEW t \in Trx, NEW result, NEW z, NEW d,
         NEW after, after = [session EXCEPT ![ConnOf(t)] = z],
         t = "b" => dialect = "mssql",
         Ends(t, result, z, d), Settle(t, result, after, d)
  PROVE  /\ session' = [session EXCEPT ![ConnOf(t)] = session'[ConnOf(t)]]
         /\ Ends(t, result, session'[ConnOf(t)], durable')
<1> DEFINE c == ConnOf(t)
<1>1. c \in Conn /\ after[c] = z /\ after \in [Conn -> SessionState] /\ z \in SessionState
  BY DEF ConnOf, Conn, TypeInv, Ends
<1>2. PICK ok \in IF dialect = "oracledb" THEN Outcomes(c, "commit", t) ELSE {FALSE} :
        /\ session' = IF ok THEN Recommenced(c) ELSE after
        /\ durable' = d \cup IF ok THEN after[c].writes ELSE {}
  BY DEF Settle
<1>3. CASE ~ok
  <2>1. session' = after /\ durable' = d
    BY <1>2, <1>3
  <2> QED BY <1>1, <2>1
<1>4. CASE ok
  <2>1. dialect = "oracledb" /\ c \notin lost /\ running[c] = Idle /\ t # "b"
    BY <1>1, <1>2, <1>4, OutcomesAre
  <2>2. DEFINE e == [S!IdleSession EXCEPT !.owner = "a"]
  <2>3. /\ e \in SessionState /\ e.owner = "a" /\ e.writes = {} /\ e.marks = <<>> /\ ~e.aborted
    BY IdleIs DEF SessionState
  <2>4. session' = [session EXCEPT ![c] = e] /\ durable' = d \cup z.writes
    BY <1>1, <1>2, <1>4 DEF Recommenced, S!Began
  <2>5. session'[c] = e
    BY <1>1, <2>4 DEF TypeInv
  <2>6. RootOf(t) = "a"
    BY <2>1 DEF RootOf
  <2> HIDE DEF e
  <2>7. Ends(t, result, e, d \cup z.writes)
    <3> DEFINE s == session[c]
               f == d \cup z.writes
    <3>1. /\ durable \subseteq f /\ f \subseteq durable \cup s.writes
          /\ e.writes \subseteq s.writes
      BY <2>3 DEF Ends
    <3>2. t = "n" => /\ "c1" \notin lost => Writes("a") \subseteq f \cup e.writes
                     /\ result = "committed" => s.writes \subseteq f \cup e.writes \cup undone'
                     /\ result = "rolledback" /\ "c1" \notin implicit => running["c1"] = Idle
      BY DEF Ends
    <3>3. /\ t \in Roots /\ result = "committed" =>
               c \notin lost /\ (~s.aborted => s.writes \subseteq f)
          /\ t \in Roots /\ result = "rolledback" => f = durable
      BY DEF Ends, Good
    <3> HIDE DEF f
    <3>4. Ends(t, result, e, f)
      BY <2>1, <2>3, <2>6, <3>1, <3>2, <3>3 DEF Ends
    <3> QED BY <3>4 DEF f
  <2> QED BY <2>4, <2>5, <2>7
<1> QED BY <1>3, <1>4

\* Every waiting request is a request.
LEMMA QueuedAre ==
  ASSUME TypeInv
  PROVE  /\ \A r \in ToSet(requestQueue) : r \in Request
         /\ \A c \in Conn : running[c] # Idle => running[c] \in Request
BY DEF TypeInv, ToSet

\* Whose connection runs nothing has orphans only.
LEMMA IdleOver ==
  ASSUME TypeInv, InTurn, NEW t \in Trx, running[ConnOf(t)] = Idle
  PROVE  Over(t)
BY QueuedAre DEF InTurn, Over, OfItsTransaction, Waiting, Request

LEMMA EndedTypes ==
  ASSUME TypeInv, Course, NEW t \in Trx, NEW result, Ended(t, result)
  PROVE  TypeInv' /\ Course'
<1>1. ConnOf(t) \in Conn
  BY DEF ConnOf, Conn
<1>2. Ends(t, result, session'[ConnOf(t)], durable')
  BY DEF Ended
<1>3. /\ session'[ConnOf(t)] \in SessionState /\ durable' \in SUBSET Writing
      /\ undone' \in SUBSET Writing /\ over' \in SUBSET Trx
  BY <1>1, <1>2 DEF Ends, Ended, TypeInv, SessionState
<1>4. TypeInv'
  BY <1>1, <1>3 DEF Ended, TypeInv
<1>5. Course'
  BY DEF Ended, TypeInv, Course, Trx
<1> QED BY <1>4, <1>5

LEMMA EndedRequests ==
  ASSUME TypeInv, Course, InTurn, NEW t \in Trx, NEW result, Ended(t, result)
  PROVE  InTurn'
<1>1. ConnOf(t) \in Conn /\ \A u \in Trx : ConnOf(u) \in Conn
  BY DEF ConnOf, Conn
<1>2. Ends(t, result, session'[ConnOf(t)], durable')
  BY DEF Ended
<1>3. \A u \in Trx : Over(u)' <=> Over(u)
  BY DEF Ended, Over
<1>4. dialect' # "mssql" => requestQueue' = <<>> /\ \A c \in Conn : running'[c] = Idle
  BY DEF Ended, InTurn
<1>5. \A u \in Trx : stage[u] # "none" => stage'[u] # "none"
  BY DEF Ended, TypeInv
<1>6. ASSUME NEW r \in Request, OfItsTransaction(r)
      PROVE  OfItsTransaction(r)'
  BY <1>5, <1>6 DEF OfItsTransaction, Request
<1>7. \A r \in ToSet(requestQueue') : OfItsTransaction(r)' /\ Waiting(r)'
  BY <1>6, QueuedAre DEF InTurn, Ended, Waiting
<1>8. ASSUME NEW c \in Conn, running'[c] # Idle
      PROVE  /\ OfItsTransaction(running[c])'
             /\ c \notin lost' /\ (session'[c].owner # "none" \/ c \in implicit')
  <2>1. running' = running /\ lost' = lost /\ implicit' = implicit /\ running[c] # Idle
    BY <1>8 DEF Ended
  <2>2. OfItsTransaction(running[c]) /\ c \notin lost /\ (session[c].owner # "none" \/ c \in implicit)
    BY <2>1 DEF InTurn
  <2>3. PICK r \in Request : r = running[c]
    BY <2>1, QueuedAre
  <2>5. OfItsTransaction(r)'
    BY <1>6, <2>2, <2>3
  <2>6. OfItsTransaction(running[c])'
    BY <2>1, <2>3, <2>5 DEF OfItsTransaction
  <2>4. session'[c] = session[c]
    BY <1>1, <1>2, <2>1 DEF Ended, Ends, TypeInv
  <2> QED BY <2>1, <2>2, <2>4, <2>6
<1>9. stage'["n"] = "open" => Over("a")'
  BY <1>3 DEF Ended, InTurn, TypeInv, Trx
<1>10. result \in Good /\ ConnOf(t) \notin implicit =>
         running[ConnOf(t)] = Idle \/ (t = "n" /\ result = "committed")
  BY <1>2 DEF Ends, Good, Roots, Trx, ConnOf
<1>11. /\ promise'[t] = result /\ running' = running /\ implicit' = implicit
       /\ \A u \in Trx : u # t => promise'[u] = promise[u]
  BY DEF Ended, TypeInv
<1>12. promise'["n"] = "rolledback" /\ "c1" \notin implicit' => Over("n")'
  BY <1>3, <1>10, <1>11, IdleOver DEF InTurn, Trx, Good, ConnOf
<1>13. \A u \in Roots : promise'[u] \in Good /\ ConnOf(u) \notin implicit' => running'[ConnOf(u)] = Idle
  BY <1>10, <1>11 DEF InTurn, Roots, Trx
<1>14. promise'["a"] \in Good /\ "c1" \notin implicit' => Over("n")'
  BY <1>3, <1>10, <1>11, IdleOver DEF InTurn, Trx, ConnOf
<1>15. \A u \in Roots : promise'[u] \in Good /\ ConnOf(u) \notin implicit' => Over(u)'
  BY <1>3, <1>10, <1>11, IdleOver DEF InTurn, Trx, Roots
<1> QED BY <1>4, <1>7, <1>8, <1>9, <1>12, <1>13, <1>14, <1>15 DEF InTurn

LEMMA EndedSessions ==
  ASSUME TypeInv, Course, InTurn, Sessions, NEW t \in Trx, NEW result, Ended(t, result)
  PROVE  Sessions'
<1> DEFINE c == ConnOf(t)
           s == session[c]
           z == session'[c]
<1>1. c \in Conn /\ RootOf(t) \in Roots /\ ConnOf(RootOf(t)) = c
  BY DEF ConnOf, Conn, RootOf, Roots, Trx
<1>2. Ends(t, result, z, durable')
  BY DEF Ended
<1>3. \A d \in Conn : d # c => session'[d] = session[d]
  BY DEF Ended, TypeInv
<1>4. /\ UNCHANGED <<dialect, made, acknowledged, misrouted, implicit, lost>>
      /\ stage'[t] = "left" /\ \A u \in Trx : u # t => stage'[u] = stage[u]
  BY DEF Ended, TypeInv
<1>5. SessionOf(RootOf(t))
  BY <1>1 DEF Sessions
<1>6. SessionOf(RootOf(t))'
  <2>1. z.owner \in {"none", RootOf(t)} /\ (z.owner = "none" => z.writes = {} /\ z.marks = <<>>)
    BY <1>2 DEF Ends
  <2>2. /\ c \in lost' => z.owner = "none"
        /\ \A w \in z.writes : w \in acknowledged' /\ (w \in misrouted' \/ ConnOf(w[1]) = c)
    BY <1>1, <1>2, <1>4, <1>5 DEF Ends, SessionOf
  <2>3. stage'[RootOf(t)] = "none" => FALSE
    BY <1>4 DEF Ended, Trx, RootOf
  <2>4. stage'[RootOf(t)] = "open" /\ c \notin lost' \cup implicit' => z.owner = RootOf(t)
    BY <1>1, <1>2, <1>4, <1>5 DEF Trx, RootOf, Ends, SessionOf
  <2>5. c \in implicit' /\ dialect' = "mssql" => z.owner = "none"
    BY <1>1, <1>2, <1>4, <1>5 DEF Ends, SessionOf
  <2> QED BY <1>1, <2>1, <2>2, <2>3, <2>4, <2>5 DEF SessionOf
<1>7. ASSUME NEW u \in Roots, u # RootOf(t)
      PROVE  SessionOf(u)'
  <2>1. ConnOf(u) \in Conn /\ ConnOf(u) # c /\ u # t /\ u \in Trx
    BY <1>7 DEF ConnOf, Conn, RootOf, Roots, Trx
  <2>2. held' \subseteq held
    BY DEF Ended
  <2> QED BY <1>3, <1>4, <2>1, <2>2 DEF Sessions, SessionOf
<1>8. Savepoints'
  <2>1. session'["c2"].marks = <<>>
    BY <1>1, <1>2, <1>3 DEF Sessions, Savepoints, Ends, Conn
  <2>2. session'["c1"].marks \in {<<>>, session["c1"].marks}
    BY <1>1, <1>2, <1>3 DEF Ends, Conn
  <2>3. stage'["n"] = "open" /\ "c1" \notin lost' \cup implicit' =>
          session'["c1"].marks = session["c1"].marks
    BY <1>3, <1>4 DEF Ended, Trx, Conn, ConnOf
  <2>4. stage["n"] # "none" => stage'["n"] # "none"
    BY <1>4 DEF Trx
  <2>5. stage'["n"] = "open" => stage["n"] = "open"
    BY <1>4 DEF Trx
  <2>6. session'["c1"].marks # <<>> => session["c1"].marks[1].before \subseteq session'["c1"].writes
    <3>1. CASE c = "c1"
      BY <1>2, <2>2, <3>1 DEF Ends
    <3>2. CASE c # "c1"
      BY <1>3, <3>2 DEF Sessions, Savepoints, Conn
    <3> QED BY <3>1, <3>2
  <2> QED BY <1>4, <2>1, <2>2, <2>3, <2>4, <2>5, <2>6 DEF Sessions, Savepoints
<1>9. Aborts'
  <2>1. \A d \in Conn : session'[d].aborted => session[d].aborted
    BY <1>2, <1>3 DEF Ends
  <2>2. Discarded' <=> Discarded
    BY <1>4 DEF Discarded
  <2> QED BY <1>4, <2>1, <2>2 DEF Aborts, Sessions
<1>10. dialect' = "oracledb" /\ stage'["a"] = "open" /\ stage'["n"] # "left" => isTransaction'["c1"]
  BY <1>4 DEF Ended, Sessions, TypeInv, Trx, ConnOf, Conn
<1>11. \A w \in acknowledged' : stage'[w[1]] # "none"
  BY <1>4 DEF Sessions, Ended, TypeInv
<1> QED
  <2>1. \A u \in Roots : SessionOf(u)'
    BY <1>6, <1>7
  <2> QED BY <1>8, <1>9, <1>10, <1>11, <2>1 DEF Sessions

LEMMA EndedWrites ==
  ASSUME DialectInv, NEW t \in Trx, NEW result, Ended(t, result)
  PROVE  Permanence'
<1> DEFINE c == ConnOf(t)
           s == session[c]
           z == session'[c]
<1>0. TypeInv /\ Course /\ InTurn /\ Sessions /\ Permanence
  BY DEF DialectInv
<1>1. /\ c \in Conn /\ t \in {"a", "n", "b"}
      /\ \A u \in Trx : ConnOf(u) \in Conn /\ RootOf(u) \in Roots /\ ConnOf(RootOf(u)) = ConnOf(u)
      /\ \A u \in Roots : u \in Trx /\ RootOf(u) = u
  BY DEF ConnOf, Conn, RootOf, Roots, Trx
<1>2. Ends(t, result, z, durable')
  BY DEF Ended
<1>3. \A d \in Conn : d # c => session'[d] = session[d]
  BY <1>0 DEF Ended, TypeInv
<1>4. /\ UNCHANGED <<dialect, made, acknowledged, misrouted, orphaned, implicit, lost>>
      /\ stage'[t] = "left" /\ \A u \in Trx : u # t => stage'[u] = stage[u]
      /\ promise'[t] = result /\ \A u \in Trx : u # t => promise'[u] = promise[u]
      /\ promise[t] = "pending"
  BY <1>0 DEF Ended, TypeInv
<1>5. /\ undone \subseteq undone'
      /\ \A u \in Trx : Writes(u)' \subseteq Writes(u) /\ Writes(u)' \cap undone' = {}
      /\ Discarded' = Discarded
      /\ \A u \in Trx : Lasting(u)' => Lasting(u) /\ (t = "n" => dialect # "oracledb")
  BY <1>4 DEF Ended, Writes, Discarded, Lasting, NestedIsOver, Trx
<1>6. durable \subseteq durable' /\ durable' \subseteq durable \cup s.writes
      /\ z.writes \subseteq s.writes
  BY <1>2 DEF Ends
<1>7. SessionOf(RootOf(t))
  BY <1>0, <1>1 DEF Sessions
<1>8. ASSUME NEW u \in Trx, ConnOf(u) # c
      PROVE  Writes(u) \cap s.writes = {}
  BY <1>1, <1>7, <1>8 DEF SessionOf, Writes
<1>9. durable' \subseteq acknowledged'
  BY <1>0, <1>1, <1>4, <1>6, <1>7 DEF Permanence, SessionOf
<1>10. t = "n" => promise["a"] = "pending"
  BY <1>0 DEF Ended, Course, Trx
<1>11. ASSUME NEW u \in Trx
       PROVE  Kept(u)'
  <2>1. SUFFICES ASSUME promise'[RootOf(u)] = "pending", promise'[u] \in {"pending", "committed"},
                        ConnOf(u) \notin lost
                 PROVE  Writes(u)' \subseteq durable' \cup session'[ConnOf(u)].writes
    BY <1>4 DEF Kept
  <2>2. CASE ConnOf(u) # c
    BY <1>0, <1>1, <1>3, <1>4, <1>5, <1>6, <2>1, <2>2 DEF Permanence, Kept
  <2>3. CASE ConnOf(u) = c
    <3>1. t = "n" /\ u \in {"a", "n"} /\ result # "pending"
      BY <1>1, <1>4, <2>1, <2>3 DEF Ended, ConnOf, RootOf, Trx
    <3>2. CASE u = "a"
      BY <1>2, <1>5, <2>1, <2>3, <3>1, <3>2 DEF Ends, ConnOf
    <3>3. CASE u = "n"
      <4>1. result = "committed"
        BY <1>4, <2>1, <3>1, <3>3
      <4>2. Writes("n") \subseteq durable \cup s.writes
        BY <1>0, <1>4, <1>10, <2>1, <3>1, <3>3 DEF Permanence, Kept, RootOf, Trx
      <4>3. s.writes \subseteq durable' \cup z.writes \cup undone'
        BY <1>2, <3>1, <4>1 DEF Ends
      <4> QED BY <1>5, <1>6, <2>3, <3>3, <4>2, <4>3
    <3> QED BY <3>1, <3>2, <3>3
  <2> QED BY <2>2, <2>3
<1>12. ASSUME NEW u \in Trx
       PROVE  NotYet(u)'
  <2>1. SUFFICES ASSUME Lasting(u)', promise'[RootOf(u)] \in {"pending", "rolledback"}
                 PROVE  Writes(u) \cap durable' = {}
    BY <1>5 DEF NotYet
  <2>2. Writes(u) \cap durable = {}
    BY <1>0, <1>1, <1>4, <1>5, <2>1 DEF Permanence, NotYet
  <2>3. CASE ConnOf(u) # c
    BY <1>6, <1>8, <2>2, <2>3
  <2>4. CASE ConnOf(u) = c
    <3>1. durable' = durable
      BY <1>1, <1>2, <1>4, <1>5, <2>1, <2>4 DEF Ends, Ended, Roots, RootOf, ConnOf, Trx
    <3> QED BY <2>2, <3>1
  <2> QED BY <2>3, <2>4
<1>13. KeptBefore'
  <2>1. SUFFICES ASSUME stage'["n"] = "open", "c1" \notin lost, session'["c1"].marks # <<>>
                 PROVE  Writes("a") \subseteq durable' \cup session'["c1"].marks[1].before
    BY <1>4, <1>5 DEF KeptBefore, Trx
  <2>2. t = "b" /\ stage["n"] = "open"
    BY <1>4, <2>1 DEF Ended, Trx
  <2>3. session'["c1"] = session["c1"]
    BY <1>3, <2>2 DEF ConnOf, Conn
  <2> QED BY <1>0, <1>6, <2>1, <2>2, <2>3 DEF Permanence, KeptBefore
<1>14. CommittedIsKept'
  <2>1. SUFFICES ASSUME NEW u \in Trx, \A v \in Line(u) : promise'[v] = "committed", ~Discarded
                 PROVE  Writes(u) \subseteq durable'
    BY <1>5 DEF CommittedIsKept
  <2>2. CASE t \notin Line(u)
    <3>1. \A v \in Line(u) : promise[v] = "committed"
      BY <1>4, <2>1, <2>2 DEF Line, Outer, Trx
    <3> QED BY <1>0, <1>6, <2>1, <3>1 DEF Permanence, CommittedIsKept
  <2>3. CASE t \in Line(u)
    <3>1. u \in Line(u) /\ RootOf(u) \in Line(u)
      BY DEF Line, RootOf, Outer, Trx
    <3>2. result = "committed" /\ t \in Roots /\ RootOf(u) = t /\ ConnOf(u) = c
      BY <1>1, <1>4, <1>10, <2>1, <2>3 DEF Line, Outer, Roots, RootOf, ConnOf, Trx
    <3>3. c \notin lost /\ (~s.aborted => s.writes \subseteq durable')
      BY <1>2, <3>2 DEF Ends
    <3>4. ~s.aborted
      BY <1>0, <1>1, <2>1 DEF Sessions, Aborts
    <3>5. promise[u] \in {"pending", "committed"}
      BY <1>4, <2>1, <3>1
    <3>6. Writes(u) \subseteq durable \cup s.writes
      BY <1>0, <1>4, <3>2, <3>3, <3>5 DEF Permanence, Kept
    <3> QED BY <1>6, <3>3, <3>4, <3>6
  <2> QED BY <2>2, <2>3
<1>15. RolledBackIsGone'
  <2>1. SUFFICES ASSUME NEW u \in Trx, promise'[u] = "rolledback", Lasting(u)'
                 PROVE  /\ Writes(u) \cap durable' = {}
                        /\ Writes(u) \cap session'[ConnOf(u)].writes = {}
    <3>1. \A v \in Trx : Lasting(v)' <=> ConnOf(v) \notin implicit' /\ ~NestedIsOver'
      BY DEF Lasting
    <3> QED BY <1>5, <3>1 DEF RolledBackIsGone
  <2>2. CASE u # t
    <3>1. Writes(u) \cap durable = {} /\ Writes(u) \cap session[ConnOf(u)].writes = {}
      BY <1>0, <1>4, <1>5, <2>1, <2>2 DEF Permanence, RolledBackIsGone, Lasting
    <3>2. session'[ConnOf(u)].writes \subseteq session[ConnOf(u)].writes
      BY <1>1, <1>3, <1>6
    <3>3. Writes(u) \cap s.writes = {}
      BY <1>8, <3>1
    <3> QED BY <1>6, <3>1, <3>2, <3>3
  <2>3. CASE u = t
    <3>1. Writes(t) \cap durable = {}
      BY <1>0, <1>1, <1>4, <1>5, <1>10, <2>1, <2>3 DEF Permanence, NotYet, RootOf
    <3>2. durable' = durable /\ Writes(t) \cap z.writes = {}
      BY <1>1, <1>2, <1>4, <1>5, <2>1, <2>3 DEF Ends, Roots, Good, Lasting, ConnOf
    <3> QED BY <2>3, <3>1, <3>2
  <2> QED BY <2>2, <2>3
<1>16. ReturnedClean'
  <2>1. SUFFICES ASSUME NEW u \in Roots, promise'[u] \in Good, ConnOf(u) \notin lost
                 PROVE  /\ session'[ConnOf(u)].writes = {}
                        /\ dialect # "oracledb" => session'[ConnOf(u)].owner = "none"
    BY <1>4 DEF ReturnedClean, Roots, Good
  <2>2. CASE u = t
    BY <1>2, <1>4, <2>1, <2>2 DEF Ends
  <2>3. CASE u # t
    <3>1. promise[u] \in Good /\ ConnOf(u) # c
      BY <1>1, <1>4, <1>10, <2>1, <2>3 DEF Roots, ConnOf, Trx, Good
    <3> QED BY <1>0, <1>1, <1>3, <2>1, <3>1 DEF Permanence, ReturnedClean, Roots, Good
  <2> QED BY <2>2, <2>3
<1> QED BY <1>9, <1>11, <1>12, <1>13, <1>14, <1>15, <1>16 DEF Permanence

LEMMA EndedKeeps ==
  ASSUME DialectInv, NEW t \in Trx, NEW result, Ended(t, result)
  PROVE  DialectInv'
BY EndedTypes, EndedRequests, EndedSessions, EndedWrites DEF DialectInv

-----------------------------------------------------------------------------
(* Every statement that ends a transaction *)

\* What is known of the session of a transaction that is not over.
LEMMA Around ==
  ASSUME DialectInv, NEW t \in Trx, stage[t] # "left", t = "n" => stage["a"] = "open",
         t = "n" /\ stage["n"] = "none" => promise["a"] = "pending"
  PROVE  /\ ConnOf(t) \in Conn /\ session[ConnOf(t)] \in SessionState
         /\ RootOf(t) \in Roots /\ promise[RootOf(t)] = "pending"
         /\ session[ConnOf(t)].owner \in {"none", RootOf(t)}
         /\ session[ConnOf(t)].owner = "none" =>
              session[ConnOf(t)].writes = {} /\ session[ConnOf(t)].marks = <<>>
         /\ session[ConnOf(t)].marks # <<>> =>
              session[ConnOf(t)].marks[1].before \subseteq session[ConnOf(t)].writes
         /\ ConnOf(t) \in lost => session[ConnOf(t)].owner = "none"
         /\ dialect # "mssql" => running[ConnOf(t)] = Idle
         /\ running[ConnOf(t)] # Idle => session[ConnOf(t)].owner # "none" \/ ConnOf(t) \in implicit
         /\ t = "n" /\ "c1" \notin lost => Writes("a") \subseteq durable \cup session[ConnOf(t)].writes
<1> DEFINE c == ConnOf(t)
<1>0. TypeInv /\ Course /\ InTurn /\ Sessions /\ Permanence
  BY DEF DialectInv
<1>1. c \in Conn /\ RootOf(t) \in Roots /\ ConnOf(RootOf(t)) = c /\ session[c] \in SessionState
  BY <1>0 DEF ConnOf, Conn, RootOf, Roots, Trx, TypeInv
<1>2. SessionOf(RootOf(t))
  BY <1>0, <1>1 DEF Sessions
<1>3. dialect # "mssql" => running[c] = Idle
  BY <1>0, <1>1 DEF InTurn
<1>4. running[c] # Idle => session[c].owner # "none" \/ c \in implicit
  BY <1>0, <1>1 DEF InTurn
<1>5. promise[RootOf(t)] = "pending"
  BY <1>0 DEF Course, RootOf, Trx
<1>6. t = "n" /\ "c1" \notin lost => Writes("a") \subseteq durable \cup session[c].writes
  BY <1>0, <1>5 DEF Permanence, Kept, RootOf, Trx, ConnOf
<1>7. session[c].marks # <<>> => session[c].marks[1].before \subseteq session[c].writes
  BY <1>0, <1>1 DEF Sessions, Savepoints, Conn
<1> QED BY <1>1, <1>2, <1>3, <1>4, <1>5, <1>6, <1>7 DEF SessionOf

\* A statement that fails, or none, leaves everything to what comes next.
LEMMA LeftAlone ==
  ASSUME DialectInv, NEW t \in Trx, stage[t] # "left", t = "n" => stage["a"] = "open",
         t = "n" /\ stage["n"] = "none" => promise["a"] = "pending"
  PROVE  Ends(t, "failed", session[ConnOf(t)], durable)
BY Around DEF Ends, Good, SessionState

LEMMA Refused ==
  ASSUME DialectInv, NEW t \in Trx, stage[t] # "left", t = "n" => stage["a"] = "open",
         t = "n" /\ stage["n"] = "none" => promise["a"] = "pending",
         NEW kind, dialect = "redshift" => kind = "commit" \/ session[ConnOf(t)].owner = "none",
         kind = "commit" => t \in Roots
  PROVE  /\ Ends(t, "failed", S!AfterFailure(session[ConnOf(t)], kind), durable)
         /\ dialect # "redshift" => S!AfterFailure(session[ConnOf(t)], kind) = session[ConnOf(t)]
<1> DEFINE s == session[ConnOf(t)]
<1>1. s \in SessionState /\ ConnOf(t) \in Conn
  BY Around
<1>2. CASE kind = "commit" /\ dialect = "redshift"
  <2>1. S!AfterFailure(s, kind) = S!IdleSession
    BY <1>1, <1>2, Failure
  <2>2. Ends(t, "failed", S!IdleSession, durable)
    BY <1>1, <1>2, Around, IdleIs DEF Ends, Good, Roots
  <2> QED BY <1>2, <2>1, <2>2
<1>3. CASE ~(kind = "commit" /\ dialect = "redshift")
  <2>1. s.aborted \in BOOLEAN /\ [s EXCEPT !.aborted = s.aborted] = s
    BY <1>1 DEF SessionState
  <2>2. (s.aborted \/ (dialect = "redshift" /\ s.owner # "none")) = s.aborted
    BY <1>3, <2>1
  <2>3. S!AfterFailure(s, kind) = s
    BY <1>1, <1>3, <2>1, <2>2, Failure
  <2> QED BY <2>3, LeftAlone
<1> QED BY <1>2, <1>3

LEMMA CommitStatement ==
  ASSUME DialectInv, NEW t \in Roots, Ready(t), NEW ok \in Outcomes(ConnOf(t), "commit", t)
  PROVE  Ends(t, IF ok THEN "committed" ELSE "failed",
              IF ok THEN S!AfterSuccess(session[ConnOf(t)], "commit", t)
                    ELSE S!AfterFailure(session[ConnOf(t)], "commit"),
              durable \cup IF ok THEN S!MadeDurable(session[ConnOf(t)], "commit", t) ELSE {})
<1> DEFINE c == ConnOf(t)
           s == session[c]
<1>0. t \in Trx /\ stage[t] = "open" /\ t # "n"
  BY DEF Ready, Roots, Trx
<1>1. s \in SessionState /\ c \in Conn /\ ok \in BOOLEAN
  BY <1>0, Around, OutcomesAre
<1>2. CASE ok
  <2>1. c \notin lost /\ running[c] = Idle
    BY <1>0, <1>1, <1>2, OutcomesAre
  <2>2. S!AfterSuccess(s, "commit", t) = S!IdleSession
        /\ S!MadeDurable(s, "commit", t) = IF s.aborted THEN {} ELSE s.writes
    BY <1>1, Success
  <2>3. DEFINE d == durable \cup S!MadeDurable(s, "commit", t)
  <2>4. durable \subseteq d /\ d \subseteq durable \cup s.writes /\ (~s.aborted => s.writes \subseteq d)
    BY <2>2
  <2> HIDE DEF d
  <2>5. Ends(t, "committed", S!IdleSession, d)
    BY <1>0, <1>1, <2>1, <2>4, IdleIs DEF Ends
  <2> QED BY <1>2, <2>2, <2>5 DEF d
<1>3. CASE ~ok
  <2>1. Ends(t, "failed", S!AfterFailure(s, "commit"), durable)
    BY <1>0, Refused
  <2> QED BY <1>3, <2>1
<1> QED BY <1>1, <1>2, <1>3

LEMMA RollbackStatement ==
  ASSUME DialectInv, NEW t \in Roots, Ready(t), NEW ok \in Outcomes(ConnOf(t), "rollback", t)
  PROVE  Ends(t, IF ok THEN "rolledback" ELSE "failed",
              IF ok THEN S!AfterSuccess(session[ConnOf(t)], "rollback", t)
                    ELSE S!AfterFailure(session[ConnOf(t)], "rollback"),
              durable)
<1> DEFINE c == ConnOf(t)
           s == session[c]
<1>0. t \in Trx /\ stage[t] = "open" /\ t # "n"
  BY DEF Ready, Roots, Trx
<1>1. s \in SessionState /\ c \in Conn /\ ok \in BOOLEAN
  BY <1>0, Around, OutcomesAre
<1>2. CASE ok
  <2>1. c \notin lost /\ running[c] = Idle
    BY <1>0, <1>1, <1>2, OutcomesAre
  <2>2. S!AfterSuccess(s, "rollback", t) = S!IdleSession
    BY <1>1, Success
  <2>3. Ends(t, "rolledback", S!IdleSession, durable)
    BY <1>0, <1>1, <2>1, IdleIs DEF Ends
  <2> QED BY <1>2, <2>2, <2>3
<1>3. CASE ~ok
  <2>1. S!CanRun(s, "rollback", t) /\ ~S!MayFail("rollback")
    BY DEF S!CanRun, S!MayFail
  <2>2. dialect = "redshift" => s.owner = "none"
    BY <1>0, <1>1, <1>3, <2>1, Around, OutcomesAre
  <2>3. Ends(t, "failed", S!AfterFailure(s, "rollback"), durable)
    BY <1>0, <2>2, Refused
  <2> QED BY <1>3, <2>3
<1> QED BY <1>1, <1>2, <1>3

\* Mysql takes it for a success that there is no savepoint; there is one unless
\* a statement committed by itself.
LEMMA NestedStatement ==
  ASSUME DialectInv, Ready("n"), NEW kind \in {"release", "rollbackTo"},
         NEW ok \in Outcomes("c1", kind, "n")
  PROVE  Ends("n", IF ok \/ NoSuchSavepoint("c1", kind, "n")
                   THEN (IF kind = "release" THEN "committed" ELSE "rolledback") ELSE "failed",
              IF ok THEN S!AfterSuccess(session["c1"], kind, "n")
                    ELSE S!AfterFailure(session["c1"], kind),
              durable)
<1> DEFINE s == session["c1"]
           before == s.marks[1].before
<1>0. TypeInv /\ Course /\ Sessions /\ Permanence /\ InTurn
  BY DEF DialectInv
<1>1. /\ "n" \in Trx /\ "c1" \in Conn /\ ConnOf("n") = "c1" /\ RootOf("n") = "a"
      /\ stage["n"] = "open" /\ stage["a"] = "open" /\ dialect # "redshift" /\ "n" \notin Roots
  BY <1>0 DEF Ready, Roots, Trx, Conn, Course, ConnOf, RootOf
<1>2. s \in SessionState /\ ok \in BOOLEAN
  BY <1>1, Around, OutcomesAre
<1>3. s.marks # <<>> => Len(s.marks) = 1 /\ s.marks[1].sp = "n"
  BY <1>0 DEF Sessions, Savepoints
<1>4. /\ s.owner \in {"none", "a"}
      /\ s.owner = "none" => s.writes = {} /\ s.marks = <<>>
      /\ s.marks # <<>> => before \subseteq s.writes
      /\ "c1" \in lost => s.owner = "none"
      /\ "c1" \notin lost => Writes("a") \subseteq durable \cup s.writes
  BY <1>1, Around
<1>8. /\ ok => "c1" \notin lost /\ running["c1"] = Idle /\ S!CanRun(s, kind, "n")
      /\ S!CanRun(s, "release", "n") => S!HasMark(s, "n")
      /\ S!CanRun(s, "rollbackTo", "n") => S!HasMark(s, "n")
  <2>1. ok => "c1" \notin lost /\ running["c1"] = Idle /\ S!CanRun(s, kind, "n")
    BY <1>1, OutcomesAre, Zenon
  <2> QED BY <1>2, <2>1, SuccessNested, Zenon
<1>9. s.marks # <<>> =>
        /\ S!AfterSuccess(s, "release", "n") = [s EXCEPT !.marks = <<>>]
        /\ S!AfterSuccess(s, "rollbackTo", "n") =
             [s EXCEPT !.aborted = FALSE, !.writes = before, !.marks = s.marks]
        /\ s.marks[1] \in Mark
  <2>1. S!AfterSuccess(s, "release", "n") =
          [s EXCEPT !.marks = SubSeq(s.marks, 1, S!MarkOf(s, "n") - 1)]
    BY <1>2, SuccessNested, Zenon
  <2>2. S!AfterSuccess(s, "rollbackTo", "n") =
              [s EXCEPT !.aborted = FALSE,
                        !.writes  = s.marks[S!MarkOf(s, "n")].before,
                        !.marks   = SubSeq(s.marks, 1, S!MarkOf(s, "n"))]
    BY <1>2, SuccessNested, Zenon
  <2>3. s.marks # <<>> => /\ S!MarkOf(s, "n") = 1
                         /\ SubSeq(s.marks, 1, S!MarkOf(s, "n") - 1) = <<>>
                         /\ SubSeq(s.marks, 1, S!MarkOf(s, "n")) = s.marks
                         /\ s.marks[1] \in Mark
    BY <1>2, <1>3, OneMark, Zenon
  <2> QED BY <2>1, <2>2, <2>3, Zenon
<1>10. S!HasMark(s, "n") <=> s.marks # <<>>
  BY <1>2, <1>3, OneMark, Zenon
<1>5. CASE ok /\ kind = "release"
  <2>1. "c1" \notin lost /\ running["c1"] = Idle /\ s.marks # <<>>
    BY <1>5, <1>8, <1>10
  <2>2. DEFINE z == [s EXCEPT !.marks = <<>>]
  <2>3. S!AfterSuccess(s, "release", "n") = z
    BY <1>9, <2>1
  <2>4. /\ z \in SessionState /\ z.owner = s.owner /\ z.writes = s.writes
        /\ z.aborted = s.aborted /\ z.marks = <<>>
    <3>1. <<>> \in Seq(Mark)
      OBVIOUS
    <3> QED BY <1>2, <3>1 DEF SessionState
  <2> HIDE DEF z
  <2>5. Ends("n", "committed", z, durable)
    BY <1>1, <1>2, <1>4, <2>1, <2>4 DEF Ends
  <2> QED BY <1>5, <2>3, <2>5
<1>6. CASE ok /\ kind = "rollbackTo"
  <2>1. "c1" \notin lost /\ running["c1"] = Idle /\ s.marks # <<>>
    BY <1>6, <1>8, <1>10
  <2>2. DEFINE z == [s EXCEPT !.aborted = FALSE, !.writes = before]
  <2>3. S!AfterSuccess(s, "rollbackTo", "n") = z
    <3>1. S!AfterSuccess(s, "rollbackTo", "n") =
             [s EXCEPT !.aborted = FALSE, !.writes = before, !.marks = s.marks]
      BY <1>9, <2>1
    <3> QED BY <1>2, <3>1 DEF SessionState
  <2>4. s.marks[1] \in Mark
    BY <1>9, <2>1
  <2>5. /\ z \in SessionState /\ z.owner = s.owner /\ z.writes = before
        /\ ~z.aborted /\ z.marks = s.marks
    BY <1>2, <2>4 DEF SessionState, Mark
  <2>6. Writes("a") \subseteq durable \cup before
    BY <1>0, <1>1, <2>1 DEF Permanence, KeptBefore
  <2>7. Writes("n") \cap before = {} /\ before \subseteq s.writes
    BY <1>0, <2>1 DEF Sessions, Savepoints, Writes
  <2>8. s.owner = "a"
    BY <1>4, <2>1
  <2> HIDE DEF z
  <2>9. Ends("n", "rolledback", z, durable)
    BY <1>1, <1>2, <2>1, <2>5, <2>6, <2>7, <2>8 DEF Ends
  <2> QED BY <1>6, <2>3, <2>9
<1>7. CASE ~ok
  <2>1. Ends("n", "failed", S!AfterFailure(s, kind), durable) /\ S!AfterFailure(s, kind) = s
    BY <1>1, Refused
  <2>2. CASE NoSuchSavepoint("c1", kind, "n")
    <3>1. "c1" \in implicit /\ running["c1"] = Idle
      BY <1>0, <1>1, <1>10, <2>2, Around DEF NoSuchSavepoint, Sessions, Savepoints
    <3>2. \A r \in {"committed", "rolledback"} : Ends("n", r, s, durable)
      BY <1>1, <1>2, <1>4, <3>1 DEF Ends
    <3> QED BY <1>7, <2>1, <2>2, <3>2
  <2> QED BY <1>7, <2>1, <2>2
<1> QED BY <1>2, <1>5, <1>6, <1>7

-----------------------------------------------------------------------------
(* The actions that end a transaction *)

LEMMA Concluded ==
  ASSUME DialectInv, NEW t \in Trx, NEW result \in {"committed", "rolledback", "failed"},
         NEW z, NEW d, NEW after, after = [session EXCEPT ![ConnOf(t)] = z],
         Ends(t, result, z, d), Settle(t, result, after, d), NEW flag \in BOOLEAN, Completed(t, flag),
         over \subseteq over', over' \subseteq over \cup {t},
         undone \subseteq undone', undone' \subseteq undone \cup session[ConnOf(t)].writes,
         t = "n" => stage[t] # "left", promise[t] = "pending",
         t = "a" => stage["n"] # "open",
         t = "n" => stage["a"] = "open",
         t = "b" => dialect = "mssql",
         stage[t] # "open" => result = "failed"
  PROVE  Ended(t, result)
<1>0. TypeInv
  BY DEF DialectInv
<1>1. /\ session' = [session EXCEPT ![ConnOf(t)] = session'[ConnOf(t)]]
      /\ Ends(t, result, session'[ConnOf(t)], durable')
  BY <1>0, SettleEnds
<1>2. completed' \in [Trx -> BOOLEAN]
  BY <1>0 DEF Completed, TypeInv
<1>3. held' \subseteq held
  BY <1>0 DEF Settle, TypeInv
<1> QED BY <1>1, <1>2, <1>3 DEF Ended, Settle

\* What Ready says of a transaction, and of those around it.
LEMMA ReadyIs ==
  ASSUME DialectInv, NEW t \in Trx, Ready(t)
  PROVE  /\ stage[t] = "open" /\ promise[t] = "pending"
         /\ t = "a" => stage["n"] # "open"
         /\ t = "n" => stage["a"] = "open"
         /\ t = "b" => dialect = "mssql"
         /\ t # "n" => t \in Roots
         /\ Nested(t) <=> t = "n"
BY DEF DialectInv, Course, Ready, Trx, Roots, Nested

LEMMA CommitEnds ==
  ASSUME DialectInv, NEW t \in Trx, Commit(t)
  PROVE  \E result \in {"committed", "rolledback", "failed"} : Ended(t, result)
<1> DEFINE c == ConnOf(t)
<1>0. Ready(t) /\ over' = over /\ undone' = undone
  BY DEF Commit
<1>1. CASE t # "n"
  <2>1. t \in Roots /\ ~Nested(t)
    BY <1>0, <1>1, ReadyIs
  <2>2. PICK ok \in Outcomes(c, "commit", t), flag \in BOOLEAN :
          /\ Completed(t, flag)
          /\ Settle(t, IF ok THEN "committed" ELSE "failed",
                    After(c, "commit", t, ok), MadeDurable(c, "commit", t, ok))
    <3>1. CASE dialect \in {"oracledb", "mssql"}
      <4>1. CommitTransaction(t)
        BY <2>1, <3>1 DEF Commit
      <4>2. PICK ok \in Outcomes(c, "commit", t) :
              /\ Completed(t, ok \/ dialect = "oracledb")
              /\ Settle(t, IF ok THEN "committed" ELSE "failed",
                        After(c, "commit", t, ok), MadeDurable(c, "commit", t, ok))
        BY <4>1 DEF CommitTransaction
      <4>3. (ok \/ dialect = "oracledb") \in BOOLEAN
        OBVIOUS
      <4> QED BY <4>2, <4>3
    <3>2. CASE dialect \notin {"oracledb", "mssql"}
      <4>1. Query(t, "commit", "committed")
        BY <2>1, <3>2 DEF Commit
      <4>2. ~NoSuchSavepoint(c, "commit", t)
        BY DEF NoSuchSavepoint
      <4> QED BY <4>1, <4>2 DEF Query
    <3> QED BY <3>1, <3>2
  <2> DEFINE result == IF ok THEN "committed" ELSE "failed"
             z == IF ok THEN S!AfterSuccess(session[c], "commit", t)
                  ELSE S!AfterFailure(session[c], "commit")
             d == durable \cup IF ok THEN S!MadeDurable(session[c], "commit", t) ELSE {}
  <2>3. Ends(t, result, z, d)
    BY <1>0, <2>1, CommitStatement
  <2>4. After(c, "commit", t, ok) = [session EXCEPT ![c] = z] /\ MadeDurable(c, "commit", t, ok) = d
    BY DEF After, MadeDurable
  <2>5. Settle(t, result, [session EXCEPT ![c] = z], d)
    BY <2>2, <2>4
  <2>6. result \in {"committed", "rolledback", "failed"}
    OBVIOUS
  <2>7. /\ stage[t] = "open" /\ promise[t] = "pending"
        /\ t = "a" => stage["n"] # "open"
        /\ t = "b" => dialect = "mssql"
    BY <1>0, ReadyIs
  <2> HIDE DEF result, z, d
  <2>8. Ended(t, result)
    BY <1>0, <1>1, <2>2, <2>3, <2>5, <2>6, <2>7, Concluded
  <2> QED BY <2>6, <2>8
<1>2. CASE t = "n"
  <2>1. Nested(t) /\ c = "c1" /\ dialect # "redshift"
    BY <1>0, <1>2, ReadyIs DEF Nested, ConnOf, DialectInv, Course
  <2>2. CASE dialect \in {"oracledb", "mssql"}
    <3>1. Completed(t, FALSE) /\ Settle(t, "committed", session, durable)
      BY <2>1, <2>2 DEF Commit, Release
    <3>2. Ends(t, "committed", session[c], durable)
      <4>1. Ends(t, "failed", session[c], durable)
        BY <1>0, <1>2, LeftAlone, ReadyIs
      <4> QED BY <1>2, <4>1 DEF Ends, Roots
    <3>3. session = [session EXCEPT ![c] = session[c]]
      BY <2>1 DEF DialectInv, TypeInv, Conn
    <3>4. Ended(t, "committed")
      BY <1>0, <1>2, <3>1, <3>2, <3>3, ReadyIs, Concluded
    <3> QED BY <3>4
  <2>3. CASE dialect \notin {"oracledb", "mssql"}
    <3>1. Query(t, "release", "committed")
      BY <2>1, <2>3 DEF Commit
    <3>2. PICK ok \in Outcomes(c, "release", t) :
         /\ Completed(t, TRUE)
         /\ Settle(t, IF ok \/ NoSuchSavepoint(c, "release", t) THEN "committed" ELSE "failed",
                   After(c, "release", t, ok), MadeDurable(c, "release", t, ok))
      BY <3>1 DEF Query
    <3> DEFINE result == IF ok \/ NoSuchSavepoint(c, "release", t) THEN "committed" ELSE "failed"
               z == IF ok THEN S!AfterSuccess(session[c], "release", t)
                    ELSE S!AfterFailure(session[c], "release")
    <3>3. Ends(t, result, z, durable)
      BY <1>0, <1>2, <2>1, NestedStatement
    <3>4. After(c, "release", t, ok) = [session EXCEPT ![c] = z]
      BY DEF After
    <3>5. MadeDurable(c, "release", t, ok) = durable
      BY DEF MadeDurable, S!MadeDurable
    <3>6. Settle(t, result, [session EXCEPT ![c] = z], durable)
      BY <3>2, <3>4, <3>5
    <3>7. result \in {"committed", "rolledback", "failed"}
      OBVIOUS
    <3>8. stage[t] = "open" /\ promise[t] = "pending" /\ stage["a"] = "open"
      BY <1>0, <1>2, ReadyIs
    <3> HIDE DEF result, z
    <3>9. Ended(t, result)
      BY <1>0, <1>2, <3>2, <3>3, <3>6, <3>7, <3>8, Concluded
    <3> QED BY <3>7, <3>9
  <2> QED BY <2>2, <2>3
<1> QED BY <1>1, <1>2

\* Oracle: nothing settles a transaction whose rollback found no connection.
Forgotten(t) ==
    /\ t \in Roots /\ dialect = "oracledb" /\ Ready(t) /\ ConnOf(t) \in lost
    /\ stage' = [stage EXCEPT ![t] = "left"]
    /\ completed' \in [Trx -> BOOLEAN]
    /\ UNCHANGED <<dialect, promise, made, acknowledged, over, database, isTransaction, held,
                   requestQueue, running>>

LEMMA RollbackEnds ==
  ASSUME DialectInv, NEW t \in Trx, Rollback(t)
  PROVE  \/ \E result \in {"committed", "rolledback", "failed"} : Ended(t, result)
         \/ Forgotten(t)
<1> DEFINE c == ConnOf(t)
           s == session[c]
<1>0. Ready(t) /\ TypeInv /\ over' = over /\ undone' = undone
  BY DEF Rollback, DialectInv
<1>1. /\ stage[t] = "open" /\ promise[t] = "pending"
      /\ t = "a" => stage["n"] # "open"
      /\ t = "n" => stage["a"] = "open"
      /\ t = "b" => dialect = "mssql"
      /\ t # "n" => t \in Roots
      /\ Nested(t) <=> t = "n"
  BY <1>0, ReadyIs
<1>2. /\ c \in Conn /\ s \in SessionState
      /\ s.owner = "none" => s.writes = {} /\ s.marks = <<>>
      /\ dialect # "mssql" => running[c] = Idle
      /\ running[c] # Idle => s.owner # "none" \/ c \in implicit
      /\ s.owner \in {"none", RootOf(t)}
  BY <1>1, Around
<1>3. ASSUME t # "n", NEW ok \in Outcomes(c, "rollback", t), NEW flag \in BOOLEAN, Completed(t, flag),
             Settle(t, IF ok THEN "rolledback" ELSE "failed", After(c, "rollback", t, ok), durable)
      PROVE  \E result \in {"committed", "rolledback", "failed"} : Ended(t, result)
  <2> DEFINE result == IF ok THEN "rolledback" ELSE "failed"
             z == IF ok THEN S!AfterSuccess(s, "rollback", t) ELSE S!AfterFailure(s, "rollback")
  <2>1. Ends(t, result, z, durable)
    BY <1>0, <1>1, <1>3, RollbackStatement
  <2>2. After(c, "rollback", t, ok) = [session EXCEPT ![c] = z]
    BY DEF After
  <2>3. Settle(t, result, [session EXCEPT ![c] = z], durable)
    BY <1>3, <2>2
  <2>4. result \in {"committed", "rolledback", "failed"}
    OBVIOUS
  <2> HIDE DEF result, z
  <2>5. Ended(t, result)
    BY <1>0, <1>1, <1>3, <2>1, <2>3, <2>4, Concluded
  <2> QED BY <2>4, <2>5
<1>4. ASSUME t = "n", NEW ok \in Outcomes(c, "rollbackTo", t), NEW flag \in BOOLEAN, Completed(t, flag),
             Settle(t, IF ok \/ NoSuchSavepoint(c, "rollbackTo", t) THEN "rolledback" ELSE "failed",
                    After(c, "rollbackTo", t, ok), durable)
      PROVE  \E result \in {"committed", "rolledback", "failed"} : Ended(t, result)
  <2> DEFINE result == IF ok \/ NoSuchSavepoint(c, "rollbackTo", t) THEN "rolledback" ELSE "failed"
             z == IF ok THEN S!AfterSuccess(s, "rollbackTo", t) ELSE S!AfterFailure(s, "rollbackTo")
  <2>1. Ends(t, result, z, durable)
    <3>1. c = "c1"
      BY <1>4 DEF ConnOf
    <3> QED BY <1>0, <1>4, <3>1, NestedStatement
  <2>2. After(c, "rollbackTo", t, ok) = [session EXCEPT ![c] = z]
    BY DEF After
  <2>3. Settle(t, result, [session EXCEPT ![c] = z], durable)
    BY <1>4, <2>2
  <2>4. result \in {"committed", "rolledback", "failed"}
    OBVIOUS
  <2> HIDE DEF result, z
  <2>5. Ended(t, result)
    BY <1>0, <1>1, <1>4, <2>1, <2>3, <2>4, Concluded
  <2> QED BY <2>4, <2>5
<1>5. CASE dialect = "mssql"
  <2>1. RollbackTransaction(t) /\ Completed(t, TRUE)
    BY <1>5 DEF Rollback, RollbackTransaction
  <2>2. CASE NothingToRollBack(t)
    <3>1. Settle(t, "rolledback", session, durable)
      BY <2>1, <2>2 DEF RollbackTransaction
    <3>2. s.owner = "none" /\ (running[c] = Idle \/ c \in implicit)
      BY <1>2, <2>2 DEF NothingToRollBack, NotInTransaction
    <3>3. Ends(t, "rolledback", s, durable)
      <4>1. Ends(t, "failed", s, durable)
        BY <1>1, LeftAlone
      <4> QED BY <1>2, <3>2, <4>1 DEF Ends, ConnOf
    <3>4. session = [session EXCEPT ![c] = s]
      BY <1>0, <1>2 DEF TypeInv
    <3>5. Ended(t, "rolledback")
      BY <1>0, <1>1, <2>1, <3>1, <3>3, <3>4, Concluded
    <3> QED BY <3>5
  <2>3. CASE ~NothingToRollBack(t) /\ t = "n"
    <3>1. PICK ok \in Outcomes(c, "rollbackTo", t) :
            Settle(t, IF ok THEN "rolledback" ELSE "failed", After(c, "rollbackTo", t, ok), durable)
      BY <1>1, <2>1, <2>3 DEF RollbackTransaction
    <3>2. ~NoSuchSavepoint(c, "rollbackTo", t)
      BY <1>5 DEF NoSuchSavepoint
    <3> QED BY <1>4, <2>1, <2>3, <3>1, <3>2
  <2>4. CASE ~NothingToRollBack(t) /\ t # "n"
    <3>1. PICK ok \in Outcomes(c, "rollback", t) :
            Settle(t, IF ok THEN "rolledback" ELSE "failed", After(c, "rollback", t, ok), durable)
      BY <1>1, <2>1, <2>4 DEF RollbackTransaction
    <3> QED BY <1>3, <2>1, <2>4, <3>1
  <2> QED BY <2>2, <2>3, <2>4
<1>6. CASE dialect = "oracledb" /\ t # "n"
  <2>1. RollbackAsync(t) /\ Completed(t, TRUE)
    BY <1>1, <1>6 DEF Rollback, RollbackAsync
  <2>2. CASE c \in lost
    <3>1. completed' \in [Trx -> BOOLEAN]
      BY <1>0, <2>1 DEF Completed, TypeInv
    <3> QED BY <1>0, <1>1, <1>6, <2>1, <2>2, <3>1
             DEF RollbackAsync, Forgotten, database
  <2>3. CASE c \notin lost
    <3> DEFINE e == [S!IdleSession EXCEPT !.owner = "a"]
    <3>1. e \in SessionState /\ e.owner = "a" /\ e.writes = {} /\ e.marks = <<>> /\ ~e.aborted
      BY IdleIs DEF SessionState
    <3>2. Settle(t, "rolledback", [session EXCEPT ![c] = e], durable)
      BY <2>1, <2>3 DEF RollbackAsync, Recommenced, S!Began
    <3>3. RootOf(t) = "a" /\ t \in Roots /\ running[c] = Idle
      BY <1>1, <1>2, <1>6 DEF RootOf, Roots
    <3> HIDE DEF e
    <3>4. Ends(t, "rolledback", e, durable)
      BY <1>6, <2>3, <3>1, <3>3 DEF Ends
    <3>5. Ended(t, "rolledback")
      BY <1>0, <1>1, <2>1, <3>2, <3>4, Concluded
    <3> QED BY <3>5
  <2> QED BY <2>2, <2>3
<1>7. CASE dialect # "mssql" /\ ~(dialect = "oracledb" /\ t # "n")
  <2>1. Query(t, IF Nested(t) THEN "rollbackTo" ELSE "rollback", "rolledback")
    BY <1>1, <1>7 DEF Rollback
  <2>2. \A kind \in {"rollback", "rollbackTo"}, ok \in BOOLEAN : MadeDurable(c, kind, t, ok) = durable
    BY DEF MadeDurable, S!MadeDurable
  <2>3. CASE t = "n"
    <3>1. PICK ok \in Outcomes(c, "rollbackTo", t) :
         /\ Completed(t, TRUE)
         /\ Settle(t, IF ok \/ NoSuchSavepoint(c, "rollbackTo", t) THEN "rolledback" ELSE "failed",
                   After(c, "rollbackTo", t, ok), MadeDurable(c, "rollbackTo", t, ok))
      BY <1>1, <2>1, <2>3 DEF Query
    <3>2. MadeDurable(c, "rollbackTo", t, ok) = durable
      BY <1>2, <2>2, OutcomesAre
    <3> QED BY <1>4, <2>3, <3>1, <3>2
  <2>4. CASE t # "n"
    <3>1. PICK ok \in Outcomes(c, "rollback", t) :
         /\ Completed(t, TRUE)
         /\ Settle(t, IF ok \/ NoSuchSavepoint(c, "rollback", t) THEN "rolledback" ELSE "failed",
                   After(c, "rollback", t, ok), MadeDurable(c, "rollback", t, ok))
      BY <1>1, <2>1, <2>4 DEF Query
    <3>2. MadeDurable(c, "rollback", t, ok) = durable /\ ~NoSuchSavepoint(c, "rollback", t)
      BY <1>2, <2>2, OutcomesAre DEF NoSuchSavepoint
    <3> QED BY <1>3, <2>4, <3>1, <3>2
  <2> QED BY <2>3, <2>4
<1> QED BY <1>5, <1>6, <1>7

LEMMA ForgottenKeeps ==
  ASSUME DialectInv, NEW t \in Trx, Forgotten(t)
  PROVE  DialectInv'
<1>0. /\ TypeInv /\ Course /\ InTurn /\ Sessions /\ Permanence
      /\ stage[t] = "open" /\ t \in Roots /\ dialect = "oracledb" /\ t = "a" /\ stage["n"] # "open"
      /\ ConnOf(t) \in lost /\ ConnOf(t) = "c1"
  BY ReadyIs DEF DialectInv, Forgotten, Roots, ConnOf
<1>1. /\ UNCHANGED <<dialect, promise, made, acknowledged, over, misrouted, orphaned, implicit, undone,
                      session, lost, durable, isTransaction, held, requestQueue, running>>
      /\ stage'[t] = "left" /\ \A u \in Trx : u # t => stage'[u] = stage[u]
  BY <1>0 DEF Forgotten, TypeInv, database
<1>2. TypeInv' /\ Course'
  BY <1>0, <1>1 DEF TypeInv, Course, Forgotten, Trx
<1>3. InTurn'
  <2>1. \A u \in Trx : Over(u)' <=> Over(u)
    BY <1>1 DEF Over
  <2>2. \A r \in Request : OfItsTransaction(r) /\ Waiting(r) => OfItsTransaction(r)' /\ Waiting(r)'
    BY <1>0, <1>1 DEF OfItsTransaction, Waiting, Request
  <2>3. \A r \in ToSet(requestQueue') : OfItsTransaction(r)' /\ Waiting(r)'
    BY <1>0, <1>1, <2>2, QueuedAre DEF InTurn
  <2>4. \A c \in Conn : running[c] = Idle
    BY <1>0 DEF InTurn
  <2> QED BY <1>0, <1>1, <2>1, <2>3, <2>4 DEF InTurn, Trx, Roots
<1>4. Sessions'
  <2>1. ASSUME NEW u \in Roots
        PROVE  SessionOf(u)'
    BY <1>0, <1>1, <2>1 DEF Sessions, SessionOf, Roots, Trx
  <2>2. Savepoints'
    BY <1>0, <1>1 DEF Sessions, Savepoints, Trx
  <2>3. Aborts'
    BY <1>0, <1>1 DEF Sessions, Aborts, Discarded
  <2>4. \A w \in acknowledged : stage'[w[1]] # "none"
    BY <1>0, <1>1 DEF Sessions, TypeInv, Writing
  <2> QED BY <1>0, <1>1, <2>1, <2>2, <2>3, <2>4 DEF Sessions, Trx
<1>5. Permanence'
  <2>1. \A u \in Trx : Writes(u)' = Writes(u)
    BY <1>1 DEF Writes
  <2>2. /\ \A u \in Trx : Lasting(u)' <=> Lasting(u)
        /\ Discarded' <=> Discarded
    BY <1>0, <1>1 DEF Lasting, NestedIsOver, Discarded, Trx
  <2>3. ASSUME NEW u \in Trx
        PROVE  Kept(u)' /\ NotYet(u)'
    BY <1>0, <1>1, <2>1, <2>2 DEF Permanence, Kept, NotYet
  <2>4. KeptBefore'
    BY <1>0, <1>1, <2>1 DEF Permanence, KeptBefore, Trx
  <2>5. CommittedIsKept'
    BY <1>0, <1>1, <2>1, <2>2 DEF Permanence, CommittedIsKept
  <2>6. RolledBackIsGone'
    BY <1>0, <1>1, <2>1, <2>2 DEF Permanence, RolledBackIsGone, Lasting
  <2>7. ReturnedClean'
    BY <1>0, <1>1 DEF Permanence, ReturnedClean
  <2> QED BY <1>0, <1>1, <2>3, <2>4, <2>5, <2>6, <2>7 DEF Permanence
<1> QED BY <1>2, <1>3, <1>4, <1>5 DEF DialectInv

-----------------------------------------------------------------------------
(* The actions that begin one *)

LEMMA NotBegunEnds ==
  ASSUME DialectInv, NEW t \in Trx, stage[t] = "none",
         t = "n" => stage["a"] = "open", t = "b" => dialect = "mssql",
         NEW z, NEW after, after = [session EXCEPT ![ConnOf(t)] = z],
         Ends(t, "failed", z, durable), NotBegun(t, after)
  PROVE  Ended(t, "failed")
<1>1. promise[t] = "pending" /\ (t = "a" => stage["n"] # "open")
  BY DEF DialectInv, Course, TypeInv, Trx
<1>2. (dialect \in {"mysql", "oracledb"} \/ (dialect = "redshift" /\ ~Nested(t))) \in BOOLEAN
  OBVIOUS
<1>3. PICK flag \in BOOLEAN : Completed(t, flag)
  BY <1>2 DEF NotBegun
<1>4. Settle(t, "failed", after, durable) /\ over' = over \cup {t} /\ undone' = undone
  BY DEF NotBegun
<1> QED BY <1>1, <1>3, <1>4, Concluded

\* A top-level transaction has begun on a connection that had none.
Opened(t) ==
    LET c == ConnOf(t)
    IN /\ t \in Roots /\ stage[t] = "none" /\ (t = "b" => dialect = "mssql")
       /\ Begun(t)
       /\ session' = [session EXCEPT ![c] = [session[c] EXCEPT !.owner = t]]

LEMMA BeginOpens ==
  ASSUME DialectInv, NEW t \in Trx, Begin(t)
  PROVE  Ended(t, "failed") \/ Opened(t)
<1> DEFINE c == ConnOf(t)
           s == session[c]
<1>0. TypeInv /\ Sessions
  BY DEF DialectInv
<1>1. /\ t \in Roots /\ t # "n" /\ stage[t] = "none" /\ (t = "b" => dialect = "mssql")
      /\ c \in Conn /\ s \in SessionState
  BY <1>0 DEF Begin, Nested, Roots, Trx, ConnOf, Conn, TypeInv
<1>2. s.owner = "none"
  BY <1>0, <1>1 DEF Sessions, SessionOf
<1>3. PICK ok \in BOOLEAN :
        IF ok THEN Begun(t) /\ session' = After(c, "begin", t, ok)
        ELSE NotBegun(t, After(c, "begin", t, ok))
  <2>1. \A ok \in Outcomes(c, "begin", t) : ok \in BOOLEAN
    BY DEF Outcomes
  <2>2. Begin(t)
    OBVIOUS
  <2> QED BY <1>1, <2>1, <2>2 DEF Begin
<1>4. CASE ok
  <2>1. After(c, "begin", t, ok) = [session EXCEPT ![c] = S!AfterSuccess(s, "begin", t)]
    BY <1>4 DEF After
  <2>2. S!AfterSuccess(s, "begin", t) = [s EXCEPT !.owner = t]
    BY <1>1, Success
  <2> QED BY <1>1, <1>3, <1>4, <2>1, <2>2 DEF Opened
<1>5. CASE ~ok
  <2>1. After(c, "begin", t, ok) = [session EXCEPT ![c] = S!AfterFailure(s, "begin")]
    BY <1>5 DEF After
  <2>2. Ends(t, "failed", S!AfterFailure(s, "begin"), durable)
    BY <1>1, <1>2, Refused
  <2>3. NotBegun(t, After(c, "begin", t, ok))
    BY <1>3, <1>5
  <2> QED BY <1>1, <2>1, <2>2, <2>3, NotBegunEnds
<1> QED BY <1>4, <1>5

LEMMA OpenedKeeps ==
  ASSUME DialectInv, NEW t \in Trx, Opened(t)
  PROVE  DialectInv'
<1> DEFINE c == ConnOf(t)
           s == session[c]
<1>0. TypeInv /\ Course /\ InTurn /\ Sessions /\ Permanence
  BY DEF DialectInv
<1>1. /\ t \in Roots /\ t # "n" /\ c \in Conn /\ s \in SessionState /\ stage[t] = "none"
      /\ promise[t] = "pending" /\ (t = "b" => dialect = "mssql") /\ (t = "a" => stage["n"] # "open")
  BY <1>0 DEF Opened, Roots, Trx, ConnOf, Conn, TypeInv, Course
<1>2. /\ UNCHANGED <<dialect, promise, completed, made, acknowledged, over, misrouted, orphaned, implicit,
                      undone, lost, durable, requestQueue, running>>
      /\ stage'[t] = "open" /\ \A u \in Trx : u # t => stage'[u] = stage[u]
      /\ stage' \in [Trx -> {"none", "open", "left"}]
      /\ held' = held \cup {c}
      /\ isTransaction' = [isTransaction EXCEPT ![c] = dialect = "oracledb"]
  BY <1>0 DEF Opened, Begun, TypeInv
<1>3. PICK z \in SessionState : z = [s EXCEPT !.owner = t]
  BY <1>1 DEF SessionState, Roots
<1>4. /\ z.owner = t /\ z.writes = s.writes /\ z.marks = s.marks /\ z.aborted = s.aborted
      /\ session'[c] = z /\ \A d \in Conn : d # c => session'[d] = session[d]
      /\ session' \in [Conn -> SessionState]
  BY <1>0, <1>1, <1>3 DEF Opened, SessionState, TypeInv
<1>5. /\ s.owner = "none" /\ s.writes = {} /\ s.marks = <<>> /\ c \notin lost \cup implicit
  BY <1>0, <1>1 DEF Sessions, SessionOf
<1>6. TypeInv' /\ Course'
  <2>1. (dialect = "oracledb") \in BOOLEAN /\ held' \in SUBSET Conn
    BY <1>0, <1>1, <1>2 DEF TypeInv
  <2>2. TypeInv'
    BY <1>0, <1>1, <1>2, <1>4, <2>1 DEF TypeInv
  <2> QED BY <1>0, <1>1, <1>2, <2>2 DEF Course, Trx, Roots
<1>7. InTurn'
  <2>1. \A u \in Trx : Over(u)' <=> Over(u)
    BY <1>2 DEF Over
  <2>2. \A r \in Request : OfItsTransaction(r) /\ Waiting(r) => OfItsTransaction(r)' /\ Waiting(r)'
    BY <1>0, <1>1, <1>2 DEF OfItsTransaction, Waiting, Request
  <2>3. \A r \in ToSet(requestQueue') : OfItsTransaction(r)' /\ Waiting(r)'
    BY <1>0, <1>2, <2>2, QueuedAre DEF InTurn
  <2>4. ASSUME NEW d \in Conn, running'[d] # Idle
        PROVE  /\ OfItsTransaction(running[d])'
               /\ d \notin lost' /\ (session'[d].owner # "none" \/ d \in implicit')
    <3>1. running' = running /\ running[d] # Idle /\ d # c
      BY <1>0, <1>2, <1>5, <2>4 DEF InTurn
    <3>2. PICK r \in Request : r = running[d] /\ OfItsTransaction(r)
      BY <1>0, <3>1, QueuedAre DEF InTurn
    <3>3. stage'[r.trx] # "none"
      BY <1>1, <1>2, <3>2 DEF OfItsTransaction, Request
    <3>4. OfItsTransaction(running[d])'
      BY <3>1, <3>2, <3>3 DEF OfItsTransaction
    <3> QED BY <1>0, <1>2, <1>4, <3>1, <3>4 DEF InTurn
  <2> QED BY <1>0, <1>1, <1>2, <2>1, <2>3, <2>4 DEF InTurn, Trx, Roots
<1>8. Sessions'
  <2>1. SessionOf(t)'
    BY <1>0, <1>1, <1>2, <1>4, <1>5 DEF SessionOf
  <2>2. ASSUME NEW u \in Roots, u # t
        PROVE  SessionOf(u)'
    <3>1. ConnOf(u) \in Conn /\ ConnOf(u) # c /\ u \in Trx
      BY <1>1, <2>2 DEF Roots, ConnOf, Conn, Trx
    <3>2. SessionOf(u)
      BY <1>0 DEF Sessions
    <3> QED BY <1>2, <1>4, <2>2, <3>1, <3>2 DEF SessionOf
  <2>3. Savepoints'
    <3>1. /\ session'["c2"].marks = session["c2"].marks
          /\ session'["c1"].marks = session["c1"].marks
          /\ session'["c1"].writes = session["c1"].writes
      BY <1>1, <1>4 DEF Conn
    <3>2. stage'["n"] = stage["n"]
      BY <1>1, <1>2 DEF Trx
    <3> QED BY <1>0, <1>2, <3>1, <3>2 DEF Sessions, Savepoints
  <2>4. Aborts'
    BY <1>0, <1>2, <1>4 DEF Sessions, Aborts, Discarded
  <2>5. dialect' = "oracledb" /\ stage'["a"] = "open" /\ stage'["n"] # "left" => isTransaction'["c1"]
    BY <1>0, <1>1, <1>2 DEF Sessions, TypeInv, Roots, ConnOf, Conn, Trx
  <2>6. \A w \in acknowledged' : stage'[w[1]] # "none"
    BY <1>0, <1>2 DEF Sessions, TypeInv, Writing
  <2> QED BY <2>1, <2>2, <2>3, <2>4, <2>5, <2>6 DEF Sessions
<1>9. Permanence'
  <2>1. /\ \A u \in Trx : Writes(u)' = Writes(u)
        /\ Discarded' <=> Discarded
        /\ \A u \in Trx : Lasting(u)' <=> Lasting(u)
    BY <1>1, <1>2 DEF Writes, Discarded, Lasting, NestedIsOver, Trx
  <2>2. /\ \A u \in Trx : session'[ConnOf(u)].writes = session[ConnOf(u)].writes
        /\ session'["c1"].marks = session["c1"].marks
    BY <1>4 DEF ConnOf, Conn
  <2>3. ASSUME NEW u \in Trx
        PROVE  Kept(u)' /\ NotYet(u)'
    BY <1>0, <1>2, <2>1, <2>2 DEF Permanence, Kept, NotYet
  <2>4. KeptBefore'
    BY <1>0, <1>1, <1>2, <2>1, <2>2 DEF Permanence, KeptBefore, Trx
  <2>5. CommittedIsKept'
    BY <1>0, <1>2, <2>1 DEF Permanence, CommittedIsKept
  <2>6. RolledBackIsGone'
    BY <1>0, <1>2, <2>1, <2>2 DEF Permanence, RolledBackIsGone, Lasting
  <2>7. ReturnedClean'
    <3>1. \A u \in Roots : promise[u] # "pending" => session'[ConnOf(u)] = session[ConnOf(u)]
      BY <1>1, <1>4 DEF Roots, ConnOf, Conn
    <3> QED BY <1>0, <1>2, <3>1 DEF Permanence, ReturnedClean, Roots
  <2> QED BY <1>0, <1>2, <2>3, <2>4, <2>5, <2>6, <2>7 DEF Permanence
<1> QED BY <1>6, <1>7, <1>8, <1>9 DEF DialectInv

\* The nested transaction has set its savepoint.
NestedOpened ==
    LET s == session["c1"]
    IN /\ stage["n"] = "none" /\ Ready("a") /\ dialect # "redshift"
       /\ "c1" \notin lost /\ running["c1"] = Idle /\ s.owner # "none"
       /\ Begun("n")
       /\ session' = [session EXCEPT !["c1"] =
                        [s EXCEPT !.marks = Append(@, [sp |-> "n", before |-> s.writes])]]

LEMMA SavepointOpens ==
  ASSUME DialectInv, NEW t \in Trx, Savepoint(t)
  PROVE  Ended(t, "failed") \/ NestedOpened
<1> DEFINE s == session["c1"]
<1>1. /\ t = "n" /\ ConnOf(t) = "c1" /\ "c1" \in Conn /\ s \in SessionState /\ session \in [Conn -> SessionState]
      /\ stage["n"] = "none" /\ Ready("a") /\ stage["a"] = "open" /\ promise["a"] = "pending"
  BY DEF Savepoint, Nested, Outer, Ready, ConnOf, Conn, DialectInv, TypeInv
<1>2. CASE dialect = "redshift"
  <2>1. NotBegun(t, session)
    BY <1>2 DEF Savepoint
  <2>2. Ends(t, "failed", s, durable)
    BY <1>1, LeftAlone
  <2>3. session = [session EXCEPT ![ConnOf(t)] = s]
    BY <1>1
  <2> QED BY <1>1, <2>1, <2>2, <2>3, NotBegunEnds
<1>3. CASE dialect # "redshift"
  <2>1. PICK ok \in Outcomes("c1", "savepoint", "n") :
          IF ok THEN Begun("n") /\ session' = After("c1", "savepoint", "n", ok)
          ELSE NotBegun("n", After("c1", "savepoint", "n", ok))
    BY <1>1, <1>3 DEF Savepoint
  <2>2. ok \in BOOLEAN /\ (ok => "c1" \notin lost /\ running["c1"] = Idle /\ S!CanRun(s, "savepoint", "n"))
    BY <1>1, <2>1, OutcomesAre
  <2>3. CASE ok
    <3>1. s.owner # "none"
      BY <2>2, <2>3 DEF S!CanRun
    <3>2. After("c1", "savepoint", "n", ok) = [session EXCEPT !["c1"] = S!AfterSuccess(s, "savepoint", "n")]
      BY <2>3 DEF After
    <3>3. S!AfterSuccess(s, "savepoint", "n") =
            [s EXCEPT !.marks = Append(@, [sp |-> "n", before |-> s.writes])]
      BY <1>1, SuccessNested, Zenon
    <3> QED BY <1>1, <1>3, <2>1, <2>2, <2>3, <3>1, <3>2, <3>3 DEF NestedOpened
  <2>4. CASE ~ok
    <3>1. After("c1", "savepoint", "n", ok) = [session EXCEPT !["c1"] = S!AfterFailure(s, "savepoint")]
      BY <2>4 DEF After
    <3>2. Ends(t, "failed", S!AfterFailure(s, "savepoint"), durable)
      BY <1>1, <1>3, Refused
    <3>3. NotBegun("n", After("c1", "savepoint", "n", ok))
      BY <2>1, <2>4
    <3> QED BY <1>1, <3>1, <3>2, <3>3, NotBegunEnds
  <2> QED BY <2>2, <2>3, <2>4
<1> QED BY <1>2, <1>3

LEMMA NestedOpenedKeeps ==
  ASSUME DialectInv, NestedOpened
  PROVE  DialectInv'
<1> DEFINE s == session["c1"]
           m == [sp |-> "n", before |-> s.writes]
<1>0. TypeInv /\ Course /\ InTurn /\ Sessions /\ Permanence
  BY DEF DialectInv
<1>1. /\ "c1" \in Conn /\ s \in SessionState /\ stage["n"] = "none" /\ ConnOf("n") = "c1" /\ ConnOf("a") = "c1"
      /\ stage["a"] = "open" /\ promise["a"] = "pending" /\ promise["n"] = "pending"
      /\ dialect # "redshift" /\ "c1" \notin lost /\ running["c1"] = Idle /\ s.owner # "none"
      /\ "n" \in Trx /\ "a" \in Trx /\ "a" \in Roots
  BY <1>0 DEF NestedOpened, Ready, Trx, ConnOf, Conn, TypeInv, Course, Roots
<1>2. /\ UNCHANGED <<dialect, promise, completed, made, acknowledged, over, misrouted, orphaned, implicit,
                      undone, lost, durable, requestQueue, running>>
      /\ stage'["n"] = "open" /\ \A u \in Trx : u # "n" => stage'[u] = stage[u]
      /\ stage' \in [Trx -> {"none", "open", "left"}]
      /\ held' = held \cup {"c1"}
      /\ isTransaction' = [isTransaction EXCEPT !["c1"] = dialect = "oracledb"]
  BY <1>0, <1>1 DEF NestedOpened, Begun, TypeInv
<1>3. m \in Mark /\ s.marks = <<>>
  BY <1>0, <1>1 DEF Sessions, Savepoints, Mark, SessionState
<1>4. /\ <<m>> \in Seq(Mark) /\ Append(s.marks, m) = <<m>> /\ Len(<<m>>) = 1 /\ <<m>>[1] = m /\ <<m>> # <<>>
  BY <1>3
<1> HIDE DEF m
<1>5. PICK z \in SessionState : z = [s EXCEPT !.marks = <<m>>]
  BY <1>1, <1>4 DEF SessionState
<1>6. /\ z.owner = s.owner /\ z.writes = s.writes /\ z.marks = <<m>> /\ z.aborted = s.aborted
  BY <1>1, <1>5 DEF SessionState
<1>7. session' = [session EXCEPT !["c1"] = z]
  BY <1>4, <1>5 DEF NestedOpened, m
<1>8. /\ session'["c1"] = z /\ session'["c2"] = session["c2"]
      /\ session' \in [Conn -> SessionState]
  BY <1>0, <1>7 DEF TypeInv, Conn
<1>9. m.sp = "n" /\ m.before = s.writes
  BY DEF m
<1>10. TypeInv' /\ Course'
  <2>1. (dialect = "oracledb") \in BOOLEAN /\ held' \in SUBSET Conn
    BY <1>0, <1>1, <1>2 DEF TypeInv
  <2>2. TypeInv'
    BY <1>0, <1>1, <1>2, <1>8, <2>1 DEF TypeInv
  <2> QED BY <1>0, <1>1, <1>2, <2>2 DEF Course, Trx, Roots
<1>11. InTurn'
  <2>1. \A u \in Trx : Over(u)' <=> Over(u)
    BY <1>2 DEF Over
  <2>2. \A r \in Request : OfItsTransaction(r) /\ Waiting(r) => OfItsTransaction(r)' /\ Waiting(r)'
    BY <1>0, <1>1, <1>2 DEF OfItsTransaction, Waiting, Request
  <2>3. \A r \in ToSet(requestQueue') : OfItsTransaction(r)' /\ Waiting(r)'
    BY <1>0, <1>2, <2>2, QueuedAre DEF InTurn
  <2>4. ASSUME NEW d \in Conn, running'[d] # Idle
        PROVE  /\ OfItsTransaction(running[d])'
               /\ d \notin lost' /\ (session'[d].owner # "none" \/ d \in implicit')
    <3>1. running' = running /\ running[d] # Idle /\ d # "c1"
      BY <1>0, <1>1, <1>2, <2>4 DEF InTurn
    <3>2. PICK r \in Request : r = running[d] /\ OfItsTransaction(r)
      BY <1>0, <3>1, QueuedAre DEF InTurn
    <3>3. stage'[r.trx] # "none"
      BY <1>1, <1>2, <3>2 DEF OfItsTransaction, Request
    <3>4. OfItsTransaction(running[d])'
      BY <3>1, <3>2, <3>3 DEF OfItsTransaction
    <3> QED BY <1>0, <1>2, <1>8, <3>1, <3>4 DEF InTurn, Conn
  <2>5. Over("a")'
    BY <1>0, <1>1, <2>1, IdleOver
  <2> QED BY <1>0, <1>1, <1>2, <2>1, <2>3, <2>4, <2>5 DEF InTurn, Trx, Roots
<1>12. Sessions'
  <2>1. SessionOf("a")'
    BY <1>0, <1>1, <1>2, <1>6, <1>8 DEF Sessions, SessionOf
  <2>2. SessionOf("b")'
    BY <1>0, <1>1, <1>2, <1>8 DEF Sessions, SessionOf, Roots, ConnOf, Trx
  <2>3. Savepoints'
    <3>1. \A w \in s.writes : w[1] # "n"
      BY <1>0, <1>1 DEF Sessions, SessionOf
    <3>2. /\ session'["c1"].marks # <<>> /\ Len(session'["c1"].marks) = 1
          /\ session'["c1"].marks[1].sp = "n" /\ session'["c1"].marks[1].before = s.writes
      BY <1>4, <1>6, <1>8, <1>9, Zenon
    <3>3. session'["c1"].writes = s.writes /\ session'["c2"].marks = <<>>
      BY <1>0, <1>6, <1>8 DEF Sessions, Savepoints
    <3> QED BY <1>2, <3>1, <3>2, <3>3 DEF Savepoints
  <2>4. Aborts'
    BY <1>0, <1>2, <1>6, <1>8 DEF Sessions, Aborts, Discarded, Conn
  <2>5. dialect' = "oracledb" /\ stage'["a"] = "open" /\ stage'["n"] # "left" => isTransaction'["c1"]
    BY <1>0, <1>1, <1>2 DEF TypeInv
  <2>6. \A w \in acknowledged' : stage'[w[1]] # "none"
    BY <1>0, <1>2 DEF Sessions, TypeInv, Writing
  <2> QED BY <2>1, <2>2, <2>3, <2>4, <2>5, <2>6 DEF Sessions, Roots
<1>13. Permanence'
  <2>1. /\ \A u \in Trx : Writes(u)' = Writes(u)
        /\ Discarded' <=> Discarded
        /\ \A u \in Trx : Lasting(u)' <=> Lasting(u)
    BY <1>1, <1>2 DEF Writes, Discarded, Lasting, NestedIsOver
  <2>2. \A u \in Trx : /\ session'[ConnOf(u)].writes = session[ConnOf(u)].writes
                        /\ session'[ConnOf(u)].owner = session[ConnOf(u)].owner
    BY <1>6, <1>8 DEF ConnOf
  <2>3. ASSUME NEW u \in Trx
        PROVE  Kept(u)' /\ NotYet(u)'
    BY <1>0, <1>2, <2>1, <2>2 DEF Permanence, Kept, NotYet
  <2>4. Writes("a") \subseteq durable \cup s.writes
    BY <1>0, <1>1 DEF Permanence, Kept, RootOf
  <2>5. KeptBefore'
    BY <1>1, <1>2, <1>4, <1>6, <1>8, <1>9, <2>1, <2>4 DEF KeptBefore
  <2>6. CommittedIsKept'
    BY <1>0, <1>2, <2>1 DEF Permanence, CommittedIsKept
  <2>7. RolledBackIsGone'
    BY <1>0, <1>2, <2>1, <2>2 DEF Permanence, RolledBackIsGone, Lasting
  <2>8. ReturnedClean'
    BY <1>0, <1>2, <2>2 DEF Permanence, ReturnedClean, Trx
  <2> QED BY <1>0, <1>2, <2>3, <2>5, <2>6, <2>7, <2>8 DEF Permanence
<1> QED BY <1>10, <1>11, <1>12, <1>13 DEF DialectInv

-----------------------------------------------------------------------------
(* The steps in between: a statement, its answer, a connection that is lost *)

\* Whose the connection is.
TopOf(c) == IF c = "c2" THEN "b" ELSE "a"

\* What one of them may do to the session on c, where `new` is what the program
\* learns to have succeeded.
Ran(c, new) ==
    LET s == session[c]
        z == session'[c]
    IN /\ new \subseteq Writing
       /\ UNCHANGED <<dialect, stage, promise, isTransaction, held>>
       /\ misrouted \subseteq misrouted' /\ orphaned \subseteq orphaned' /\ undone \subseteq undone'
       /\ implicit \subseteq implicit' /\ implicit' \subseteq implicit \cup {c}
       /\ implicit' # implicit => stage[TopOf(c)] # "none"
       /\ lost \subseteq lost' /\ lost' \subseteq lost \cup {c}
       /\ lost' # lost => c \in held
       /\ acknowledged' = acknowledged \cup new
       /\ session' = [session EXCEPT ![c] = z]
       /\ \/ z.owner = s.owner
          \/ z.owner = "a" /\ c = "c1" /\ stage["a"] # "none" /\ dialect = "oracledb"
          \/ z.owner = "none" /\ (c \in implicit' \cup lost' \/ stage[TopOf(c)] = "left")
       /\ c \in implicit' /\ dialect = "mssql" => z.owner = "none"
       /\ z.owner = "none" => z.writes = {} /\ z.marks = <<>>
       /\ c \in lost' => z.owner = "none"
       /\ \/ z.marks = s.marks /\ (z.marks # <<>> => z.marks[1].before \subseteq z.writes)
          \/ z.marks = <<>> /\ (stage["n"] # "open" \/ c \in implicit' \cup lost')
       /\ durable \subseteq durable' /\ durable' \subseteq durable \cup s.writes \cup new
       /\ z.writes \subseteq s.writes \cup new
       /\ c \notin lost' => s.writes \cup new \subseteq durable' \cup z.writes \cup undone'
       /\ \/ durable' = durable \/ c \in implicit' \/ NestedIsOver'
          \/ new = {} /\ promise[TopOf(c)] = "failed"
       /\ z.aborted => s.aborted \/ Discarded'
       /\ Discarded => Discarded'
       /\ dialect = "redshift" =>
            IsFiniteSet(acknowledged') /\ Cardinality(acknowledged') <= made'["a"]
       /\ \A w \in new :
            /\ stage[w[1]] # "none"
            /\ w \in misrouted' \/ ConnOf(w[1]) = c
            /\ w \notin misrouted' \cup orphaned' =>
                 /\ w[1] = "a" => stage["n"] # "open"
                 /\ \/ /\ w[1] = "n" => promise["n"] # "rolledback"
                       /\ promise[RootOf(w[1])] \notin Good
                    \/ c \in implicit' /\ w \in durable' \cup undone'
       /\ promise[TopOf(c)] \in Good /\ c \notin lost' =>
            z.writes = {} /\ (dialect # "oracledb" => z.owner = "none")

LEMMA Tops ==
  ASSUME NEW c \in Conn
  PROVE  /\ TopOf(c) \in Roots /\ TopOf(c) \in Trx /\ ConnOf(TopOf(c)) = c
         /\ \A u \in Trx : ConnOf(u) = c => RootOf(u) = TopOf(c)
         /\ \A u \in Roots : ConnOf(u) = c => u = TopOf(c)
BY DEF TopOf, Roots, Trx, ConnOf, Conn, RootOf

LEMMA RanSessions ==
  ASSUME TypeInv, TypeInv', Course, Sessions, NEW c \in Conn, NEW new, Ran(c, new)
  PROVE  Course' /\ Sessions'
<1> DEFINE s == session[c]
           z == session'[c]
<1>1. /\ UNCHANGED <<dialect, stage, promise, isTransaction, held>>
      /\ misrouted \subseteq misrouted' /\ implicit \subseteq implicit' /\ implicit' \subseteq implicit \cup {c}
      /\ lost \subseteq lost' /\ lost' \subseteq lost \cup {c} /\ (lost' # lost => c \in held)
      /\ acknowledged' = acknowledged \cup new
      /\ z \in SessionState /\ \A d \in Conn : d # c => session'[d] = session[d]
  BY DEF Ran, TypeInv
<1>2. Course'
  BY <1>1 DEF Course
<1>3. ASSUME NEW u \in Roots
      PROVE  SessionOf(u)'
  <2>1. SessionOf(u) /\ ConnOf(u) \in Conn /\ u \in Trx
    BY <1>3 DEF Sessions, Roots, ConnOf, Conn, Trx
  <2>2. CASE ConnOf(u) # c
    BY <1>1, <2>1, <2>2 DEF SessionOf
  <2>3. CASE ConnOf(u) = c
    <3>1. u = TopOf(c) /\ (c = "c1" => u = "a")
      BY <1>3, <2>3, Tops DEF TopOf
    <3>2. /\ z.owner \in {"none", u} /\ (z.owner = "none" => z.writes = {} /\ z.marks = <<>>)
          /\ c \in lost' => z.owner = "none"
          /\ c \in implicit' /\ dialect = "mssql" => z.owner = "none"
      BY <2>1, <2>3, <3>1 DEF Ran, SessionOf
    <3>3. stage[u] = "none" => z.owner = "none" /\ c \notin held \cup lost' \cup implicit'
      BY <1>1, <2>1, <2>3, <3>1 DEF Ran, SessionOf
    <3>4. stage[u] = "open" /\ c \notin lost' \cup implicit' => z.owner = u
      BY <1>1, <2>1, <2>3, <3>1 DEF Ran, SessionOf
    <3>5. \A w \in z.writes : w \in acknowledged' /\ (w \in misrouted' \/ ConnOf(w[1]) = c)
      BY <1>1, <2>1, <2>3 DEF Ran, SessionOf
    <3> QED BY <1>1, <2>3, <3>2, <3>3, <3>4, <3>5 DEF SessionOf
  <2> QED BY <2>2, <2>3
<1>4. Savepoints'
  <2>1. session'["c2"].marks = <<>>
    BY <1>1 DEF Sessions, Savepoints, Ran, Conn
  <2>2. \/ /\ session'["c1"].marks = session["c1"].marks
           /\ session'["c1"].marks # <<>> => session'["c1"].marks[1].before \subseteq session'["c1"].writes
        \/ session'["c1"].marks = <<>> /\ (stage["n"] # "open" \/ "c1" \in implicit' \cup lost')
    <3>1. CASE c = "c1"
      BY <3>1 DEF Ran
    <3>2. CASE c # "c1"
      BY <1>1, <3>2 DEF Conn, Sessions, Savepoints
    <3> QED BY <3>1, <3>2
  <2> QED BY <1>1, <2>1, <2>2 DEF Sessions, Savepoints
<1>5. Aborts'
  <2>1. \A d \in Conn : session'[d].aborted => session[d].aborted \/ Discarded'
    BY <1>1 DEF Ran
  <2> QED BY <1>1, <2>1 DEF Ran, Sessions, Aborts
<1>6. \A w \in acknowledged' : stage'[w[1]] # "none"
  BY <1>1 DEF Sessions, Ran
<1> QED BY <1>1, <1>2, <1>3, <1>4, <1>5, <1>6 DEF Sessions

LEMMA RanWrites ==
  ASSUME DialectInv, TypeInv', NEW c \in Conn, NEW new, Ran(c, new)
  PROVE  Permanence'
<1> DEFINE s == session[c]
           z == session'[c]
<1>0. TypeInv /\ Course /\ Sessions /\ Permanence
  BY DEF DialectInv
<1>1. /\ UNCHANGED <<dialect, stage, promise, isTransaction, held>>
      /\ misrouted \subseteq misrouted' /\ orphaned \subseteq orphaned' /\ undone \subseteq undone'
      /\ implicit \subseteq implicit' /\ implicit' \subseteq implicit \cup {c}
      /\ lost \subseteq lost' /\ lost' \subseteq lost \cup {c}
      /\ acknowledged' = acknowledged \cup new
      /\ z \in SessionState /\ \A d \in Conn : d # c => session'[d] = session[d]
  BY <1>0 DEF Ran, TypeInv
<1>2. /\ durable \subseteq durable' /\ durable' \subseteq durable \cup s.writes \cup new
      /\ z.writes \subseteq s.writes \cup new
      /\ c \notin lost' => s.writes \cup new \subseteq durable' \cup z.writes \cup undone'
  BY DEF Ran
<1>3. /\ \A u \in Trx : Lasting(u)' => Lasting(u)
      /\ Discarded => Discarded'
  BY <1>1 DEF Ran, Lasting, NestedIsOver
<1>4. ASSUME NEW w \in new, w \notin misrouted' \cup orphaned'
      PROVE  /\ ConnOf(w[1]) = c
             /\ w[1] = "a" => stage["n"] # "open"
             /\ \/ /\ w[1] = "n" => promise["n"] # "rolledback"
                   /\ promise[RootOf(w[1])] \notin Good
                \/ c \in implicit' /\ w \in durable' \cup undone'
  BY <1>4 DEF Ran
<1>5. ASSUME NEW u \in Trx, NEW w \in Writes(u)'
      PROVE  /\ w \in Writes(u) \/ w \in new
             /\ w \in acknowledged => w \in Writes(u)
             /\ w \notin misrouted' \cup orphaned' \cup undone' /\ w[1] = u
  BY <1>1, <1>5 DEF Writes
<1>6. \A u \in Trx : ConnOf(u) \in Conn /\ RootOf(u) \in Roots /\ RootOf(u) \in Line(u) /\ u \in Line(u)
  BY DEF ConnOf, Conn, RootOf, Roots, Trx, Line, Outer
<1>7. SessionOf(TopOf(c)) /\ ConnOf(TopOf(c)) = c
  BY <1>0, Tops DEF Sessions
<1>15. s.writes \subseteq acknowledged /\ durable \subseteq acknowledged
  BY <1>0, <1>7 DEF SessionOf, Permanence
<1>14. durable' \subseteq acknowledged'
  BY <1>1, <1>2, <1>15
<1>16. ASSUME NEW u \in Trx, ConnOf(u) # c, NEW w \in Writes(u)'
       PROVE  w \in Writes(u) /\ w \notin new /\ w \notin s.writes
  <2>1. w \notin new
    BY <1>4, <1>5, <1>16
  <2>2. w \notin s.writes
    BY <1>1, <1>5, <1>7, <1>16 DEF SessionOf
  <2> QED BY <1>5, <1>16, <2>1, <2>2
<1>8. ASSUME NEW u \in Trx
      PROVE  Kept(u)'
  <2>1. SUFFICES ASSUME promise[RootOf(u)] = "pending", promise[u] \in {"pending", "committed"},
                        ConnOf(u) \notin lost'
                 PROVE  Writes(u)' \subseteq durable' \cup session'[ConnOf(u)].writes
    BY <1>1 DEF Kept
  <2>2. Writes(u) \subseteq durable \cup session[ConnOf(u)].writes
    BY <1>0, <1>1, <2>1 DEF Permanence, Kept
  <2>3. CASE ConnOf(u) # c
    BY <1>1, <1>2, <1>6, <1>16, <2>2, <2>3
  <2>4. CASE ConnOf(u) = c
    BY <1>2, <1>5, <2>1, <2>2, <2>4
  <2> QED BY <2>3, <2>4
<1>9. ASSUME NEW u \in Trx
      PROVE  NotYet(u)'
  <2>1. SUFFICES ASSUME Lasting(u)', promise[RootOf(u)] \in {"pending", "rolledback"}
                 PROVE  Writes(u)' \cap durable' = {}
    BY <1>1 DEF NotYet
  <2>2. Writes(u) \cap durable = {}
    BY <1>0, <1>3, <2>1 DEF Permanence, NotYet
  <2>3. CASE ConnOf(u) # c
    BY <1>2, <1>16, <2>2, <2>3
  <2>4. CASE ConnOf(u) = c
    <3>1. c \notin implicit' /\ ~NestedIsOver' /\ promise[TopOf(c)] # "failed"
      BY <2>1, <2>4, Tops DEF Lasting
    <3>2. durable' = durable
      BY <3>1 DEF Ran
    <3> QED BY <1>5, <1>15, <2>2, <3>2
  <2> QED BY <2>3, <2>4
<1>10. KeptBefore'
  <2>1. SUFFICES ASSUME stage["n"] = "open", "c1" \notin lost', session'["c1"].marks # <<>>
                 PROVE  Writes("a")' \subseteq durable' \cup session'["c1"].marks[1].before
    BY <1>1 DEF KeptBefore
  <2>2. session'["c1"].marks = session["c1"].marks
    BY <1>1, <2>1 DEF Ran, Conn
  <2>3. Writes("a") \subseteq durable \cup session["c1"].marks[1].before
    BY <1>0, <1>1, <2>1, <2>2 DEF Permanence, KeptBefore
  <2>4. \A w \in Writes("a")' : w \in Writes("a")
    BY <1>4, <1>5, <2>1 DEF Trx
  <2> QED BY <1>2, <2>2, <2>3, <2>4
<1>11. CommittedIsKept'
  <2>1. SUFFICES ASSUME NEW u \in Trx, \A v \in Line(u) : promise[v] = "committed", ~Discarded'
                 PROVE  Writes(u)' \subseteq durable'
    BY <1>1 DEF CommittedIsKept
  <2>2. Writes(u) \subseteq durable
    BY <1>0, <1>3, <2>1 DEF Permanence, CommittedIsKept
  <2>3. \A w \in Writes(u)' : w \in Writes(u) \/ w \in durable'
    BY <1>4, <1>5, <1>6, <2>1 DEF Good
  <2> QED BY <1>2, <2>2, <2>3
<1>12. RolledBackIsGone'
  <2>1. SUFFICES ASSUME NEW u \in Trx, promise[u] = "rolledback", Lasting(u)'
                 PROVE  /\ Writes(u)' \cap durable' = {}
                        /\ Writes(u)' \cap session'[ConnOf(u)].writes = {}
    <3>1. \A v \in Trx : Lasting(v)' <=> ConnOf(v) \notin implicit' /\ ~NestedIsOver'
      BY DEF Lasting
    <3> QED BY <1>1, <3>1 DEF RolledBackIsGone
  <2>2. Writes(u) \cap durable = {} /\ Writes(u) \cap session[ConnOf(u)].writes = {}
    BY <1>0, <1>3, <2>1 DEF Permanence, RolledBackIsGone, Lasting
  <2>3. CASE ConnOf(u) # c
    BY <1>1, <1>2, <1>6, <1>16, <2>2, <2>3
  <2>4. CASE ConnOf(u) = c
    <3>1. c \notin implicit'
      BY <2>1, <2>4 DEF Lasting
    <3>2. \A w \in Writes(u)' : w \in Writes(u) /\ w \notin new
      BY <1>4, <1>5, <2>1, <3>1 DEF Good, RootOf, Trx
    <3> QED BY <1>2, <2>2, <2>4, <3>2
  <2> QED BY <2>3, <2>4
<1>13. ReturnedClean'
  <2>1. SUFFICES ASSUME NEW u \in Roots, promise[u] \in Good, ConnOf(u) \notin lost'
                 PROVE  /\ session'[ConnOf(u)].writes = {}
                        /\ dialect # "oracledb" => session'[ConnOf(u)].owner = "none"
    BY <1>1 DEF ReturnedClean, Roots, Good
  <2>2. CASE ConnOf(u) = c
    BY <2>1, <2>2, Tops DEF Ran
  <2>3. CASE ConnOf(u) # c
    <3>1. session'[ConnOf(u)] = session[ConnOf(u)]
      BY <1>1, <2>3 DEF ConnOf, Conn
    <3> QED BY <1>0, <1>1, <2>1, <3>1 DEF Permanence, ReturnedClean, Roots, Good
  <2> QED BY <2>2, <2>3
<1> QED BY <1>8, <1>9, <1>10, <1>11, <1>12, <1>13, <1>14 DEF Permanence

\* What may become of the requests, where `added` are new and c may take one up.
Moved(c, added) ==
    /\ added \subseteq Request
    /\ UNCHANGED <<dialect, stage, promise>> /\ implicit \subseteq implicit'
    /\ dialect # "mssql" => UNCHANGED <<requestQueue, running>>
    /\ ToSet(requestQueue') \subseteq ToSet(requestQueue) \cup added
    /\ running'[c] \in {Idle, running[c]} \cup ToSet(requestQueue) \cup added
    /\ \A d \in Conn : d # c => running'[d] = running[d] /\ session'[d] = session[d] /\ (d \in lost' => d \in lost)
    /\ orphaned' = orphaned \cup Orphans
    /\ \A r \in added :
         /\ OfItsTransaction(r)
         /\ r.trx = "a" => stage["n"] # "open"
         /\ r.trx = "n" => promise["n"] # "rolledback"
         /\ promise[RootOf(r.trx)] \notin Good
    /\ running'[c] # Idle =>
         /\ c \notin lost' /\ (session'[c].owner # "none" \/ c \in implicit')
         /\ c \in implicit' \/ promise[TopOf(c)] \notin Good

LEMMA MovedInTurn ==
  ASSUME TypeInv, InTurn, NEW c \in Conn, NEW added, Moved(c, added)
  PROVE  InTurn'
<1>1. /\ UNCHANGED <<dialect, stage, promise>> /\ orphaned \subseteq orphaned' /\ orphaned' = orphaned \cup Orphans
      /\ implicit \subseteq implicit'
      /\ added \subseteq Request
  BY DEF Moved
<1>2. ASSUME NEW r \in ToSet(requestQueue')
      PROVE  OfItsTransaction(r)' /\ Waiting(r)'
  <2>1. OfItsTransaction(r)
    BY DEF Moved, InTurn
  <2>2. running'[r.conn] = Idle => r.write \in Orphans
    BY DEF Orphans
  <2> QED BY <1>1, <2>1, <2>2 DEF OfItsTransaction, Waiting
<1>3. ASSUME NEW d \in Conn, running'[d] # Idle
      PROVE  /\ OfItsTransaction(running[d])'
             /\ d \notin lost' /\ (session'[d].owner # "none" \/ d \in implicit')
  <2>1. PICK r : r = running'[d]
    OBVIOUS
  <2>2. OfItsTransaction(r)
    <3>1. CASE d = c
      BY <1>3, <2>1, <3>1 DEF Moved, InTurn
    <3>2. CASE d # c
      BY <1>3, <2>1, <3>2 DEF Moved, InTurn
    <3> QED BY <3>1, <3>2
  <2>3. OfItsTransaction(running[d])'
    BY <1>1, <2>1, <2>2 DEF OfItsTransaction
  <2>4. d \notin lost' /\ (session'[d].owner # "none" \/ d \in implicit')
    <3>1. CASE d = c
      BY <1>3, <3>1 DEF Moved
    <3>2. CASE d # c
      BY <1>3, <3>2 DEF Moved, InTurn
    <3> QED BY <3>1, <3>2
  <2> QED BY <2>3, <2>4
<1>4. ASSUME NEW t, Over(t), \A r \in added : r.trx # t
      PROVE  Over(t)'
  <2>1. \A r \in ToSet(requestQueue') : r.trx = t => r.write \in orphaned'
    BY <1>1, <1>4 DEF Over, Moved
  <2>2. ASSUME NEW d \in Conn, running'[d] # Idle, running'[d].trx = t, running'[d].conn = d
        PROVE  running'[d].write \in orphaned'
    <3>1. CASE d = c
      BY <1>1, <1>4, <2>2, <3>1 DEF Over, Moved
    <3>2. CASE d # c
      BY <1>1, <1>4, <2>2, <3>2 DEF Over, Moved
    <3> QED BY <3>1, <3>2
  <2> QED BY <2>1, <2>2 DEF Over
<1>5. dialect' # "mssql" => requestQueue' = <<>> /\ \A d \in Conn : running'[d] = Idle
  BY <1>1 DEF Moved, InTurn
<1>6. stage'["n"] = "open" => Over("a")'
  BY <1>1, <1>4 DEF Moved, InTurn
<1>7. promise'["n"] = "rolledback" /\ "c1" \notin implicit' => Over("n")'
  BY <1>1, <1>4 DEF Moved, InTurn
<1>8. ASSUME NEW t \in Roots, promise'[t] \in Good, ConnOf(t) \notin implicit'
      PROVE  running'[ConnOf(t)] = Idle
  <2>1. running[ConnOf(t)] = Idle /\ ConnOf(t) \in Conn
    BY <1>1, <1>8 DEF InTurn, Roots, ConnOf, Conn
  <2>2. ConnOf(t) = c => t = TopOf(c)
    BY <1>8, Tops
  <2> QED BY <1>1, <1>8, <2>1, <2>2 DEF Moved
<1>9. promise'["a"] \in Good /\ "c1" \notin implicit' => Over("n")'
  BY <1>1, <1>4 DEF Moved, InTurn, RootOf
<1>10. \A t \in Roots : promise'[t] \in Good /\ ConnOf(t) \notin implicit' => Over(t)'
  <2>1. ASSUME NEW t \in Roots, promise[t] \in Good
        PROVE  \A r \in added : r.trx # t
    BY <2>1 DEF Moved, RootOf, Roots
  <2> QED BY <1>1, <1>4, <2>1 DEF InTurn
<1> QED BY <1>2, <1>3, <1>5, <1>6, <1>7, <1>8, <1>9, <1>10 DEF InTurn

LEMMA RanKeeps ==
  ASSUME DialectInv, TypeInv', NEW c \in Conn, NEW new, Ran(c, new), NEW added, Moved(c, added)
  PROVE  DialectInv'
BY RanSessions, RanWrites, MovedInTurn DEF DialectInv

-----------------------------------------------------------------------------
(* The actions in between *)

\* What a write answered with `ok` makes of the session s.
Wrote(c, s, z, new, ok) ==
    /\ session' = [session EXCEPT ![c] = z] /\ session'[c] = z
    /\ acknowledged' = acknowledged \cup new
    /\ implicit \subseteq implicit' /\ implicit' \subseteq implicit \cup {c}
    /\ undone \subseteq undone' /\ undone' \subseteq undone \cup s.writes
    /\ implicit' # implicit => s.owner # "none" /\ z.owner = "none" /\ ~ok
    /\ \/ z.owner = s.owner \/ (z.owner = "a" /\ dialect = "oracledb" /\ ok)
       \/ z.owner = "none" /\ c \in implicit'
    /\ z.owner = "none" => z.writes = {} /\ z.marks = <<>>
    /\ \/ z.marks = s.marks /\ s.writes \subseteq z.writes
       \/ z.marks = <<>> /\ ((dialect = "oracledb" /\ ~isTransaction[c]) \/ c \in implicit')
    /\ durable \subseteq durable' /\ durable' \subseteq durable \cup s.writes \cup new
    /\ z.writes \subseteq s.writes \cup new
    /\ s.writes \cup new \subseteq durable' \cup z.writes \cup undone'
    /\ durable' = durable \/ s.owner = "none" \/ (dialect = "oracledb" /\ ~isTransaction[c])
    /\ z.aborted => s.aborted \/ (dialect = "redshift" /\ ~ok)

LEMMA ExecutedDoes ==
  ASSUME TypeInv, NEW c \in Conn, NEW t, NEW w \in Writing, NEW ok \in BOOLEAN, Executed(c, t, w, ok),
         session[c].owner = "none" => session[c].writes = {} /\ session[c].marks = <<>>,
         NEW new, new = IF ok THEN {w} ELSE {}
  PROVE  \E z \in SessionState : Wrote(c, session[c], z, new, ok)
<1> DEFINE s == session[c]
           after == After(c, "query", w, ok)
           commits == dialect = "oracledb" /\ ok /\ ~isTransaction[c]
<1>1. s \in SessionState
  BY DEF TypeInv
<1>2. /\ acknowledged' = IF ok THEN acknowledged \cup {w} ELSE acknowledged
      /\ durable' = MadeDurable(c, "query", w, ok) \cup IF commits THEN after[c].writes ELSE {}
      /\ \/ /\ session' = IF commits THEN Recommenced(c) ELSE after
            /\ UNCHANGED <<implicit, undone>>
         \/ /\ ~ok /\ Deadlocks(c)
            /\ session' = Emptied(c)
            /\ implicit' = implicit \cup {c}
            /\ undone' = undone \cup s.writes
  BY DEF Executed
<1>5. CASE ~ok /\ Deadlocks(c) /\ implicit' = implicit \cup {c} /\ undone' = undone \cup s.writes
           /\ session' = Emptied(c)
  <2>1. dialect # "oracledb" /\ s.owner # "none"
    BY <1>5 DEF Deadlocks, NotInTransaction
  <2>2. PICK z \in SessionState : z = S!IdleSession
    BY IdleIs
  <2>3. /\ z.owner = "none" /\ z.writes = {} /\ z.marks = <<>> /\ ~z.aborted
        /\ session' = [session EXCEPT ![c] = z] /\ session'[c] = z
    BY <1>5, <2>1, <2>2, IdleIs DEF Emptied, TypeInv
  <2>4. durable' = durable /\ new = {} /\ acknowledged' = acknowledged
    BY <1>2, <1>5 DEF MadeDurable
  <2> QED BY <1>5, <2>1, <2>3, <2>4 DEF Wrote
<1>3. CASE ~ok /\ session' = after /\ implicit' = implicit /\ undone' = undone
  <2>1. after = [session EXCEPT ![c] = S!AfterFailure(s, "query")]
    BY <1>3 DEF After
  <2>2. PICK z \in SessionState : z = [s EXCEPT !.aborted = @ \/ (dialect = "redshift" /\ s.owner # "none")]
    BY <1>1 DEF SessionState
  <2>3. S!AfterFailure(s, "query") = z
    BY <1>1, <2>2, Failure
  <2>4. /\ z.owner = s.owner /\ z.writes = s.writes /\ z.marks = s.marks
        /\ z.aborted => s.aborted \/ dialect = "redshift"
    BY <1>1, <2>2 DEF SessionState
  <2>5. durable' = durable /\ new = {}
    BY <1>2, <1>3 DEF MadeDurable
  <2>6. session' = [session EXCEPT ![c] = z] /\ session'[c] = z
    BY <1>3, <2>1, <2>3 DEF TypeInv
  <2> QED BY <1>2, <1>3, <2>4, <2>5, <2>6 DEF Wrote
<1>4. CASE ok
  <2>1. after = [session EXCEPT ![c] = S!AfterSuccess(s, "query", w)]
    BY <1>4 DEF After
  <2>2. PICK y \in SessionState : y = IF s.owner = "none" THEN s ELSE [s EXCEPT !.writes = @ \cup {w}]
    BY <1>1 DEF SessionState
  <2>3. S!AfterSuccess(s, "query", w) = y
        /\ S!MadeDurable(s, "query", w) = IF s.owner = "none" THEN {w} ELSE {}
    <3>1. /\ S!AfterSuccess(s, "query", w) = IF s.owner = "none" THEN s ELSE [s EXCEPT !.writes = @ \cup {w}]
          /\ S!MadeDurable(s, "query", w) = IF s.owner = "none" THEN {w} ELSE {}
      BY <1>1, SuccessQuery, Zenon
    <3> QED BY <2>2, <3>1, Zenon
  <2>4. /\ y.owner = s.owner /\ y.marks = s.marks /\ y.aborted = s.aborted
        /\ y.writes = IF s.owner = "none" THEN s.writes ELSE s.writes \cup {w}
    BY <1>1, <2>2 DEF SessionState
  <2>5. MadeDurable(c, "query", w, ok) = durable \cup IF s.owner = "none" THEN {w} ELSE {}
    BY <1>4, <2>3 DEF MadeDurable
  <2>6. after[c] = y /\ after = [session EXCEPT ![c] = y]
    BY <2>1, <2>3 DEF TypeInv
  <2>7. /\ new = {w} /\ acknowledged' = acknowledged \cup new
        /\ session' = (IF commits THEN Recommenced(c) ELSE after)
        /\ implicit' = implicit /\ undone' = undone
    BY <1>2, <1>4
  <2> HIDE DEF after
  <2>8. CASE ~commits
    <3>1. session' = [session EXCEPT ![c] = y] /\ session'[c] = y
      BY <2>6, <2>7, <2>8 DEF TypeInv
    <3>2. durable' = durable \cup IF s.owner = "none" THEN {w} ELSE {}
      BY <1>2, <2>5, <2>8
    <3>3. CASE s.owner = "none"
      BY <2>4, <2>7, <3>1, <3>2, <3>3 DEF Wrote
    <3>4. CASE s.owner # "none"
      BY <2>4, <2>7, <3>1, <3>2, <3>4 DEF Wrote
    <3> QED BY <3>3, <3>4
  <2>9. CASE commits
    <3>1. PICK e \in SessionState : e = [S!IdleSession EXCEPT !.owner = "a"]
      BY IdleIs DEF SessionState
    <3>2. e.owner = "a" /\ e.writes = {} /\ e.marks = <<>> /\ ~e.aborted
      BY <3>1, IdleIs DEF SessionState
    <3>3. session' = [session EXCEPT ![c] = e] /\ session'[c] = e
      BY <2>7, <2>9, <3>1 DEF TypeInv, Recommenced, S!Began
    <3>4. durable' = durable \cup s.writes \cup {w}
      BY <1>2, <2>4, <2>5, <2>6, <2>9
    <3> QED BY <1>4, <2>7, <2>9, <3>2, <3>3, <3>4 DEF Wrote
  <2> QED BY <2>8, <2>9
<1> QED BY <1>2, <1>3, <1>4, <1>5

\* How much more has been acknowledged than before.
LEMMA OneMore ==
  ASSUME TypeInv, Sessions, NEW new, NEW w, new = {} \/ new = {w},
         acknowledged' = acknowledged \cup new, dialect' = dialect,
         made'["a"] \in Nat, made["a"] \in Nat,
         dialect = "redshift" => made'["a"] = made["a"] + 1
  PROVE  /\ Discarded => Discarded'
         /\ dialect = "redshift" =>
              IsFiniteSet(acknowledged') /\ Cardinality(acknowledged') <= made'["a"]
         /\ dialect = "redshift" /\ new = {} => Discarded'
<1>1. CASE dialect = "redshift"
  <2>1. IsFiniteSet(acknowledged) /\ Cardinality(acknowledged) <= made["a"]
    BY <1>1 DEF Sessions, Aborts
  <2>2. Cardinality(acknowledged) \in Nat
    BY <2>1, FS_CardinalityType
  <2>3. CASE new = {}
    BY <1>1, <2>1, <2>2, <2>3 DEF Discarded
  <2>4. CASE new = {w}
    <3>1. /\ IsFiniteSet(acknowledged')
          /\ Cardinality(acknowledged') \in {Cardinality(acknowledged), Cardinality(acknowledged) + 1}
      BY <2>1, <2>4, FS_AddElement
    <3> QED BY <1>1, <2>1, <2>2, <2>4, <3>1 DEF Discarded
  <2> QED BY <2>3, <2>4
<1>2. CASE dialect # "redshift"
  BY <1>2 DEF Discarded
<1> QED BY <1>1, <1>2

LEMMA WriteKeeps ==
  ASSUME DialectInv, NEW t \in Trx, Write(t), dialect # "mssql"
  PROVE  DialectInv'
<1> DEFINE c == ConnOf(t)
           s == session[c]
           w == <<t, made'[t]>>
<1>0. TypeInv /\ Course /\ InTurn /\ Sessions /\ Permanence
  BY DEF DialectInv
<1>1. /\ stage[t] = "open" /\ promise[t] = "pending" /\ (t = "a" => stage["n"] # "open")
      /\ (t = "n" => stage["a"] = "open") /\ t # "b"
  BY ReadyIs DEF Write
<1>2. /\ c = "c1" /\ c \in Conn /\ s \in SessionState /\ ConnOf("a") = c
      /\ stage["a"] = "open" /\ promise["a"] = "pending" /\ RootOf(t) = "a"
      /\ dialect = "redshift" => t = "a"
  BY <1>0, <1>1 DEF ConnOf, Conn, TypeInv, Course, Trx, RootOf
<1>3. /\ UNCHANGED <<dialect, stage, promise, completed, over, misrouted, isTransaction, held, lost,
                      requestQueue, running>>
      /\ made' = [made EXCEPT ![t] = @ + 1]
      /\ orphaned' = orphaned \cup Orphans
      /\ \E ok \in Outcomes(c, "query", t) : Executed(c, t, w, ok)
  BY DEF Write
<1>4. PICK ok \in BOOLEAN : Executed(c, t, w, ok) /\ (ok => c \notin lost)
  <2>1. \A ok \in Outcomes(c, "query", t) : ok \in BOOLEAN /\ (ok => c \notin lost)
    BY DEF Outcomes
  <2> QED BY <1>3, <2>1
<1>5. made'[t] = made[t] + 1 /\ made'[t] \in Nat /\ w \in Writing /\ made' \in [Trx -> Nat]
  BY <1>0, <1>3 DEF TypeInv, Writing
<1>6. SessionOf("a")
  BY <1>0 DEF Sessions, Roots
<1>7. PICK new : new = IF ok THEN {w} ELSE {}
  OBVIOUS
<1> HIDE DEF w
<1>8. PICK z \in SessionState : Wrote(c, s, z, new, ok)
  <2>1. s.owner = "none" => s.writes = {} /\ s.marks = <<>>
    BY <1>2, <1>6 DEF SessionOf
  <2>2. Executed(c, t, w, ok) /\ w \in Writing /\ c \in Conn
    BY <1>2, <1>4, <1>5
  <2> QED BY <1>0, <1>7, <2>1, <2>2, ExecutedDoes, Zenon
<1>9. new \in {{}, {w}} /\ new \subseteq Writing /\ (~ok => new = {})
  BY <1>5, <1>7
<1>10. \A v \in new : v[1] = t
  BY <1>7 DEF w
<1>11. /\ Discarded => Discarded'
       /\ dialect = "redshift" =>
              IsFiniteSet(acknowledged') /\ Cardinality(acknowledged') <= made'["a"]
       /\ dialect = "redshift" /\ new = {} => Discarded'
  <2>1. /\ made'["a"] \in Nat /\ made["a"] \in Nat /\ dialect' = dialect
        /\ dialect = "redshift" => made'["a"] = made["a"] + 1
    BY <1>0, <1>2, <1>3, <1>5 DEF TypeInv, Trx
  <2>2. (new = {} \/ new = {w}) /\ acknowledged' = acknowledged \cup new
    BY <1>8, <1>9 DEF Wrote
  <2> QED BY <1>0, <2>1, <2>2, OneMore, Zenon
<1>12. Orphans = {}
  <2>1. ToSet(requestQueue') = {}
    BY <1>0, <1>3 DEF InTurn, ToSet
  <2> QED BY <2>1 DEF Orphans
<1>13. TypeInv'
  <2>1. orphaned' = orphaned
    BY <1>3, <1>12
  <2>2. /\ acknowledged' \in SUBSET Writing /\ durable' \in SUBSET Writing
        /\ undone' \in SUBSET Writing /\ implicit' \in SUBSET Conn
    BY <1>0, <1>2, <1>8, <1>9 DEF TypeInv, SessionState, Wrote
  <2>3. session' \in [Conn -> SessionState]
    BY <1>0, <1>8 DEF TypeInv, Wrote
  <2> QED BY <1>0, <1>3, <1>5, <2>1, <2>2, <2>3 DEF TypeInv
<1>14. c \in lost => s.owner = "none" /\ new = {}
  BY <1>2, <1>4, <1>6, <1>9 DEF SessionOf
<1>15. dialect = "oracledb" /\ ~isTransaction[c] => stage["n"] = "left"
  BY <1>0, <1>2 DEF Sessions
<1>16. Ran(c, new)
  <2>1. /\ TopOf(c) = "a" /\ promise[TopOf(c)] \notin Good /\ stage[TopOf(c)] # "none"
        /\ implicit \subseteq implicit' /\ implicit' \subseteq implicit \cup {c} /\ undone \subseteq undone'
    BY <1>2, <1>8 DEF TopOf, Good, Wrote
  <2>2. c \in lost => z.owner = "none"
    BY <1>4, <1>8, <1>14 DEF Wrote
  <2>3. durable' = durable \/ c \in implicit' \/ NestedIsOver'
    <3>1. SUFFICES ASSUME durable' # durable, c \notin implicit', ~NestedIsOver'
                   PROVE  FALSE
      OBVIOUS
    <3>2. c \notin implicit /\ ~(dialect = "oracledb" /\ stage["n"] = "left")
      BY <1>3, <1>8, <3>1 DEF Wrote, NestedIsOver
    <3>3. s.owner = "none"
      BY <1>8, <1>15, <3>1, <3>2 DEF Wrote
    <3>4. c \in lost
      BY <1>2, <1>6, <3>2, <3>3 DEF SessionOf
    <3> QED BY <1>8, <1>14, <3>1, <3>3, <3>4, <1>2, <1>6 DEF SessionOf, Wrote
  <2>4. /\ \/ z.owner = s.owner
           \/ z.owner = "a" /\ c = "c1" /\ stage["a"] # "none" /\ dialect = "oracledb"
           \/ z.owner = "none" /\ c \in implicit'
        /\ z.owner = "none" => z.writes = {} /\ z.marks = <<>>
    BY <1>2, <1>8 DEF Wrote
  <2>5. \A v \in new :
            /\ stage[v[1]] # "none"
            /\ ConnOf(v[1]) = c
            /\ v[1] = "a" => stage["n"] # "open"
            /\ v[1] = "n" => promise["n"] # "rolledback"
            /\ promise[RootOf(v[1])] \notin Good
    BY <1>1, <1>2, <1>10 DEF Good
  <2>7. z.aborted => s.aborted \/ Discarded'
    BY <1>8, <1>9, <1>11 DEF Wrote
  <2>8. \/ z.marks = s.marks /\ (z.marks # <<>> => z.marks[1].before \subseteq z.writes)
        \/ z.marks = <<>> /\ (stage["n"] # "open" \/ c \in implicit')
    <3>1. s.marks # <<>> => s.marks[1].before \subseteq s.writes
      BY <1>0, <1>2 DEF Sessions, Savepoints
    <3> QED BY <1>8, <1>15, <3>1 DEF Wrote
  <2>9. /\ session' = [session EXCEPT ![c] = z] /\ session'[c] = z /\ acknowledged' = acknowledged \cup new
        /\ durable \subseteq durable' /\ durable' \subseteq durable \cup s.writes \cup new
        /\ z.writes \subseteq s.writes \cup new
        /\ s.writes \cup new \subseteq durable' \cup z.writes \cup undone'
    BY <1>8 DEF Wrote
  <2> QED BY <1>3, <1>9, <1>11, <2>1, <2>2, <2>3, <2>4, <2>5, <2>7, <2>8, <2>9 DEF Ran
<1>17. Moved(c, {})
  <2>1. running'[c] = Idle
    BY <1>0, <1>2, <1>3 DEF InTurn
  <2>2. implicit \subseteq implicit' /\ \A d \in Conn : d # c => session'[d] = session[d]
    BY <1>0, <1>8 DEF TypeInv, Wrote
  <2> QED BY <1>3, <2>1, <2>2 DEF Moved
<1> QED BY <1>2, <1>13, <1>16, <1>17, RanKeeps

\* A statement that commits by itself leaves nothing lasting to say.
LEMMA ImplicitKeeps ==
  ASSUME DialectInv, NEW t \in Trx, ImplicitCommit(t)
  PROVE  DialectInv'
<1> DEFINE c == ConnOf(t)
           s == session[c]
<1>0. TypeInv /\ Course /\ InTurn /\ Sessions /\ Permanence
  BY DEF DialectInv
<1>1. /\ stage[t] = "open" /\ (t = "n" => stage["a"] = "open") /\ t # "b"
      /\ c \notin lost /\ dialect \in {"mysql", "oracledb"}
  BY ReadyIs DEF ImplicitCommit
<1>2. /\ c = "c1" /\ c \in Conn /\ s \in SessionState /\ ConnOf("a") = c
      /\ stage["a"] = "open" /\ promise["a"] = "pending"
  BY <1>0, <1>1 DEF ConnOf, Conn, TypeInv, Course, Trx
<1>3. /\ UNCHANGED <<dialect, stage, promise, completed, made, acknowledged, over, misrouted, orphaned, undone,
                      isTransaction, held, lost, requestQueue, running>>
      /\ implicit' = implicit \cup {c} /\ durable' = durable \cup s.writes
      /\ session' = IF dialect = "oracledb" THEN Recommenced(c) ELSE [session EXCEPT ![c] = S!IdleSession]
  BY DEF ImplicitCommit, Emptied, program
<1>4. PICK e \in SessionState : e = [S!IdleSession EXCEPT !.owner = "a"]
  BY IdleIs DEF SessionState
<1>5. PICK z \in SessionState : z = IF dialect = "oracledb" THEN e ELSE S!IdleSession
  BY IdleIs
<1>6. /\ z.owner \in {"none", "a"} /\ z.writes = {} /\ z.marks = <<>> /\ ~z.aborted
  BY <1>4, <1>5, IdleIs DEF SessionState
<1>7. session' = [session EXCEPT ![c] = z] /\ session'[c] = z
  BY <1>0, <1>2, <1>3, <1>4, <1>5 DEF Recommenced, S!Began, TypeInv
<1>8. TypeInv'
  <2>1. durable' \in SUBSET Writing /\ implicit' \in SUBSET Conn
    BY <1>0, <1>2, <1>3 DEF TypeInv, SessionState
  <2> QED BY <1>0, <1>3, <1>7, <2>1 DEF TypeInv
<1>9. /\ TopOf(c) = "a" /\ promise[TopOf(c)] \notin Good /\ stage[TopOf(c)] # "none"
      /\ (z.owner = "none" \/ (z.owner = "a" /\ dialect = "oracledb")) /\ c \in implicit'
  BY <1>2, <1>3, <1>4, <1>5, IdleIs DEF TopOf, Good, SessionState
<1>10. Ran(c, {})
  <2>2. /\ Discarded' <=> Discarded
        /\ dialect = "redshift" =>
            IsFiniteSet(acknowledged') /\ Cardinality(acknowledged') <= made'["a"]
    BY <1>1, <1>3 DEF Discarded
  <2> QED BY <1>1, <1>2, <1>3, <1>6, <1>7, <1>9, <2>2 DEF Ran
<1>11. Moved(c, {})
  <2>1. running'[c] = Idle /\ Orphans = {}
    BY <1>0, <1>1, <1>2, <1>3 DEF InTurn, Orphans, ToSet
  <2>2. \A d \in Conn : d # c => session'[d] = session[d]
    BY <1>0, <1>7 DEF TypeInv
  <2> QED BY <1>3, <2>1, <2>2 DEF Moved
<1> QED BY <1>2, <1>8, <1>10, <1>11, RanKeeps

\* Every waiting request's write is a write.
LEMMA OrphansAre ==
  ASSUME requestQueue' \in Seq(Request)
  PROVE  Orphans \in SUBSET Writing
<1>1. ASSUME NEW w \in Orphans
      PROVE  w \in Writing
  <2>1. PICK q \in ToSet(requestQueue') : w = q.write
    BY <1>1 DEF Orphans
  <2>2. q \in Request
    BY <2>1 DEF ToSet
  <2> QED BY <2>1, <2>2 DEF Request
<1> QED BY <1>1

LEMMA LoseKeeps ==
  ASSUME DialectInv, NEW c \in Conn, Lose(c)
  PROVE  DialectInv'
<1> DEFINE s == session[c]
           z == S!IdleSession
<1>0. TypeInv /\ Course /\ InTurn /\ Sessions /\ Permanence
  BY DEF DialectInv
<1>1. /\ UNCHANGED <<dialect, stage, promise, completed, made, acknowledged, over, misrouted, implicit, undone,
                      durable, isTransaction, held, requestQueue>>
      /\ c \in held /\ lost' = lost \cup {c} /\ session' = [session EXCEPT ![c] = z]
      /\ running' = [running EXCEPT ![c] = Idle] /\ orphaned' = orphaned \cup Orphans
  BY DEF Lose, program
<1>2. /\ z \in SessionState /\ z.owner = "none" /\ ~z.aborted /\ z.writes = {} /\ z.marks = <<>>
  BY IdleIs
<1>3. session'[c] = z /\ \A d \in Conn : d # c => session'[d] = session[d]
  BY <1>0, <1>1 DEF TypeInv
<1>4. running'[c] = Idle /\ \A d \in Conn : d # c => running'[d] = running[d]
  BY <1>0, <1>1 DEF TypeInv
<1> HIDE DEF z
<1>5. TypeInv'
  <2>1. orphaned' \in SUBSET Writing
    BY <1>0, <1>1, OrphansAre DEF TypeInv
  <2>2. session' \in [Conn -> SessionState] /\ running' \in [Conn -> Request \cup {Idle}]
    BY <1>0, <1>1, <1>2 DEF TypeInv
  <2> QED BY <1>0, <1>1, <2>1, <2>2 DEF TypeInv
<1>6. Ran(c, {})
  <2>1. /\ Discarded' <=> Discarded
        /\ dialect = "redshift" =>
            IsFiniteSet(acknowledged') /\ Cardinality(acknowledged') <= made'["a"]
    BY <1>0, <1>1 DEF Discarded, Sessions, Aborts
  <2> QED BY <1>1, <1>2, <1>3, <2>1 DEF Ran
<1>7. Moved(c, {})
  <2>1. dialect # "mssql" => running' = running
    BY <1>0, <1>1 DEF InTurn, TypeInv
  <2> QED BY <1>1, <1>3, <1>4, <2>1 DEF Moved
<1> QED BY <1>5, <1>6, <1>7, RanKeeps

\* A connection takes up a request that waits, and no other is lost or added.
LEMMA ChompTakes ==
  ASSUME TypeInv, NEW queue \in Seq(Request), NEW c \in Conn, Chomp(queue, c)
  PROVE  /\ requestQueue' \in Seq(Request) /\ ToSet(requestQueue') \subseteq ToSet(queue)
         /\ \E r \in {Idle} \cup ToSet(queue) : running' = [running EXCEPT ![c] = r]
<1>1. CASE Len(queue) = 0
  <2>1. requestQueue' = queue /\ running' = [running EXCEPT ![c] = Idle]
    BY <1>1 DEF Chomp, Popped
  <2> QED BY <2>1
<1>2. CASE Len(queue) # 0
  <2> DEFINE i == Len(queue)
  <2>1. requestQueue' = RemoveAt(queue, i) /\ running' = [running EXCEPT ![c] = queue[i]]
    BY <1>2 DEF Chomp, Popped
  <2>2. i \in Nat /\ i >= 1 /\ i \in DOMAIN queue
    BY <1>2
  <2>3. SubSeq(queue, i + 1, i) = <<>> /\ SubSeq(queue, 1, i - 1) \in Seq(Request)
    BY <2>2
  <2>4. requestQueue' = SubSeq(queue, 1, i - 1)
    BY <2>1, <2>3 DEF RemoveAt
  <2>5. \A j \in DOMAIN requestQueue' : j \in DOMAIN queue /\ requestQueue'[j] = queue[j]
    BY <2>2, <2>4
  <2> QED BY <2>1, <2>2, <2>3, <2>4, <2>5 DEF ToSet
<1> QED BY <1>1, <1>2

LEMMA RequestKeeps ==
  ASSUME DialectInv, NEW t \in Trx, Write(t), dialect = "mssql"
  PROVE  DialectInv'
<1> DEFINE c == ConnOf(t)
           s == session[c]
           r == [trx |-> t, conn |-> c, write |-> <<t, made'[t]>>]
<1>0. TypeInv /\ Course /\ InTurn /\ Sessions /\ Permanence
  BY DEF DialectInv
<1>1. /\ stage[t] = "open" /\ promise[t] = "pending" /\ (t = "a" => stage["n"] # "open")
      /\ (t = "n" => stage["a"] = "open") /\ c \in Conn
  BY ReadyIs DEF Write, ConnOf, Conn
<1>2. /\ RootOf(t) \in Roots /\ ConnOf(RootOf(t)) = c /\ stage[RootOf(t)] = "open" /\ promise[RootOf(t)] = "pending"
  BY <1>0, <1>1 DEF RootOf, Roots, ConnOf, Trx, Course
<1>3. /\ UNCHANGED <<dialect, stage, promise, completed, acknowledged, over, session, durable, misrouted,
                      implicit, undone, isTransaction, held, lost>>
      /\ made' = [made EXCEPT ![t] = @ + 1]
      /\ EnqueueRequest(r, lost) /\ orphaned' = orphaned \cup Orphans
  BY DEF Write
<1>4. r \in Request /\ made' \in [Trx -> Nat] /\ r.conn = c /\ r.trx = t /\ r.write[1] = t
  BY <1>0, <1>1, <1>3 DEF TypeInv, Request, Writing
<1> HIDE DEF r
<1>5. Append(requestQueue, r) \in Seq(Request) /\ ToSet(Append(requestQueue, r)) = ToSet(requestQueue) \cup {r}
  <2> DEFINE q == Append(requestQueue, r)
  <2>1. requestQueue \in Seq(Request) /\ r \in Request
    BY <1>0, <1>4 DEF TypeInv
  <2>2. /\ q \in Seq(Request) /\ DOMAIN q = DOMAIN requestQueue \cup {Len(requestQueue) + 1}
        /\ q[Len(requestQueue) + 1] = r /\ \A i \in DOMAIN requestQueue : q[i] = requestQueue[i]
    BY <2>1
  <2> HIDE DEF q
  <2>3. ToSet(q) = ToSet(requestQueue) \cup {r}
    BY <2>2 DEF ToSet
  <2> QED BY <2>2, <2>3 DEF q
<1>6. /\ requestQueue' \in Seq(Request) /\ ToSet(requestQueue') \subseteq ToSet(requestQueue) \cup {r}
      /\ \E q \in {Idle, running[c]} \cup ToSet(requestQueue) \cup {r} : running' = [running EXCEPT ![c] = q]
      /\ running[c] # Idle \/ c \in lost => running' = running
  <2>1. CASE LoggedIn(c, lost)
    <3>1. Chomp(Append(requestQueue, r), c)
      BY <1>3, <1>4, <2>1 DEF EnqueueRequest
    <3>2. /\ requestQueue' \in Seq(Request) /\ ToSet(requestQueue') \subseteq ToSet(Append(requestQueue, r))
          /\ \E q \in {Idle} \cup ToSet(Append(requestQueue, r)) : running' = [running EXCEPT ![c] = q]
      BY <1>0, <1>1, <1>5, <3>1, ChompTakes
    <3> QED BY <1>5, <2>1, <3>2 DEF LoggedIn
  <2>2. CASE ~LoggedIn(c, lost)
    <3>1. requestQueue' = Append(requestQueue, r) /\ running' = running
      BY <1>3, <1>4, <2>2 DEF EnqueueRequest
    <3>2. running' = [running EXCEPT ![c] = running[c]]
      BY <1>0, <1>1, <3>1 DEF TypeInv
    <3> QED BY <1>5, <3>1, <3>2
  <2> QED BY <2>1, <2>2
<1>7. TypeInv'
  <2>1. orphaned' \in SUBSET Writing
    BY <1>0, <1>3, <1>6, OrphansAre DEF TypeInv
  <2>2. running' \in [Conn -> Request \cup {Idle}]
    BY <1>0, <1>1, <1>4, <1>6, QueuedAre DEF TypeInv
  <2> QED BY <1>0, <1>3, <1>4, <1>6, <2>1, <2>2 DEF TypeInv
<1>8. Ran(c, {})
  <2>1. /\ Discarded' <=> Discarded
        /\ dialect # "redshift"
    BY <1>3 DEF Discarded
  <2>2. TopOf(c) = RootOf(t) /\ promise[TopOf(c)] \notin Good
    BY <1>1, <1>2, Tops DEF Good
  <2>3. s \in SessionState /\ session' = [session EXCEPT ![c] = session'[c]] /\ session'[c] = s
    BY <1>0, <1>1, <1>3 DEF TypeInv
  <2>4. /\ (s.owner = "none" => s.writes = {} /\ s.marks = <<>>) /\ (c \in lost => s.owner = "none")
        /\ c \in implicit /\ dialect = "mssql" => s.owner = "none"
    BY <1>0, <1>2 DEF Sessions, SessionOf
  <2>5. s.marks # <<>> => s.marks[1].before \subseteq s.writes
    BY <1>0, <1>1 DEF Sessions, Savepoints, Conn
  <2> QED BY <1>3, <2>1, <2>2, <2>3, <2>4, <2>5 DEF Ran
<1>9. Moved(c, {r})
  <2>1. /\ OfItsTransaction(r)
        /\ r.trx = "a" => stage["n"] # "open"
        /\ r.trx = "n" => promise["n"] # "rolledback"
        /\ promise[RootOf(r.trx)] \notin Good
    BY <1>1, <1>2, <1>4 DEF OfItsTransaction, Good
  <2>2. /\ running'[c] \in {Idle, running[c]} \cup ToSet(requestQueue) \cup {r}
        /\ \A d \in Conn : d # c => running'[d] = running[d]
    BY <1>0, <1>1, <1>6 DEF TypeInv
  <2>3. ASSUME running'[c] # Idle
        PROVE  /\ c \notin lost /\ (s.owner # "none" \/ c \in implicit)
               /\ promise[TopOf(c)] \notin Good
    <3>1. c \notin lost
      BY <1>0, <1>1, <1>6, <2>3 DEF InTurn
    <3>2. s.owner # "none" \/ c \in implicit
      BY <1>0, <1>2, <3>1 DEF Sessions, SessionOf, Roots
    <3> QED BY <1>1, <1>2, <3>1, <3>2, Tops DEF Good
  <2> QED BY <1>3, <1>4, <1>6, <2>1, <2>2, <2>3 DEF Moved
<1> QED BY <1>1, <1>7, <1>8, <1>9, RanKeeps

LEMMA CompleteKeeps ==
  ASSUME DialectInv, NEW c \in Conn, Complete(c)
  PROVE  DialectInv'
<1> DEFINE s == session[c]
<1>0. TypeInv /\ Course /\ InTurn /\ Sessions /\ Permanence
  BY DEF DialectInv
<1>1. /\ running[c] # Idle /\ dialect = "mssql" /\ s \in SessionState
      /\ c \notin lost /\ (s.owner # "none" \/ c \in implicit)
  BY <1>0 DEF Complete, InTurn, TypeInv
<1>2. PICK r \in Request : r = running[c] /\ OfItsTransaction(r)
  BY <1>0, <1>1, QueuedAre DEF InTurn
<1>3. PICK ok \in BOOLEAN : Executed(c, r.trx, r.write, ok) /\ RequestCompleted(c, ok)
  BY <1>2 DEF Complete
<1>4. /\ UNCHANGED <<dialect, stage, promise, completed, made, over, isTransaction, held, lost>>
      /\ misrouted' = IF c # r.conn THEN misrouted \cup {r.write} ELSE misrouted
      /\ orphaned' = orphaned \cup Orphans
  BY <1>2 DEF Complete
<1>5. PICK new : new = IF ok THEN {r.write} ELSE {}
  OBVIOUS
<1>6. r.write \in Writing /\ new \subseteq Writing /\ \A w \in new : w = r.write
  BY <1>2, <1>5 DEF Request
<1>13. /\ s.owner = "none" => s.writes = {} /\ s.marks = <<>>
       /\ c \in implicit => s.owner = "none"
       /\ s.owner # "none" => stage[TopOf(c)] # "none"
  BY <1>0, <1>1, Tops DEF Sessions, SessionOf
<1>7. PICK z \in SessionState : Wrote(c, s, z, new, ok)
  <2>1. s.owner = "none" => s.writes = {} /\ s.marks = <<>>
    BY <1>13
  <2>2. PICK t : t = r.trx
    OBVIOUS
  <2>3. PICK w \in Writing : w = r.write
    BY <1>6
  <2>4. Executed(c, t, w, ok) /\ new = IF ok THEN {w} ELSE {}
    BY <1>3, <1>5, <2>2, <2>3
  <2> QED BY <1>0, <2>1, <2>4, ExecutedDoes, Zenon
<1>8. /\ requestQueue' \in Seq(Request) /\ ToSet(requestQueue') \subseteq ToSet(requestQueue)
      /\ \E q \in {Idle} \cup ToSet(requestQueue) : running' = [running EXCEPT ![c] = q]
  <2>1. CASE ok
    <3>1. Chomp(requestQueue, c) /\ requestQueue \in Seq(Request)
      BY <1>0, <1>3, <2>1 DEF RequestCompleted, TypeInv
    <3> QED BY <1>0, <3>1, ChompTakes
  <2>2. CASE ~ok
    BY <1>0, <1>3, <2>2 DEF RequestCompleted, TypeInv
  <2> QED BY <2>1, <2>2
<1>9. promise[TopOf(c)] \in Good => c \in implicit
  BY <1>0, <1>1, Tops DEF InTurn
<1>10. TypeInv'
  <2>1. orphaned' \in SUBSET Writing /\ misrouted' \in SUBSET Writing
    BY <1>0, <1>4, <1>6, <1>8, OrphansAre DEF TypeInv
  <2>2. running' \in [Conn -> Request \cup {Idle}]
    BY <1>0, <1>8, QueuedAre DEF TypeInv
  <2>3. /\ acknowledged' \in SUBSET Writing /\ durable' \in SUBSET Writing
        /\ undone' \in SUBSET Writing /\ implicit' \in SUBSET Conn
    BY <1>0, <1>1, <1>6, <1>7 DEF TypeInv, SessionState, Wrote
  <2>4. session' \in [Conn -> SessionState]
    BY <1>0, <1>7 DEF TypeInv, Wrote
  <2> QED BY <1>0, <1>4, <1>8, <2>1, <2>2, <2>3, <2>4 DEF TypeInv
<1>11. Ran(c, new)
  <2>1. /\ implicit \subseteq implicit' /\ implicit' \subseteq implicit \cup {c} /\ undone \subseteq undone'
        /\ implicit' # implicit => s.owner # "none" /\ z.owner = "none" /\ new = {}
    BY <1>5, <1>7 DEF Wrote
  <2>2. \A w \in new :
            /\ stage[w[1]] # "none"
            /\ w \in misrouted' \/ ConnOf(w[1]) = c
            /\ w \notin misrouted' \cup orphaned' =>
                 /\ w[1] = "a" => stage["n"] # "open"
                 /\ \/ /\ w[1] = "n" => promise["n"] # "rolledback"
                       /\ promise[RootOf(w[1])] \notin Good
                    \/ c \in implicit' /\ w \in durable' \cup undone'
    <3>1. /\ r.write[1] = r.trx /\ stage[r.trx] # "none" /\ r.trx \in Trx
          /\ r.write \in misrouted' \/ ConnOf(r.trx) = c
      BY <1>2, <1>4 DEF OfItsTransaction, Request
    <3>2. ASSUME r.write \notin misrouted' \cup orphaned'
          PROVE  /\ r.trx = "a" => stage["n"] # "open"
                 /\ c \notin implicit => /\ r.trx = "n" => promise["n"] # "rolledback"
                                         /\ promise[RootOf(r.trx)] \notin Good
      <4>1. r.conn = c /\ r.write \notin orphaned
        BY <1>4, <3>2
      <4>2. ~Over(r.trx)
        BY <1>1, <1>2, <4>1 DEF Over
      <4>3. r.trx = "a" => stage["n"] # "open"
        BY <1>0, <4>2 DEF InTurn
      <4>4. r.trx = "n" => ConnOf(r.trx) = "c1"
        BY DEF ConnOf
      <4>5. ConnOf(r.trx) = c
        BY <1>2, <4>1 DEF OfItsTransaction
      <4>6. c \notin implicit /\ r.trx = "n" => promise["n"] # "rolledback"
        BY <1>0, <4>2, <4>4, <4>5 DEF InTurn
      <4>7. c \notin implicit => promise[RootOf(r.trx)] \notin Good
        BY <1>0, <3>1, <4>2, <4>5 DEF InTurn, RootOf, Roots, Trx, ConnOf
      <4> QED BY <4>3, <4>6, <4>7
    <3>3. c \in implicit => new \subseteq durable' \cup undone'
      <4>1. c \in implicit => z.owner = "none" /\ z.writes = {}
        BY <1>1, <1>7, <1>13 DEF Wrote
      <4> QED BY <1>7, <4>1 DEF Wrote
    <3> QED BY <1>6, <2>1, <3>1, <3>2, <3>3
  <2>3. /\ Discarded => Discarded'
        /\ ~(dialect = "redshift")
    BY <1>1 DEF Discarded
  <2>4. durable' = durable \/ c \in implicit'
    BY <1>1, <1>7, <2>1 DEF Wrote
  <2>5. \/ z.marks = s.marks /\ (z.marks # <<>> => z.marks[1].before \subseteq z.writes)
        \/ z.marks = <<>> /\ c \in implicit'
    <3>1. s.marks # <<>> => s.marks[1].before \subseteq s.writes
      BY <1>0 DEF Sessions, Savepoints, Conn
    <3> QED BY <1>1, <1>7, <3>1 DEF Wrote
  <2>6. z.aborted => s.aborted
    BY <1>1, <1>7 DEF Wrote
  <2>7. /\ z.owner = s.owner \/ (z.owner = "none" /\ c \in implicit')
        /\ z.owner = "none" => z.writes = {} /\ z.marks = <<>>
    BY <1>1, <1>7 DEF Wrote
  <2>8. c \in implicit' => z.owner = "none"
    BY <1>13, <2>1, <2>7
  <2>9. promise[TopOf(c)] \in Good => z.writes = {} /\ z.owner = "none"
    BY <1>9, <2>1, <2>7, <2>8
  <2>10. /\ session' = [session EXCEPT ![c] = z] /\ session'[c] = z /\ acknowledged' = acknowledged \cup new
         /\ durable \subseteq durable' /\ durable' \subseteq durable \cup s.writes \cup new
         /\ z.writes \subseteq s.writes \cup new
         /\ s.writes \cup new \subseteq durable' \cup z.writes \cup undone'
    BY <1>7 DEF Wrote
  <2>11. implicit' # implicit => stage[TopOf(c)] # "none"
    BY <1>13, <2>1
  <2>12. misrouted \subseteq misrouted' /\ orphaned \subseteq orphaned'
    BY <1>4
  <2> QED BY <1>1, <1>4, <1>6, <2>1, <2>2, <2>3, <2>4, <2>5, <2>6, <2>7, <2>8, <2>9, <2>10, <2>11, <2>12
             DEF Ran
<1>12. Moved(c, {})
  <2>1. /\ running'[c] \in {Idle} \cup ToSet(requestQueue)
        /\ \A d \in Conn : d # c => running'[d] = running[d]
    BY <1>0, <1>8 DEF TypeInv
  <2>2. /\ session'[c].owner # "none" \/ c \in implicit'
        /\ implicit \subseteq implicit' /\ \A d \in Conn : d # c => session'[d] = session[d]
    BY <1>0, <1>1, <1>7 DEF Wrote, TypeInv
  <2> QED BY <1>1, <1>4, <1>8, <1>9, <2>1, <2>2 DEF Moved
<1> QED BY <1>10, <1>11, <1>12, RanKeeps

-----------------------------------------------------------------------------
(* Ending again *)

\* What a second end leaves of the session on the connection of t.
LEMMA AgainKeeps ==
  ASSUME DialectInv, NEW t \in Trx, stage[t] = "left", NotHeard, over' = over \cup {t},
         NEW flag \in BOOLEAN, Completed(t, flag), NEW z \in SessionState,
         session' = [session EXCEPT ![ConnOf(t)] = z],
         z.writes \subseteq session[ConnOf(t)].writes,
         z.owner = "none" => z.writes = {} /\ z.marks = <<>>,
         ConnOf(t) \in lost => z.owner = "none",
         ConnOf(t) \in implicit /\ dialect = "mssql" => z.owner = "none",
         z.aborted => session[ConnOf(t)].aborted,
         running[ConnOf(t)] # Idle => z = session[ConnOf(t)],
         \/ z.owner = session[ConnOf(t)].owner
         \/ t \in Roots /\ (z.owner = "none" \/ (z.owner = "a" /\ t = "a" /\ dialect = "oracledb")),
         \/ /\ z.marks = session[ConnOf(t)].marks
            /\ z.marks # <<>> => z.marks[1].before \subseteq z.writes
         \/ z.marks = <<>> /\ t \in Roots,
         durable \subseteq durable', durable' \subseteq durable \cup session[ConnOf(t)].writes,
         durable' = durable \/ (t \in Roots /\ promise[t] = "failed"),
         undone \subseteq undone', undone' \subseteq undone \cup session[ConnOf(t)].writes,
         session[ConnOf(t)].writes \subseteq durable' \cup z.writes \cup undone',
         promise[TopOf(ConnOf(t))] \in Good /\ ConnOf(t) \notin lost =>
           z.writes = {} /\ (dialect # "oracledb" => z.owner = "none")
  PROVE  DialectInv'
<1> DEFINE c == ConnOf(t)
           s == session[c]
<1>0. TypeInv /\ Course /\ InTurn /\ Sessions /\ Permanence
  BY DEF DialectInv
<1>1. /\ c \in Conn /\ TopOf(c) \in Roots /\ ConnOf(TopOf(c)) = c
      /\ t \in Roots => t = TopOf(c)
      /\ c = "c1" => TopOf(c) = "a"
      /\ t = "a" => stage["n"] # "open"
  BY <1>0, Tops DEF ConnOf, Conn, TopOf, Course
<1>2. /\ UNCHANGED <<dialect, stage, promise, made, acknowledged, misrouted, orphaned, implicit, isTransaction,
                      held, lost, requestQueue, running>>
      /\ session'[c] = z /\ \A d \in Conn : d # c => session'[d] = session[d]
  BY <1>0, <1>1 DEF NotHeard, TypeInv
<1>3. TypeInv'
  <2>1. /\ completed' \in [Trx -> BOOLEAN] /\ over' \in SUBSET Trx
        /\ durable' \in SUBSET Writing /\ undone' \in SUBSET Writing
    BY <1>0, <1>1 DEF TypeInv, Completed, SessionState
  <2>2. session' \in [Conn -> SessionState]
    BY <1>0, <1>1 DEF TypeInv
  <2> QED BY <1>0, <1>2, <2>1, <2>2 DEF TypeInv
<1>4. Orphans \subseteq orphaned
  <2>1. \A r \in ToSet(requestQueue) : Waiting(r)
    BY <1>0 DEF InTurn
  <2> QED BY <1>2, <2>1 DEF Orphans, Waiting
<1>6. Ran(c, {})
  <2>1. /\ Discarded' <=> Discarded
        /\ dialect = "redshift" => IsFiniteSet(acknowledged') /\ Cardinality(acknowledged') <= made'["a"]
    BY <1>0, <1>2 DEF Discarded, Sessions, Aborts
  <2>2. \/ z.owner = s.owner
        \/ z.owner = "a" /\ c = "c1" /\ stage["a"] # "none" /\ dialect = "oracledb"
        \/ z.owner = "none" /\ stage[TopOf(c)] = "left"
    BY <1>1 DEF ConnOf
  <2>3. \/ z.marks = s.marks /\ (z.marks # <<>> => z.marks[1].before \subseteq z.writes)
        \/ z.marks = <<>> /\ stage["n"] # "open"
    <3>1. CASE t = "a"
      BY <1>1, <3>1
    <3>2. CASE t # "a"
      <4>1. t = "b" => s.marks = <<>>
        BY <1>0 DEF Sessions, Savepoints, ConnOf
      <4> QED BY <3>2, <4>1 DEF Roots
    <3> QED BY <3>1, <3>2
  <2>4. durable' = durable \/ promise[TopOf(c)] = "failed"
    BY <1>1
  <2> QED BY <1>1, <1>2, <2>1, <2>2, <2>3, <2>4 DEF Ran
<1>7. Moved(c, {})
  <2>1. orphaned' = orphaned \cup Orphans
    BY <1>2, <1>4
  <2>2. running'[c] # Idle =>
         /\ c \notin lost' /\ (session'[c].owner # "none" \/ c \in implicit')
         /\ c \in implicit' \/ promise[TopOf(c)] \notin Good
    BY <1>0, <1>1, <1>2 DEF InTurn
  <2> QED BY <1>2, <2>1, <2>2 DEF Moved
<1> QED BY <1>1, <1>3, <1>6, <1>7, RanKeeps

\* What is known of the connection of a transaction that is over.
LEMMA AroundLeft ==
  ASSUME DialectInv, NEW t \in Trx, stage[t] = "left"
  PROVE  LET s == session[ConnOf(t)]
         IN /\ ConnOf(t) \in Conn /\ s \in SessionState /\ session \in [Conn -> SessionState]
            /\ s.owner = "none" => s.writes = {} /\ s.marks = <<>>
            /\ s.marks # <<>> => /\ s.marks[1].before \subseteq s.writes
                                 /\ Len(s.marks) = 1 /\ s.marks[1].sp = "n"
            /\ ConnOf(t) \in lost => s.owner = "none"
            /\ ConnOf(t) \in implicit /\ dialect = "mssql" => s.owner = "none"
            /\ s.aborted => dialect = "redshift"
            /\ promise[TopOf(ConnOf(t))] \in Good /\ ConnOf(t) \notin lost =>
                 s.writes = {} /\ (dialect # "oracledb" => s.owner = "none")
            /\ dialect = "oracledb" => t # "b"
            /\ promise[t] = "pending" => dialect = "oracledb" /\ t = "a" /\ "c1" \in lost
            /\ t \notin Roots => t = "n"
<1>0. TypeInv /\ Course /\ InTurn /\ Sessions /\ Permanence
  BY DEF DialectInv
<1>1. /\ ConnOf(t) \in Conn /\ TopOf(ConnOf(t)) \in Roots /\ ConnOf(TopOf(ConnOf(t))) = ConnOf(t)
      /\ ConnOf(t) \in {"c1", "c2"}
  BY Tops DEF ConnOf, Conn
<1>2. SessionOf(TopOf(ConnOf(t)))
  BY <1>0, <1>1 DEF Sessions
<1>3. session[ConnOf(t)].marks # <<>> =>
        /\ session[ConnOf(t)].marks[1].before \subseteq session[ConnOf(t)].writes
        /\ Len(session[ConnOf(t)].marks) = 1 /\ session[ConnOf(t)].marks[1].sp = "n"
  BY <1>0, <1>1 DEF Sessions, Savepoints
<1>4. session[ConnOf(t)].aborted => dialect = "redshift"
  BY <1>0, <1>1 DEF Sessions, Aborts, Discarded
<1>5. promise[TopOf(ConnOf(t))] \in Good /\ ConnOf(t) \notin lost =>
        /\ session[ConnOf(t)].writes = {}
        /\ dialect # "oracledb" => session[ConnOf(t)].owner = "none"
  BY <1>0, <1>1 DEF Permanence, ReturnedClean, Roots, Good
<1>6. promise[t] = "pending" => dialect = "oracledb" /\ t = "a" /\ "c1" \in lost
  BY <1>0 DEF Course, Trx, ConnOf
<1> QED BY <1>0, <1>1, <1>2, <1>3, <1>4, <1>5, <1>6 DEF SessionOf, TypeInv, Course, Roots, Trx

\* The session a new transaction of Oracle begins with, or none.
LEMMA EmptiedIs ==
  ASSUME TypeInv, NEW c \in Conn, dialect = "oracledb" => c = "c1"
  PROVE  \E z \in SessionState :
           /\ Emptied(c) = [session EXCEPT ![c] = z]
           /\ z.writes = {} /\ z.marks = <<>> /\ ~z.aborted
           /\ z.owner = IF dialect = "oracledb" THEN "a" ELSE "none"
<1>1. PICK e \in SessionState : e = [S!IdleSession EXCEPT !.owner = "a"]
  BY IdleIs DEF SessionState
<1>2. e.owner = "a" /\ e.writes = {} /\ e.marks = <<>> /\ ~e.aborted
  BY <1>1, IdleIs DEF SessionState
<1>3. dialect = "oracledb" => Emptied(c) = [session EXCEPT ![c] = e]
  BY <1>1 DEF Emptied, Recommenced, S!Began
<1>4. dialect # "oracledb" => Emptied(c) = [session EXCEPT ![c] = S!IdleSession]
  BY DEF Emptied
<1> QED BY <1>2, <1>3, <1>4, IdleIs

\* A rollback to the savepoint keeps what was written before it was set.
LEMMA BackTo ==
  ASSUME TypeInv, NEW s \in SessionState,
         s.marks # <<>> => /\ s.marks[1].before \subseteq s.writes
                           /\ Len(s.marks) = 1 /\ s.marks[1].sp = "n",
         S!CanRun(s, "rollbackTo", "n")
  PROVE  /\ s.marks # <<>>
         /\ \E z \in SessionState :
              /\ S!AfterSuccess(s, "rollbackTo", "n") = z
              /\ z.owner = s.owner /\ z.writes = s.marks[1].before /\ ~z.aborted /\ z.marks = s.marks
<1>1. /\ S!AfterSuccess(s, "rollbackTo", "n") =
              [s EXCEPT !.aborted = FALSE,
                        !.writes  = s.marks[S!MarkOf(s, "n")].before,
                        !.marks   = SubSeq(s.marks, 1, S!MarkOf(s, "n"))]
      /\ S!HasMark(s, "n")
  BY SuccessNested, Zenon
<1>2. /\ S!HasMark(s, "n") <=> s.marks # <<>>
      /\ s.marks # <<>> => /\ S!MarkOf(s, "n") = 1 /\ SubSeq(s.marks, 1, S!MarkOf(s, "n")) = s.marks
                           /\ s.marks[1] \in Mark
  BY OneMark, Zenon
<1>3. S!AfterSuccess(s, "rollbackTo", "n") =
        [s EXCEPT !.aborted = FALSE, !.writes = s.marks[1].before, !.marks = s.marks]
  BY <1>1, <1>2, Zenon
<1>4. s.marks # <<>> /\ s.marks[1] \in Mark
  BY <1>1, <1>2, Zenon
<1>5. PICK z \in SessionState : z = [s EXCEPT !.aborted = FALSE, !.writes = s.marks[1].before, !.marks = s.marks]
  BY <1>4 DEF SessionState, Mark
<1>6. z.owner = s.owner /\ z.writes = s.marks[1].before /\ ~z.aborted /\ z.marks = s.marks
  BY <1>5 DEF SessionState
<1> QED BY <1>3, <1>4, <1>5, <1>6, Zenon

LEMMA CommitAgainKeeps ==
  ASSUME DialectInv, NEW t \in Trx, EndAgain(t), promise[t] # "pending", CommitAgain(t)
  PROVE  DialectInv'
<1> DEFINE c == ConnOf(t)
           s == session[c]
<1>0. TypeInv /\ stage[t] = "left" /\ over' = over \cup {t} /\ dialect \in {"oracledb", "mssql"}
  BY DEF DialectInv, EndAgain
<1>1. PICK ok \in IF Nested(t) THEN {FALSE} ELSE Outcomes(c, "commit", t) :
        /\ Completed(t, ok \/ (dialect = "oracledb" /\ ~Nested(t)))
        /\ session' = IF ok THEN Emptied(c) ELSE session
        /\ durable' = MadeDurable(c, "commit", t, ok)
  BY DEF CommitAgain
<1>2. NotHeard /\ undone' = undone /\ (ok \/ (dialect = "oracledb" /\ ~Nested(t))) \in BOOLEAN
  BY DEF CommitAgain
<1>3. /\ c \in Conn /\ s \in SessionState /\ (s.owner = "none" => s.writes = {} /\ s.marks = <<>>)
      /\ s.marks # <<>> => s.marks[1].before \subseteq s.writes
      /\ c \in lost => s.owner = "none"
      /\ c \in implicit /\ dialect = "mssql" => s.owner = "none"
      /\ promise[TopOf(c)] \in Good /\ c \notin lost =>
           s.writes = {} /\ (dialect # "oracledb" => s.owner = "none")
      /\ dialect = "oracledb" => t # "b"
      /\ ~s.aborted
  BY <1>0, AroundLeft
<1>4. CASE ~ok
  <2>1. session' = [session EXCEPT ![c] = s] /\ durable' = durable
    BY <1>0, <1>1, <1>3, <1>4 DEF TypeInv, MadeDurable
  <2> QED BY <1>0, <1>1, <1>2, <1>3, <2>1, AgainKeeps
<1>5. CASE ok
  <2>1. ~Nested(t) /\ t \in Roots
    BY <1>1, <1>5 DEF Nested, Roots, Trx
  <2>2. /\ c \notin lost /\ running[c] = Idle
        /\ dialect = "mssql" => s.owner # "none"
    BY <1>1, <1>3, <1>5, <2>1, OutcomesAre
  <2>3. dialect = "oracledb" => c = "c1" /\ t = "a"
    BY <1>3, <2>1 DEF ConnOf, Roots
  <2>4. PICK z \in SessionState :
           /\ Emptied(c) = [session EXCEPT ![c] = z]
           /\ z.writes = {} /\ z.marks = <<>> /\ ~z.aborted
           /\ z.owner = IF dialect = "oracledb" THEN "a" ELSE "none"
    BY <1>0, <1>3, <2>3, EmptiedIs
  <2>5. durable' = durable \cup s.writes
    BY <1>1, <1>3, <1>5, <2>1, Success DEF MadeDurable
  <2>6. t = TopOf(c) /\ (promise[t] \in Good => s.writes = {})
    BY <1>3, <2>1, <2>2, Tops
  <2>7. promise[t] \notin Good => promise[t] = "failed"
    BY <1>0 DEF TypeInv, Good
  <2>8. durable' = durable \/ promise[t] = "failed"
    BY <2>5, <2>6, <2>7
  <2>9. session' = [session EXCEPT ![c] = z]
    BY <1>1, <1>5, <2>4
  <2> QED BY <1>0, <1>1, <1>2, <1>3, <2>1, <2>2, <2>3, <2>4, <2>5, <2>8, <2>9, AgainKeeps
<1>6. ok \in BOOLEAN
  BY <1>1, <1>3, OutcomesAre
<1> QED BY <1>4, <1>5, <1>6

LEMMA RollbackAgainKeeps ==
  ASSUME DialectInv, NEW t \in Trx, EndAgain(t), RollbackAgain(t)
  PROVE  DialectInv'
<1> DEFINE c == ConnOf(t)
           s == session[c]
           kind == IF Nested(t) THEN "rollbackTo" ELSE "rollback"
           refused == IF dialect = "mssql" THEN NothingToRollBack(t) ELSE Nested(t) /\ IsCompleted(t)
<1>0. TypeInv /\ stage[t] = "left" /\ over' = over \cup {t} /\ dialect \in {"oracledb", "mssql"}
  BY DEF DialectInv, EndAgain
<1>1. PICK ok \in IF refused THEN {FALSE} ELSE Outcomes(c, kind, t) :
        \/ ~ok /\ UNCHANGED session
        \/ ok /\ Nested(t) /\ session' = After(c, kind, t, ok)
        \/ ok /\ ~Nested(t) /\ session' = Emptied(c)
  BY DEF RollbackAgain
<1>2. /\ NotHeard /\ durable' = durable /\ Completed(t, TRUE)
      /\ undone' = undone \cup (s.writes \ session'[c].writes)
  BY DEF RollbackAgain
<1>3. /\ c \in Conn /\ s \in SessionState /\ (s.owner = "none" => s.writes = {} /\ s.marks = <<>>)
      /\ s.marks # <<>> => /\ s.marks[1].before \subseteq s.writes
                           /\ Len(s.marks) = 1 /\ s.marks[1].sp = "n"
      /\ c \in lost => s.owner = "none"
      /\ c \in implicit /\ dialect = "mssql" => s.owner = "none"
      /\ promise[TopOf(c)] \in Good /\ c \notin lost =>
           s.writes = {} /\ (dialect # "oracledb" => s.owner = "none")
      /\ dialect = "oracledb" => t # "b"
      /\ Nested(t) <=> t = "n"
      /\ t # "n" => t \in Roots
  BY <1>0, AroundLeft DEF Nested, Roots, Trx
<1>7. ok => c \notin lost /\ running[c] = Idle /\ S!CanRun(s, kind, t)
  BY <1>1, <1>3, OutcomesAre
<1>4. CASE ~ok
  <2>1. session' = session /\ session = [session EXCEPT ![c] = s]
    BY <1>0, <1>1, <1>4 DEF TypeInv
  <2>2. undone' = undone
    <3>1. s \ s = {}
      OBVIOUS
    <3> QED BY <1>2, <2>1, <3>1
  <2> QED BY <1>0, <1>2, <1>3, <2>1, <2>2, AgainKeeps
<1>5. CASE ok /\ t = "n"
  <2>1. S!CanRun(s, "rollbackTo", "n") /\ c \notin lost /\ running[c] = Idle
    BY <1>3, <1>5, <1>7
  <2>2. PICK z \in SessionState :
          /\ S!AfterSuccess(s, "rollbackTo", "n") = z
          /\ z.owner = s.owner /\ z.writes = s.marks[1].before /\ ~z.aborted /\ z.marks = s.marks
    BY <1>0, <1>3, <2>1, BackTo
  <2>3. s.marks # <<>>
    BY <1>0, <1>3, <2>1, BackTo
  <2>4. session' = [session EXCEPT ![c] = z] /\ session'[c] = z
    BY <1>0, <1>1, <1>3, <1>5, <2>2 DEF After, TypeInv
  <2>5. z.writes \subseteq s.writes /\ z.owner # "none"
    BY <1>3, <2>2, <2>3
  <2> QED BY <1>0, <1>2, <1>3, <2>1, <2>2, <2>4, <2>5, AgainKeeps
<1>6. CASE ok /\ t # "n"
  <2>1. dialect = "oracledb" => c = "c1" /\ t = "a"
    BY <1>3, <1>6 DEF ConnOf, Roots
  <2>2. PICK z \in SessionState :
           /\ Emptied(c) = [session EXCEPT ![c] = z]
           /\ z.writes = {} /\ z.marks = <<>> /\ ~z.aborted
           /\ z.owner = IF dialect = "oracledb" THEN "a" ELSE "none"
    BY <1>0, <1>3, <2>1, EmptiedIs
  <2>3. session' = [session EXCEPT ![c] = z] /\ session'[c] = z
    BY <1>0, <1>1, <1>3, <1>6, <2>2 DEF TypeInv
  <2> QED BY <1>0, <1>2, <1>3, <1>6, <1>7, <2>1, <2>2, <2>3, AgainKeeps
<1>8. ok \in BOOLEAN
  BY <1>1, <1>3, OutcomesAre
<1> QED BY <1>4, <1>5, <1>6, <1>8

\* Oracle: a commit rejects what a rollback without a connection left pending.
LEMMA LateCommitFails ==
  ASSUME DialectInv, NEW t \in Trx, EndAgain(t), promise[t] = "pending", CommitTransaction(t), UNCHANGED undone
  PROVE  Ended(t, "failed")
<1> DEFINE s == session["c1"]
<1>0. /\ TypeInv /\ stage[t] = "left" /\ over' = over \cup {t}
      /\ Course
  BY DEF DialectInv, EndAgain
<1>1. /\ dialect = "oracledb" /\ t = "a" /\ "c1" \in lost /\ ConnOf(t) = "c1" /\ "c1" \in Conn
      /\ s \in SessionState /\ s.owner = "none" /\ s.writes = {} /\ s.marks = <<>>
  BY <1>0, AroundLeft DEF ConnOf
<1>2. PICK ok \in Outcomes("c1", "commit", t) :
         /\ Completed(t, ok \/ dialect = "oracledb")
         /\ Settle(t, IF ok THEN "committed" ELSE "failed",
                   After("c1", "commit", t, ok), MadeDurable("c1", "commit", t, ok))
  BY <1>1 DEF CommitTransaction
<1>3. ok = FALSE
  BY <1>1, <1>2, OutcomesAre
<1>4. After("c1", "commit", t, FALSE) = [session EXCEPT !["c1"] = S!AfterFailure(s, "commit")]
  BY DEF After
<1>5. S!AfterFailure(s, "commit") = s
  <2>1. S!AfterFailure(s, "commit") =
           IF "commit" = "commit" /\ dialect = "redshift" THEN S!IdleSession
           ELSE [s EXCEPT !.aborted = @ \/ (dialect = "redshift" /\ s.owner # "none")]
    BY <1>1, Failure
  <2>2. s.aborted \in BOOLEAN /\ [s EXCEPT !.aborted = s.aborted] = s
    BY <1>1 DEF SessionState
  <2> QED BY <1>1, <2>1, <2>2
<1>6. MadeDurable("c1", "commit", t, FALSE) = durable
  BY DEF MadeDurable
<1>7. Ends(t, "failed", s, durable)
  BY <1>1 DEF Ends, Good, RootOf
<1>8. Settle(t, "failed", [session EXCEPT !["c1"] = s], durable) /\ Completed(t, TRUE)
  BY <1>1, <1>2, <1>3, <1>4, <1>5, <1>6
<1>9. stage["n"] # "open"
  BY <1>0, <1>1 DEF Course
<1> QED BY <1>0, <1>1, <1>7, <1>8, <1>9, Concluded

LEMMA EndAgainKeeps ==
  ASSUME DialectInv, NEW t \in Trx, EndAgain(t)
  PROVE  DialectInv'
<1>1. \/ promise[t] = "pending" /\ CommitTransaction(t) /\ UNCHANGED undone
      \/ promise[t] # "pending" /\ CommitAgain(t)
      \/ RollbackAgain(t)
  BY DEF EndAgain
<1> QED BY <1>1, LateCommitFails, EndedKeeps, CommitAgainKeeps, RollbackAgainKeeps

\* Oracle: what the overtaking rollback takes back is no longer promised.
LEMMA ReleaseAndRollBackEnds ==
  ASSUME DialectInv, NEW t \in Trx, ReleaseAndRollBack(t)
  PROVE  Ended(t, "committed")
<1> DEFINE s == session["c1"]
<1>0. TypeInv /\ Permanence /\ Sessions
  BY DEF DialectInv
<1>1. /\ t = "n" /\ ConnOf(t) = "c1" /\ "c1" \in Conn /\ dialect = "oracledb" /\ Ready("n")
      /\ stage["n"] = "open" /\ promise["n"] = "pending" /\ stage["a"] = "open"
      /\ over' = over \cup {t} /\ Completed(t, TRUE) /\ "n" \notin Roots
  BY ReadyIs DEF ReleaseAndRollBack, Nested, ConnOf, Conn, Roots
<1>2. PICK ok \in Outcomes("c1", "rollbackTo", "n") :
        /\ Settle(t, "committed", After("c1", "rollbackTo", "n", ok), durable)
        /\ undone' = undone \cup (s.writes \ After("c1", "rollbackTo", "n", ok)["c1"].writes)
  BY <1>1 DEF ReleaseAndRollBack
<1>3. /\ s \in SessionState /\ s.owner \in {"none", "a"} /\ running["c1"] = Idle
      /\ s.owner = "none" => s.writes = {} /\ s.marks = <<>>
      /\ s.marks # <<>> => s.marks[1].before \subseteq s.writes
      /\ "c1" \in lost => s.owner = "none"
      /\ "c1" \notin lost => Writes("a") \subseteq durable \cup s.writes
      /\ RootOf("n") = "a"
  BY <1>1, Around DEF RootOf
<1>4. CASE ~ok
  <2>1. /\ S!AfterFailure(s, "rollbackTo") = s
        /\ After("c1", "rollbackTo", "n", ok) = [session EXCEPT !["c1"] = S!AfterFailure(s, "rollbackTo")]
    <3>1. S!AfterFailure(session[ConnOf(t)], "rollbackTo") = session[ConnOf(t)]
      BY <1>1, Refused
    <3> QED BY <1>1, <1>4, <3>1 DEF After
  <2>2. Ends("n", "committed", s, durable)
    BY <1>1, <1>3 DEF Ends
  <2>3. undone' = undone
    BY <1>0, <1>1, <1>2, <2>1 DEF TypeInv
  <2> QED BY <1>1, <1>2, <2>1, <2>2, <2>3, Concluded
<1>5. CASE ok
  <2>1. "c1" \notin lost /\ S!CanRun(s, "rollbackTo", "n")
    BY <1>1, <1>2, <1>5, OutcomesAre
  <2>2. s.marks # <<>> => Len(s.marks) = 1 /\ s.marks[1].sp = "n"
    BY <1>0 DEF Sessions, Savepoints
  <2>3. /\ s.marks # <<>>
        /\ \E z \in SessionState :
             /\ S!AfterSuccess(s, "rollbackTo", "n") = z
             /\ z.owner = s.owner /\ z.writes = s.marks[1].before /\ ~z.aborted /\ z.marks = s.marks
    BY <1>0, <1>3, <2>1, <2>2, BackTo
  <2>4. PICK z \in SessionState :
          /\ S!AfterSuccess(s, "rollbackTo", "n") = z
          /\ z.owner = s.owner /\ z.writes = s.marks[1].before /\ ~z.aborted /\ z.marks = s.marks
    BY <2>3
  <2>5. After("c1", "rollbackTo", "n", ok) = [session EXCEPT !["c1"] = z]
    BY <1>5, <2>4 DEF After
  <2>6. undone' = undone \cup (s.writes \ z.writes)
    BY <1>0, <1>1, <1>2, <2>5 DEF TypeInv
  <2>7. Writes("a") \subseteq durable \cup s.marks[1].before
    BY <1>0, <1>1, <2>1, <2>3 DEF Permanence, KeptBefore
  <2>8. z.writes \subseteq s.writes /\ s.writes \subseteq z.writes \cup undone' /\ s.owner = "a"
    BY <1>3, <2>3, <2>4, <2>6
  <2>9. Ends("n", "committed", z, durable)
    BY <1>1, <1>3, <2>1, <2>3, <2>4, <2>7, <2>8 DEF Ends
  <2> QED BY <1>1, <1>2, <2>5, <2>6, <2>9, Concluded
<1>6. ok \in BOOLEAN
  BY <1>1, <1>2, OutcomesAre
<1> QED BY <1>4, <1>5, <1>6

-----------------------------------------------------------------------------
(* The invariant, and what follows *)

LEMMA DialectInit == Init => DialectInv
<1> SUFFICES ASSUME Init
             PROVE  DialectInv
  OBVIOUS
<1>1. S!IdleSession \in SessionState /\ S!IdleSession.owner = "none" /\ S!IdleSession.writes = {}
      /\ S!IdleSession.marks = <<>> /\ ~S!IdleSession.aborted
  BY IdleIs
<1>2. dialect \in {"mysql", "oracledb", "redshift", "mssql"}
  BY DialectTransactionsAssumption DEF Init
<1>3. TypeInv
  BY <1>1, <1>2 DEF Init, TypeInv
<1>4. Course
  BY DEF Init, Course, Trx
<1>5. /\ \A c \in Conn : session[c] = S!IdleSession /\ running[c] = Idle
      /\ \A t \in Trx : stage[t] = "none" /\ promise[t] = "pending" /\ made[t] = 0 /\ ConnOf(t) \in Conn
      /\ requestQueue = <<>> /\ ToSet(requestQueue) = {} /\ Roots \subseteq Trx
  BY DEF Init, ToSet, ConnOf, Conn, Roots, Trx
<1>6. InTurn
  BY <1>5 DEF InTurn, Over, Good, Trx
<1>7. Sessions
  <2>1. IsFiniteSet(acknowledged) /\ Cardinality(acknowledged) = 0 /\ acknowledged = {}
    BY FS_EmptySet DEF Init
  <2>2. \A t \in Roots : SessionOf(t)
    BY <1>1, <1>5 DEF SessionOf, Init
  <2>3. Savepoints
    BY <1>1, <1>5 DEF Savepoints, Conn, Trx
  <2>4. Aborts
    BY <1>1, <1>5, <2>1 DEF Aborts, Trx
  <2> QED BY <1>5, <2>1, <2>2, <2>3, <2>4 DEF Sessions, Trx
<1>8. Permanence
  <2>1. \A t \in Trx : Writes(t) = {}
    BY DEF Writes, Init
  <2>2. \A t \in Trx : Kept(t) /\ NotYet(t)
    BY <2>1 DEF Kept, NotYet
  <2>3. KeptBefore /\ CommittedIsKept
    BY <2>1 DEF KeptBefore, CommittedIsKept, Trx
  <2>4. RolledBackIsGone /\ ReturnedClean
    BY <1>5 DEF RolledBackIsGone, ReturnedClean, Roots
  <2> QED BY <2>2, <2>3, <2>4 DEF Permanence, Init
<1> QED BY <1>3, <1>4, <1>6, <1>7, <1>8 DEF DialectInv

LEMMA DialectSame ==
  ASSUME DialectInv, UNCHANGED vars
  PROVE  DialectInv'
<1>1. UNCHANGED <<dialect, stage, promise, completed, made, acknowledged, over, misrouted, orphaned, implicit,
                  undone, session, lost, durable, isTransaction, held, requestQueue, running>>
  BY DEF vars, program, database
<1>2. TypeInv' /\ Course'
  BY <1>1 DEF DialectInv, TypeInv, Course
<1>3. InTurn'
  BY <1>1 DEF DialectInv, InTurn, OfItsTransaction, Waiting, Over
<1>4. Sessions'
  BY <1>1 DEF DialectInv, Sessions, SessionOf, Savepoints, Aborts, Discarded
<1>5. Permanence'
  BY <1>1 DEF DialectInv, Permanence, Kept, NotYet, KeptBefore, CommittedIsKept, RolledBackIsGone,
              ReturnedClean, Writes, Lasting, NestedIsOver, Discarded
<1> QED BY <1>2, <1>3, <1>4, <1>5 DEF DialectInv

\* In whichever dialects, with any number of writes, requests, deadlocks and
\* lost connections: how far the transactions are, what the requests in the
\* queue may still do, whose the sessions are, and which writes are permanent,
\* are to be committed or are gone.  Every method of the four transaction
\* classes keeps it, also when a container calls it after the transaction was
\* ended by hand, and every step of the queue of SQL Server.
THEOREM DialectInductive == Spec => []DialectInv
<1>1. Init => DialectInv
  BY DialectInit
<1>2. DialectInv /\ [Next]_vars => DialectInv'
  <2> SUFFICES ASSUME DialectInv, [Next]_vars
               PROVE  DialectInv'
    OBVIOUS
  <2>1. ASSUME NEW t \in Trx, Begin(t)
        PROVE  DialectInv'
    BY <2>1, BeginOpens, EndedKeeps, OpenedKeeps
  <2>2. ASSUME NEW t \in Trx, Savepoint(t)
        PROVE  DialectInv'
    BY <2>2, SavepointOpens, EndedKeeps, NestedOpenedKeeps
  <2>3. ASSUME NEW t \in Trx, Write(t)
        PROVE  DialectInv'
    BY <2>3, WriteKeeps, RequestKeeps
  <2>4. ASSUME NEW t \in Trx, ImplicitCommit(t)
        PROVE  DialectInv'
    BY <2>4, ImplicitKeeps
  <2>5. ASSUME NEW t \in Trx, Commit(t)
        PROVE  DialectInv'
    BY <2>5, CommitEnds, EndedKeeps
  <2>6. ASSUME NEW t \in Trx, Rollback(t)
        PROVE  DialectInv'
    BY <2>6, RollbackEnds, EndedKeeps, ForgottenKeeps
  <2>7. ASSUME NEW c \in Conn, Complete(c)
        PROVE  DialectInv'
    BY <2>7, CompleteKeeps
  <2>8. ASSUME NEW c \in Conn, Lose(c)
        PROVE  DialectInv'
    BY <2>8, LoseKeeps
  <2>9. ASSUME NEW t \in Trx, EndAgain(t)
        PROVE  DialectInv'
    BY <2>9, EndAgainKeeps
  <2>10. ASSUME NEW t \in Trx, ReleaseAndRollBack(t)
         PROVE  DialectInv'
    BY <2>10, ReleaseAndRollBackEnds, EndedKeeps
  <2>11. CASE UNCHANGED vars
    BY <2>11, DialectSame
  <2> QED BY <2>1, <2>2, <2>3, <2>4, <2>5, <2>6, <2>7, <2>8, <2>9, <2>10, <2>11 DEF Next
<1> QED BY <1>1, <1>2, PTL DEF Spec

\* What a program wrote in transactions that all resolved is permanent: no
\* commit(), release() or query() of a dialect resolves without it, and nothing
\* that a container calls afterwards makes a difference, but for writes a
\* deadlock or such a second end took back and for Redshift's commit of a
\* transaction the server has aborted.
THEOREM CommittedStays == Spec => []CommittedIsKept
<1>1. DialectInv => CommittedIsKept
  BY DEF DialectInv, Permanence
<1> QED BY <1>1, DialectInductive, PTL

\* What was written in a transaction that was rolled back is neither permanent
\* nor left in a session that may still be committed, unless the server ended a
\* transaction by itself or Oracle's nested one has committed.
THEOREM RolledBackGoes == Spec => []RolledBackIsGone
<1>1. DialectInv => RolledBackIsGone
  BY DEF DialectInv, Permanence
<1> QED BY <1>1, DialectInductive, PTL

\* A connection goes back to the pool with no transaction open and nothing
\* uncommitted, unless its transaction failed to end, and stays so when the
\* transaction is ended again.
THEOREM ComesBackClean == Spec => []ReturnedClean
<1>1. DialectInv => ReturnedClean
  BY DEF DialectInv, Permanence
<1> QED BY <1>1, DialectInductive, PTL
=============================================================================
