---------------------------- MODULE Transaction ----------------------------
(***************************************************************************)
(* lib/execution/transaction.ts: top-level and nested transactions, the    *)
(* pool they take their connections from (lib/client.ts acquireConnection  *)
(* and releaseConnection), the connections' two-way traffic and, through   *)
(* module Session, the server at the other end.                            *)
(*                                                                         *)
(* One element of Trx is one Transaction object.  The code runs on the     *)
(* JavaScript event loop, so an action is what happens between two         *)
(* suspensions: a call of the user, a reply of the server, a timer, a      *)
(* promise settling.  Chains of promise callbacks that touch nothing       *)
(* another actor sees are folded into the action that starts them.         *)
(***************************************************************************)
EXTENDS Session, FiniteSets

CONSTANTS
  PoolConn,       \* slots of the connection pool
  ExtConn,        \* connections the caller passes as config.connection
  NoConn,
  Configs,        \* the option combinations transactions are created with
  Disciplined,    \* callers await what they start (see Ready)
  MaxRoots,       \* bound: top-level transactions
  MaxCalls,       \* bound: explicit commit/rollback calls per transaction
  MaxWriters,     \* bound: transactions whose user sends a statement
  MaxFaults       \* bound: connections lost

Conn == PoolConn \cup ExtConn

\* conn: config.connection; isolation: config.isolationLevel is set;
\* quiet: config.doNotRejectOnRollback.
Config == [conn : ExtConn \cup {NoConn}, isolation : BOOLEAN, quiet : BOOLEAN]

ASSUME TransactionAssumption ==
  /\ NoConn \notin Conn
  /\ PoolConn \cap ExtConn = {}
  /\ Configs \subseteq Config
  /\ Disciplined \in BOOLEAN
  /\ MaxRoots \in Nat
  /\ MaxCalls \in Nat
  /\ MaxWriters \in Nat
  /\ MaxFaults \in Nat

VARIABLES
  life,       \* of the Transaction object: constructed, connected, done
  stage,      \* where init and the container have got to
  exec,       \* the promise the caller of transaction() holds
  completed,  \* _completed
  anc,        \* the outerTx chain, as a set
  outer,      \* outerTx
  prev,       \* the sibling whose completion _previousSibling stands for
  lastChild,  \* the child whose completion _lastChild stands for
  cfg,        \* the options
  conn,       \* the connection handed to _evaluateContainer's callback
  timer,      \* the 5 s race of rollback: its error argument, or "off"
  wrote,      \* the one write statement the user sends through the transactor
  calls,      \* explicit commit/rollback calls made so far
  free,       \* idle pool slots
  chan,       \* per connection, statements the server has not run yet
  reply,      \* per connection, answers knex has not seen yet
  sess,       \* per connection, the server's state
  dead,       \* connections that were lost
  durable,    \* transactions whose write is permanent
  faults      \* connections lost so far

tree   == <<anc, outer, prev, lastChild, cfg>>
server == <<sess, dead, durable, faults>>
vars   == <<life, stage, exec, completed, tree, conn, timer, wrote, calls,
            free, chan, reply, server>>

Kinds   == {"isolation", "begin", "savepoint", "query", "commit", "release",
            "rollback", "rollbackTo"}
Finals  == {"commit", "release", "rollback", "rollbackTo"}
Args    == {"error", "undefined"}
Request == [trx : Trx, kind : Kinds, arg : Args]
Answer  == [trx : Trx, kind : Kinds, arg : Args, ok : BOOLEAN]

Lives   == {"none", "queued", "open", "closed", "failed"}
Stages  == {"idle", "isolation", "begin", "invoke", "pending", "detached",
            "settled"}
Outcomes == {"none", "pending", "committed", "rolledback", "rejected",
             "undefined"}

TypeOK ==
  /\ life \in [Trx -> Lives]
  /\ stage \in [Trx -> Stages]
  /\ exec \in [Trx -> Outcomes]
  /\ completed \in [Trx -> BOOLEAN]
  /\ anc \in [Trx -> SUBSET Trx]
  /\ outer \in [Trx -> Trx \cup {NoTrx}]
  /\ prev \in [Trx -> Trx \cup {NoTrx}]
  /\ lastChild \in [Trx -> Trx \cup {NoTrx}]
  /\ cfg \in [Trx -> Config]
  /\ conn \in [Trx -> Conn \cup {NoConn}]
  /\ timer \in [Trx -> Args \cup {"off"}]
  /\ wrote \in [Trx -> {"no", "sent", "ok", "failed"}]
  /\ calls \in [Trx -> Nat]
  /\ free \in SUBSET PoolConn
  /\ chan \in [Conn -> Seq(Request)]
  /\ reply \in [Conn -> Seq(Answer)]
  /\ sess \in [Conn -> SessionState]
  /\ dead \in SUBSET Conn
  /\ durable \in SUBSET Trx
  /\ faults \in Nat

-----------------------------------------------------------------------------
\* A transaction together with the ones it is nested in.
Line(t) == {t} \cup anc[t]

\* Variant: the flag of the transaction alone.
IsCompletedItself(t) == completed[t]

\* isCompleted: own flag, or outerTx.isCompleted(), recursively.
IsCompleted(t) == \E a \in Line(t) : completed[a]

IsNested(t) == outer[t] # NoTrx
Done(t)     == life[t] \in {"closed", "failed"}
Children(t) == {u \in Trx : outer[u] = t}

\* _resolver and _rejecter: only the first call counts.
Settled(t, outcome) ==
  IF exec[t] = "pending" THEN [exec EXCEPT ![t] = outcome] ELSE exec

\* Variants: the catch forgets the flag; the catch forgets to reject.
RejectedUncompleted(t) == exec' = Settled(t, "rejected") /\ UNCHANGED completed
RejectedSilently(t) ==
  completed' = [completed EXCEPT ![t] = TRUE] /\ UNCHANGED exec

\* The catch of Transaction.query: the transaction is completed and rejects.
Rejected(t) ==
  /\ completed' = [completed EXCEPT ![t] = TRUE]
  /\ exec' = Settled(t, "rejected")

Message(t, kind, arg) == [trx |-> t, kind |-> kind, arg |-> arg]
Reply(m, ok) == [trx |-> m.trx, kind |-> m.kind, arg |-> m.arg, ok |-> ok]

\* Error answers to all the statements of a queue.
Failures(queue) == [i \in DOMAIN queue |-> Reply(queue[i], FALSE)]

\* Hands a statement to the driver of c, of whose answers `backlog` are still
\* to be seen; on a lost connection the driver answers with an error.
Post(c, m, backlog) ==
  IF c \in dead
  THEN /\ reply' = [reply EXCEPT ![c] = Append(backlog, Reply(m, FALSE))]
       /\ UNCHANGED chan
  ELSE /\ chan' = [chan EXCEPT ![c] = Append(@, m)]
       /\ reply' = [reply EXCEPT ![c] = backlog]

-----------------------------------------------------------------------------
Init ==
  /\ life = [t \in Trx |-> "none"]
  /\ stage = [t \in Trx |-> "idle"]
  /\ exec = [t \in Trx |-> "none"]
  /\ completed = [t \in Trx |-> FALSE]
  /\ anc = [t \in Trx |-> {}]
  /\ outer = [t \in Trx |-> NoTrx]
  /\ prev = [t \in Trx |-> NoTrx]
  /\ lastChild = [t \in Trx |-> NoTrx]
  /\ cfg = [t \in Trx |-> [conn |-> NoConn, isolation |-> FALSE, quiet |-> TRUE]]
  /\ conn = [t \in Trx |-> NoConn]
  /\ timer = [t \in Trx |-> "off"]
  /\ wrote = [t \in Trx |-> "no"]
  /\ calls = [t \in Trx |-> 0]
  /\ free = PoolConn
  /\ chan = [c \in Conn |-> <<>>]
  /\ reply = [c \in Conn |-> <<>>]
  /\ sess = [c \in Conn |-> IdleSession]
  /\ dead = {}
  /\ durable = {}
  /\ faults = 0

\* What a careful caller has waited for before it goes on in t: the nested
\* transactions it started and its own statement, which must have succeeded
\* for anything but giving up.
ChildrenDone(t) == \A u \in Children(t) : Done(u)
Ready(t)   == Disciplined => ChildrenDone(t) /\ wrote[t] \in {"no", "ok"}
CanQuit(t) == Disciplined => ChildrenDone(t) /\ wrote[t] # "sent"

\* The transactor exists once init is over (makeTransactor).
HasTransactor(t) ==
  /\ stage[t] \in {"pending", "detached", "settled"}
  /\ Disciplined => stage[t] # "settled" /\ calls[t] = 0

-----------------------------------------------------------------------------
\* The constructor, called by client.transaction on the main instance.  The
\* caller does not hand one external connection to two live transactions.
NewTransaction(t) ==
  /\ life[t] = "none"
  /\ Cardinality({r \in Trx : life[r] # "none" /\ ~IsNested(r)}) < MaxRoots
  /\ \E k \in Configs :
       /\ k.conn = NoConn
            \/ \A u \in Trx : cfg[u].conn = k.conn => life[u] \in {"none", "closed"}
       /\ cfg' = [cfg EXCEPT ![t] = k]
  /\ life' = [life EXCEPT ![t] = "queued"]
  /\ exec' = [exec EXCEPT ![t] = "pending"]
  /\ UNCHANGED <<stage, completed, anc, outer, prev, lastChild, conn, timer,
                 wrote, calls, free, chan, reply, server>>

\* The constructor, called through p's transactor (transaction or savepoint):
\* it waits for the sibling created before it and becomes the one to wait for.
NewNested(p, t) ==
  /\ life[t] = "none" /\ HasTransactor(p)
  /\ Disciplined => wrote[p] \in {"no", "ok"}
  /\ \E k \in Configs :
       /\ k.conn = NoConn /\ ~k.isolation
       /\ cfg' = [cfg EXCEPT ![t] = k]
  /\ anc' = [anc EXCEPT ![t] = Line(p)]
  /\ outer' = [outer EXCEPT ![t] = p]
  /\ prev' = [prev EXCEPT ![t] = lastChild[p]]
  /\ lastChild' = [lastChild EXCEPT ![p] = t]
  /\ life' = [life EXCEPT ![t] = "queued"]
  /\ exec' = [exec EXCEPT ![t] = "pending"]
  /\ UNCHANGED <<stage, completed, conn, timer, wrote, calls, free, chan,
                 reply, server>>

\* Variant: nested transactions give the connection back to the pool too.
FromPoolNested(t) == cfg[t].conn = NoConn

\* Where _evaluateContainer finds its connection: in the options, at the
\* parent (trxClient.acquireConnection), or in the pool.
FromPool(t) == ~IsNested(t) /\ cfg[t].conn = NoConn

\* Variant: nested transactions ask the pool for a connection of their own.
CandidatesInPool(t) ==
  IF cfg[t].conn = NoConn THEN free \ dead ELSE {cfg[t].conn}

Candidates(t) ==
  IF IsNested(t) THEN {conn[outer[t]]}
  ELSE IF FromPool(t) THEN free \ dead ELSE {cfg[t].conn}

\* Variants: siblings do not wait; they wait until the sibling has called its
\* commit or rollback only; they wait for a sibling that succeeded.
SiblingIgnored(t)   == TRUE
SiblingFinishing(t) == prev[t] # NoTrx => completed[prev[t]]
SiblingSucceeded(t) == prev[t] # NoTrx => exec[prev[t]] = "committed"

\* The promise _previousSibling, whose rejection is caught.
SiblingDone(t) == prev[t] # NoTrx => Done(prev[t])

\* init: SAVEPOINT inside another transaction, otherwise the isolation level
\* (if any) and BEGIN.
InitKind(t) ==
  IF IsNested(t) THEN "savepoint"
  ELSE IF cfg[t].isolation THEN "isolation" ELSE "begin"

\* acquireConnection resolves and its callback sends the first statement.  In
\* a completed parent that statement is refused: the transaction is completed
\* and rejected, and its container runs all the same.
AcquireConnection(t) ==
  /\ life[t] = "queued" /\ SiblingDone(t)
  /\ \E c \in Candidates(t) :
       /\ conn' = [conn EXCEPT ![t] = c]
       /\ free' = IF FromPool(t) THEN free \ {c} ELSE free
       /\ IF IsCompleted(t)
          THEN UNCHANGED <<chan, reply>>
          ELSE Post(c, Message(t, InitKind(t), "undefined"), reply[c])
  /\ life' = [life EXCEPT ![t] = "open"]
  /\ completed' = [completed EXCEPT ![t] = IsCompleted(t)]
  /\ exec' = IF IsCompleted(t) THEN Settled(t, "rejected") ELSE exec
  /\ stage' = [stage EXCEPT ![t] =
                 IF IsCompleted(t) THEN "invoke"
                 ELSE IF InitKind(t) = "isolation" THEN "isolation" ELSE "begin"]
  /\ UNCHANGED <<tree, timer, wrote, calls, server>>

\* client.acquireConnection rejects: no connection in time, or none could be
\* created.  The container never runs.
AcquireFail(t) ==
  /\ life[t] = "queued" /\ FromPool(t)
  /\ life' = [life EXCEPT ![t] = "failed"]
  /\ exec' = Settled(t, "rejected")
  /\ UNCHANGED <<stage, completed, tree, conn, timer, wrote, calls, free,
                 chan, reply, server>>

-----------------------------------------------------------------------------
\* The server runs the oldest statement of c (external).
Execute(c) ==
  /\ chan[c] # <<>>
  /\ LET m == Head(chan[c])
         Answered(ok) == reply' = [reply EXCEPT ![c] = Append(@, Reply(m, ok))]
     IN \/ /\ CanRun(sess[c], m.kind, m.trx)
           /\ sess' = [sess EXCEPT ![c] = AfterSuccess(@, m.kind, m.trx)]
           /\ durable' = durable \cup MadeDurable(sess[c], m.kind, m.trx)
           /\ Answered(TRUE)
        \/ /\ CanRun(sess[c], m.kind, m.trx) => MayFail(m.kind)
           /\ sess' = [sess EXCEPT ![c] = AfterFailure(@, m.kind)]
           /\ UNCHANGED durable
           /\ Answered(FALSE)
  /\ chan' = [chan EXCEPT ![c] = Tail(@)]
  /\ UNCHANGED <<life, stage, exec, completed, tree, conn, timer, wrote, calls,
                 free, dead, faults>>

\* The connection is lost (external): the server discards what is not
\* committed, and every statement without an answer fails, those included that
\* the server has carried out and whose answers get lost.
Disconnect(c) ==
  /\ faults < MaxFaults /\ c \notin dead
  /\ faults' = faults + 1
  /\ dead' = dead \cup {c}
  /\ sess' = [sess EXCEPT ![c] = IdleSession]
  /\ chan' = [chan EXCEPT ![c] = <<>>]
  /\ reply' = [reply EXCEPT ![c] = Failures(@) \o Failures(chan[c])]
  /\ UNCHANGED <<life, stage, exec, completed, tree, conn, timer, wrote, calls,
                 free, durable>>

\* The pool drops an idle lost connection and opens another in its slot.
ReplaceConnection(c) ==
  /\ c \in free \cap dead /\ reply[c] = <<>>
  /\ dead' = dead \ {c}
  /\ UNCHANGED <<life, stage, exec, completed, tree, conn, timer, wrote, calls,
                 free, chan, reply, sess, durable, faults>>

-----------------------------------------------------------------------------
\* The handlers of Transaction.query, one per kind of answer m.  `rest` is what
\* remains to be delivered on the connection.
Consumed(c, rest) == reply' = [reply EXCEPT ![c] = rest] /\ UNCHANGED chan

\* A failed statement of begin or savepoint completes and rejects, and init
\* goes on: after a failed isolation query BEGIN is refused, after a failed
\* BEGIN the container runs.  BEGIN is refused in a completed transaction too.
InitFailed(c, m, rest) ==
  /\ m.kind \in {"isolation", "begin", "savepoint"}
  /\ m.ok => m.kind = "isolation" /\ IsCompleted(m.trx)
  /\ Rejected(m.trx)
  /\ stage' = [stage EXCEPT ![m.trx] = "invoke"]
  /\ Consumed(c, rest)
  /\ UNCHANGED <<timer, wrote>>

IsolationSet(c, m, rest) ==
  /\ m.kind = "isolation" /\ m.ok /\ ~IsCompleted(m.trx)
  /\ Post(c, Message(m.trx, "begin", "undefined"), rest)
  /\ stage' = [stage EXCEPT ![m.trx] = "begin"]
  /\ UNCHANGED <<completed, exec, timer, wrote>>

Begun(c, m, rest) ==
  /\ m.kind \in {"begin", "savepoint"} /\ m.ok
  /\ stage' = [stage EXCEPT ![m.trx] = "invoke"]
  /\ Consumed(c, rest)
  /\ UNCHANGED <<completed, exec, timer, wrote>>

\* Variant: an error does not change the status.
OutcomeByStatus(m) ==
  IF m.kind \in {"commit", "release"} THEN "committed"
  ELSE IF m.arg = "undefined" /\ cfg[m.trx].quiet THEN "rolledback" ELSE "rejected"

\* How the promise settles when a finishing statement is answered: an error
\* rejects with that error, status 1 resolves, and status 2 rejects with the
\* caller's error, or resolves when there is none and the options ask for it.
Outcome(m) ==
  IF ~m.ok THEN "rejected"
  ELSE IF m.kind \in {"commit", "release"} THEN "committed"
  ELSE IF m.arg = "undefined" /\ cfg[m.trx].quiet THEN "rolledback"
  ELSE "rejected"

Finished(c, m, rest) ==
  /\ m.kind \in Finals
  /\ completed' = [completed EXCEPT ![m.trx] = TRUE]
  /\ exec' = Settled(m.trx, Outcome(m))
  /\ timer' = IF m.kind \in {"rollback", "rollbackTo"}
              THEN [timer EXCEPT ![m.trx] = "off"] ELSE timer
  /\ Consumed(c, rest)
  /\ UNCHANGED <<stage, wrote>>

\* The answer to a statement of the user goes to the user.
Queried(c, m, rest) ==
  /\ m.kind = "query"
  /\ wrote' = [wrote EXCEPT ![m.trx] = IF m.ok THEN "ok" ELSE "failed"]
  /\ Consumed(c, rest)
  /\ UNCHANGED <<stage, completed, exec, timer>>

Deliver(c) ==
  /\ reply[c] # <<>>
  /\ LET m == Head(reply[c])
         rest == Tail(reply[c])
     IN \/ InitFailed(c, m, rest) \/ IsolationSet(c, m, rest)
        \/ Begun(c, m, rest) \/ Finished(c, m, rest) \/ Queried(c, m, rest)
  /\ UNCHANGED <<life, tree, conn, calls, free, server>>

-----------------------------------------------------------------------------
\* The container is called with the transactor, whatever became of init.  It
\* returns a thenable, which is followed, or something else, which leaves the
\* transaction to explicit calls.
InvokeContainer(t) ==
  /\ stage[t] = "invoke"
  /\ \E s \in {"pending", "detached"} : stage' = [stage EXCEPT ![t] = s]
  /\ UNCHANGED <<life, exec, completed, tree, conn, timer, wrote, calls, free,
                 chan, reply, server>>

\* transactor.commit and transactor.rollback: a finishing statement is sent, or
\* refused in a completed transaction, which rejects a promise still pending.
\* A rollback starts the race against its timeout.
Finish(t, kind, arg) ==
  IF IsCompleted(t)
  THEN Rejected(t) /\ UNCHANGED <<chan, reply, timer>>
  ELSE /\ Post(conn[t], Message(t, kind, arg), reply[conn[t]])
       /\ completed' = [completed EXCEPT ![t] = TRUE]
       /\ timer' = IF kind \in {"rollback", "rollbackTo"}
                   THEN [timer EXCEPT ![t] = arg] ELSE timer
       /\ UNCHANGED exec

\* Variants: every transactor commits like a nested one; like a top-level one.
CommitSavepoint(t)   == Finish(t, "release", "undefined")
CommitEverything(t)  == Finish(t, "commit", "undefined")

Commit(t)        == Finish(t, IF IsNested(t) THEN "release" ELSE "commit", "undefined")
Rollback(t, arg) == Finish(t, IF IsNested(t) THEN "rollbackTo" ELSE "rollback", arg)

\* The thenable of the container settles.
ContainerSettles(t) ==
  /\ stage[t] = "pending"
  /\ \/ Ready(t) /\ (Disciplined => calls[t] = 0) /\ Commit(t)
     \/ CanQuit(t) /\ \E arg \in Args : Rollback(t, arg)
  /\ stage' = [stage EXCEPT ![t] = "settled"]
  /\ UNCHANGED <<life, tree, conn, wrote, calls, free, server>>

\* The user calls commit or rollback on the transactor.
UserFinishes(t) ==
  /\ HasTransactor(t) /\ calls[t] < MaxCalls
  /\ Disciplined => stage[t] = "detached"
  /\ \/ Ready(t) /\ Commit(t)
     \/ CanQuit(t) /\ \E arg \in Args : Rollback(t, arg)
  /\ calls' = [calls EXCEPT ![t] = @ + 1]
  /\ UNCHANGED <<life, stage, tree, conn, wrote, free, server>>

\* The user sends its statement through the transactor; in a completed
\* transaction it is refused.
UserQuery(t) ==
  /\ HasTransactor(t) /\ wrote[t] = "no" /\ Ready(t)
  /\ Cardinality({u \in Trx : wrote[u] # "no"}) < MaxWriters
  /\ IF IsCompleted(t)
     THEN /\ wrote' = [wrote EXCEPT ![t] = "failed"]
          /\ UNCHANGED <<chan, reply>>
     ELSE /\ Post(conn[t], Message(t, "query", "undefined"), reply[conn[t]])
          /\ wrote' = [wrote EXCEPT ![t] = "sent"]
  /\ UNCHANGED <<life, stage, exec, completed, tree, conn, timer, calls, free,
                 server>>

\* Variant: the timeout is swallowed.
RollbackTimeoutIgnored(t) ==
  /\ timer[t] # "off"
  /\ timer' = [timer EXCEPT ![t] = "off"]
  /\ UNCHANGED <<life, stage, exec, completed, tree, conn, wrote, calls, free,
                 chan, reply, server>>

\* Five seconds without an answer to the rollback: the promise rejects with
\* the error rollback was called with, whatever it is.
RollbackTimeout(t) ==
  /\ timer[t] # "off"
  /\ exec' = Settled(t, IF timer[t] = "undefined" THEN "undefined" ELSE "rejected")
  /\ timer' = [timer EXCEPT ![t] = "off"]
  /\ UNCHANGED <<life, stage, completed, tree, conn, wrote, calls, free, chan,
                 reply, server>>

\* Variant: the caller's own connection is put into the pool as well.
ReleaseAlways(t) ==
  /\ life[t] = "open" /\ exec[t] \notin {"none", "pending"}
  /\ life' = [life EXCEPT ![t] = "closed"]
  /\ free' = IF IsNested(t) THEN free ELSE free \cup {conn[t]}
  /\ UNCHANGED <<stage, exec, completed, tree, conn, timer, wrote, calls, chan,
                 reply, server>>

\* The finally of acquireConnection: a pooled connection goes back whatever is
\* still on its way on it; a parent's or a caller's connection stays put.
Release(t) ==
  /\ life[t] = "open" /\ exec[t] \notin {"none", "pending"}
  /\ life' = [life EXCEPT ![t] = "closed"]
  /\ free' = IF FromPool(t) THEN free \cup {conn[t]} ELSE free
  /\ UNCHANGED <<stage, exec, completed, tree, conn, timer, wrote, calls, chan,
                 reply, server>>

-----------------------------------------------------------------------------
User(t) ==
  \/ NewTransaction(t)
  \/ \E p \in Trx \ {t} : NewNested(p, t)
  \/ ContainerSettles(t)
  \/ UserFinishes(t)
  \/ UserQuery(t)

Runtime(t) ==
  \/ AcquireConnection(t)
  \/ AcquireFail(t)
  \/ InvokeContainer(t)
  \/ RollbackTimeout(t)
  \/ Release(t)

Network(c) == Execute(c) \/ Deliver(c) \/ Disconnect(c) \/ ReplaceConnection(c)

Next == (\E t \in Trx : User(t) \/ Runtime(t)) \/ (\E c \in Conn : Network(c))

Spec == Init /\ [][Next]_vars

-----------------------------------------------------------------------------
(* Properties *)

IsRoot(t) == life[t] # "none" /\ outer[t] = NoTrx

\* The top-level transaction at the end of t's outerTx chain has connection c
\* and has not given it back.
HeldFor(t, c) ==
  \E r \in Line(t) : IsRoot(r) /\ life[r] = "open" /\ conn[r] = c

Connected(t) == life[t] \in {"open", "closed"}

\* A pooled connection is idle in the pool or belongs to one open top-level
\* transaction, and transactions never share a connection unless nested: what
\* pool.release in the finally of acquireConnection relies on.
ConnectionOwnership ==
  \A r \in {t \in Trx : IsRoot(t) /\ life[t] = "open"} :
    /\ conn[r] \notin free
    /\ \A q \in Trx : IsRoot(q) /\ life[q] = "open" /\ conn[q] = conn[r] => q = r

\* A transaction whose promise has settled is completed, so its transactor
\* refuses statements from then on: the flag isCompleted reads is never set
\* later than the promise settles, on any of the paths that settle it.
SettledIsCompleted ==
  \A t \in Trx : Connected(t) /\ exec[t] # "pending" => completed[t]

\* Every statement handed to a connection comes from a transaction whose
\* top-level transaction holds that connection at that moment.  Transactors
\* outlive their transaction, so this rests on isCompleted looking up the
\* whole outerTx chain.
PostedByHolder ==
  [][\A c \in Conn, t \in Trx :
       Len(chan'[c]) > Len(chan[c]) /\ chan'[c][Len(chan'[c])].trx = t
       => HeldFor(t, c)']_vars

\* A write the server carries out runs inside the database transaction of its
\* own top-level transaction: never in autocommit mode, never in the
\* transaction that took the connection next, however late it was sent.
WritesInOwnTransaction ==
  [][\A c \in Conn :
       /\ chan[c] # <<>> /\ chan'[c] = Tail(chan[c])
       /\ Head(chan[c]).kind = "query"
       /\ reply'[c] # reply[c] /\ reply'[c][Len(reply'[c])].ok
       => sess[c].owner \in Line(Head(chan[c]).trx)]_vars

\* Sibling transactions never overlap: the container of one does not start
\* before the promises of all those created before it have settled (#2213).
SiblingsTakeTurns ==
  \A s, t \in Trx :
    s # t /\ outer[s] = outer[t] /\ IsNested(s) =>
      ~(life[s] = "open" /\ life[t] = "open")

\* When the server rolls back to a savepoint it undoes writes of the
\* transaction that set it and of those nested in it, and no others.
RollbackIsLocal ==
  [][\A c \in Conn \ dead' :
       chan[c] # <<>> /\ chan'[c] = Tail(chan[c]) /\ Head(chan[c]).kind = "rollbackTo"
       => \A w \in sess[c].writes \ sess'[c].writes : Head(chan[c]).trx \in Line(w)]_vars

\* A connection in the pool with nothing left on its way has no open database
\* transaction, however its last user settled (a rollback that timed out is
\* still on its way when the connection is handed back).
IdleConnectionsAreClean ==
  \A c \in free : chan[c] = <<>> => sess[c].owner = NoTrx

\* A write that was acknowledged, of a transaction that resolved by commit
\* inside transactions that all did, is durable.
CommittedIsDurable ==
  \A t \in Trx :
    wrote[t] = "ok" /\ (\A a \in Line(t) : exec[a] = "committed") => t \in durable

\* A durable write belongs to a transaction that resolved by commit, like all
\* those around it; only the top-level one may still wait for the answer, or
\* have rejected because the answer got lost with the connection.
DurableIsCommitted ==
  \A t \in durable : \A a \in Line(t) :
    \/ exec[a] = "committed"
    \/ IsRoot(a) /\ (exec[a] = "pending" \/ faults # 0)

-----------------------------------------------------------------------------
(* The inductive invariant behind ConnectionOwnership and PostedByHolder *)

\* What the life of a Transaction object says about its other fields.
LifeCycle ==
  \A t \in Trx :
    /\ life[t] = "none" =>
         outer[t] = NoTrx /\ anc[t] = {} /\ cfg[t].conn = NoConn /\ exec[t] = "none"
    /\ life[t] = "queued" => exec[t] = "pending"
    /\ Connected(t) => exec[t] # "none"
    /\ life[t] = "closed" => exec[t] # "pending"
    /\ stage[t] # "idle" => Connected(t)
    /\ timer[t] # "off" => completed[t] /\ Connected(t)
    /\ prev[t] # NoTrx => IsNested(t)

\* Nested transactions hang below connected ones, on their connection.
Nesting ==
  \A t \in Trx : IsNested(t) =>
    /\ life[t] # "none" /\ cfg[t].conn = NoConn
    /\ Connected(outer[t]) /\ anc[t] = Line(outer[t])

\* Every transaction has a top-level one in its line, and shares its connection.
Rooted ==
  \A t \in Trx : life[t] # "none" =>
    \E r \in Line(t) :
      /\ IsRoot(r)
      /\ IsNested(t) => Connected(r)
      /\ Connected(t) => Connected(r) /\ conn[t] = conn[r]

\* Top-level transactions got their connection where their options say.
ConnectionSource ==
  \A t \in Trx : Connected(t) =>
    /\ conn[t] \in Conn
    /\ FromPool(t) => conn[t] \in PoolConn
    /\ ~IsNested(t) /\ ~FromPool(t) => conn[t] = cfg[t].conn

\* No external connection is promised to two transactions that are not over.
ExternalOnce ==
  \A t, u \in Trx :
    t # u /\ cfg[t].conn = cfg[u].conn /\ cfg[t].conn # NoConn =>
      "closed" \in {life[t], life[u]}

\* Statements and answers on their way belong to transactions connected there.
OnConnection(c, M) == {m \in M : Connected(m.trx) /\ conn[m.trx] = c}

Traffic ==
  \A c \in Conn : /\ chan[c] \in Seq(OnConnection(c, Request))
                  /\ reply[c] \in Seq(OnConnection(c, Answer))

IInv ==
  /\ TypeOK /\ LifeCycle /\ Nesting /\ Rooted /\ ConnectionSource
  /\ ExternalOnce /\ Traffic /\ SettledIsCompleted /\ ConnectionOwnership

-----------------------------------------------------------------------------
(* Liveness *)

\* The event loop runs what is ready; a timer that is not cleared fires.
RuntimeFairness ==
  \A t \in Trx : /\ WF_vars(AcquireConnection(t))
                 /\ WF_vars(InvokeContainer(t))
                 /\ WF_vars(RollbackTimeout(t))
                 /\ WF_vars(Release(t))

\* Answers that arrived are delivered and lost connections are replaced.
DriverFairness ==
  \A c \in Conn : WF_vars(Deliver(c)) /\ WF_vars(ReplaceConnection(c))

\* The server answers, and containers end: they settle or commit or roll back.
OutsideFairness ==
  /\ \A c \in Conn : WF_vars(Execute(c))
  /\ \A t \in Trx : WF_vars(ContainerSettles(t) \/ UserFinishes(t))

\* knex and the drivers make progress; server and containers may stop at any
\* point.
FairSpec == Spec /\ RuntimeFairness /\ DriverFairness

\* If they do not stop, every transaction the caller creates ends: its promise
\* settles and its connection is back, whatever failed on the way.
EveryTransactionEnds ==
  OutsideFairness => \A t \in Trx : life[t] = "queued" ~> Done(t)

\* A rollback that was started settles the transaction and frees the
\* connection even when the server never answers it: the purpose of the 5 s
\* timeout.
RollbackAlwaysReleases ==
  \A t \in Trx : timer[t] # "off" ~> Done(t)
=============================================================================
