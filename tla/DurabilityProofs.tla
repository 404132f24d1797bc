------------------------- MODULE DurabilityProofs -------------------------
(***************************************************************************)
(* Commits and rollbacks of careful callers: what was acknowledged inside  *)
(* transactions that all resolved by commit is durable, what is durable    *)
(* was committed, and rolling back to a savepoint undoes nothing else.     *)
(* For any number of transactions and connections, any options, faults     *)
(* and kinds of servers.                                                   *)
(***************************************************************************)
EXTENDS SessionProofs

-----------------------------------------------------------------------------
(* The inductive invariant: the transactions and their messages *)

\* The promise of an open transaction has not settled.
Running(t) == life[t] = "open" /\ exec[t] = "pending"

\* The transaction t may still get or use its connection.
Alive(t) == IF life[t] = "queued" THEN ~IsCompleted(t) ELSE Running(t)

\* The chain of transactions around one ends at a top-level one and has no
\* gaps.
Tree ==
  \A t \in Trx :
    /\ t \notin anc[t]
    /\ \A a \in anc[t] : /\ Connected(a) /\ Line(a) \subseteq anc[t]
                         /\ \E s \in Line(t) : outer[s] = a
    /\ \A a, b \in Line(t) : ~IsNested(a) /\ ~IsNested(b) => a = b

\* How far the flags of a transaction can be apart.
Flags ==
  \A t \in Trx :
    /\ ~Connected(t) => ~completed[t] /\ wrote[t] = "no"
    /\ wrote[t] # "no" => Underway(t)
    /\ timer[t] # "off" => exec[t] = "pending"
    /\ Running(t) /\ completed[t] =>
         stage[t] = "settled" \/ (stage[t] = "detached" /\ calls[t] # 0)

\* Careful callers wait: while a nested transaction goes on, those around it
\* are open and have nothing of their own under way.
AroundWaits ==
  \A t \in Trx : Alive(t) =>
    \A a \in anc[t] : Running(a) /\ ~completed[a] /\ wrote[a] \in {"no", "ok"}

\* Unsettled transactions of one connection are nested in each other.
OneLine ==
  \A t, u \in Trx :
    Running(t) /\ Running(u) /\ conn[t] = conn[u] => t \in Line(u) \/ u \in Line(t)

Unkept == {"rolledback", "rejected", "undefined"}

\* What a message on its way says of its sender.
Flies(t, kind) ==
  /\ kind = "query" => Running(t) /\ ~completed[t] /\ wrote[t] = "sent"
  /\ kind \in {"isolation", "begin", "savepoint"} =>
       /\ Running(t) /\ ~completed[t]
       /\ stage[t] = IF kind = "isolation" THEN "isolation" ELSE "begin"
  /\ kind \in {"commit", "release"} =>
       Running(t) /\ completed[t] /\ timer[t] = "off" /\ wrote[t] \in {"no", "ok"}
  /\ kind \in {"rollback", "rollbackTo"} =>
       /\ completed[t]
       /\ timer[t] # "off" \/ exec[t] \in Unkept

\* The queue q holds a message of t, or an answer to one.
Lists(q, t, kind) == \E i \in DOMAIN q : q[i].trx = t /\ q[i].kind = kind
Tells(q, t, kind, ok) ==
  \E i \in DOMAIN q : q[i].trx = t /\ q[i].kind = kind /\ q[i].ok = ok

\* A statement of t or its answer is on its way.
Carries(c, t, kind) == Lists(chan[c], t, kind) \/ Lists(reply[c], t, kind)

InFlight(c) == \A t \in Trx, kind \in Kinds : Carries(c, t, kind) => Flies(t, kind)

\* A message of an unsettled transaction is the last one on its connection.
LastOfRunning(c) ==
  /\ \A i \in DOMAIN chan[c] : Running(chan[c][i].trx) => i = Len(chan[c])
  /\ \A i \in DOMAIN reply[c] :
       Running(reply[c][i].trx) => i = Len(reply[c]) /\ chan[c] = <<>>

\* Nobody is behind a statement of a transaction around it.
Disjoint(c) ==
  \A i, j \in DOMAIN chan[c] : i < j => chan[c][i].trx \notin Line(chan[c][j].trx)

Queue(c) == InFlight(c) /\ LastOfRunning(c) /\ Disjoint(c)

CarefulInv ==
  RootsAlone /\ Tree /\ Flags /\ AroundWaits /\ OneLine /\ \A c \in Conn : Queue(c)

-----------------------------------------------------------------------------
(* The steps, transaction by transaction *)

Untouched(t) ==
  /\ life'[t] = life[t] /\ stage'[t] = stage[t] /\ exec'[t] = exec[t]
  /\ completed'[t] = completed[t] /\ conn'[t] = conn[t] /\ timer'[t] = timer[t]
  /\ wrote'[t] = wrote[t] /\ calls'[t] = calls[t]

SameTree == anc' = anc /\ outer' = outer
Calm     == chan' = chan /\ reply' = reply
Settles(t, o) == exec'[t] = IF exec[t] = "pending" THEN o ELSE exec[t]

\* The container settles, or its one explicit call is made.
Ends(t) ==
  \/ stage[t] = "pending" /\ stage'[t] = "settled" /\ calls'[t] = calls[t]
  \/ stage[t] = "detached" /\ calls[t] = 0 /\ stage'[t] = stage[t] /\ calls'[t] = 1

Born(t) ==
  /\ life[t] = "none" /\ life'[t] = "queued" /\ exec'[t] = "pending"
  /\ stage'[t] = stage[t] /\ completed'[t] = completed[t] /\ conn'[t] = conn[t]
  /\ timer'[t] = timer[t] /\ wrote'[t] = wrote[t] /\ calls'[t] = calls[t]
  /\ \A u \in Trx \ {t} : anc'[u] = anc[u] /\ outer'[u] = outer[u]
  /\ \/ anc'[t] = anc[t] /\ outer'[t] = outer[t]
     \/ \E p \in Trx \ {t} : /\ HasTransactor(p) /\ wrote[p] \in {"no", "ok"}
                             /\ anc'[t] = Line(p) /\ outer'[t] = p
  /\ Calm

Aborts(t) ==
  /\ life[t] = "queued" /\ life'[t] = "failed" /\ exec'[t] = "rejected" /\ anc[t] = {}
  /\ stage'[t] = stage[t] /\ completed'[t] = completed[t] /\ conn'[t] = conn[t]
  /\ timer'[t] = timer[t] /\ wrote'[t] = wrote[t] /\ calls'[t] = calls[t]
  /\ SameTree /\ Calm

Refused(t) ==
  /\ life[t] = "queued" /\ IsCompleted(t)
  /\ life'[t] = "open" /\ exec'[t] = "rejected" /\ completed'[t] /\ stage'[t] = "invoke"
  /\ timer'[t] = timer[t] /\ wrote'[t] = wrote[t] /\ calls'[t] = calls[t]
  /\ SameTree /\ Calm

Invokes(t) ==
  /\ stage[t] = "invoke" /\ stage'[t] \in {"pending", "detached"}
  /\ life'[t] = life[t] /\ exec'[t] = exec[t] /\ completed'[t] = completed[t]
  /\ conn'[t] = conn[t] /\ timer'[t] = timer[t] /\ wrote'[t] = wrote[t]
  /\ calls'[t] = calls[t]
  /\ SameTree /\ Calm

Lags(t) ==
  /\ IsCompleted(t) /\ Ends(t)
  /\ completed'[t] /\ Settles(t, "rejected")
  /\ life'[t] = life[t] /\ conn'[t] = conn[t] /\ timer'[t] = timer[t]
  /\ wrote'[t] = wrote[t]
  /\ SameTree /\ Calm

Fails(t) ==
  /\ IsCompleted(t) /\ HasTransactor(t) /\ wrote[t] = "no" /\ wrote'[t] = "failed"
  /\ life'[t] = life[t] /\ stage'[t] = stage[t] /\ exec'[t] = exec[t]
  /\ completed'[t] = completed[t] /\ conn'[t] = conn[t] /\ timer'[t] = timer[t]
  /\ calls'[t] = calls[t]
  /\ SameTree /\ Calm

TimesOut(t) ==
  /\ timer[t] # "off" /\ timer'[t] = "off"
  /\ \E o \in {"undefined", "rejected"} : Settles(t, o)
  /\ life'[t] = life[t] /\ stage'[t] = stage[t] /\ completed'[t] = completed[t]
  /\ conn'[t] = conn[t] /\ wrote'[t] = wrote[t] /\ calls'[t] = calls[t]
  /\ SameTree /\ Calm

Closes(t) ==
  /\ life[t] = "open" /\ life'[t] = "closed" /\ exec[t] # "pending"
  /\ stage'[t] = stage[t] /\ exec'[t] = exec[t] /\ completed'[t] = completed[t]
  /\ conn'[t] = conn[t] /\ timer'[t] = timer[t] /\ wrote'[t] = wrote[t]
  /\ calls'[t] = calls[t]
  /\ SameTree /\ Calm

Meanwhile(t) ==
  \/ Born(t) \/ Aborts(t) \/ Refused(t) \/ Invokes(t) \/ Lags(t) \/ Fails(t)
  \/ TimesOut(t) \/ Closes(t)

Sends(t, k, a) ==
  conn'[t] \in Conn /\ Post(conn'[t], Message(t, k, a), reply[conn'[t]])

Starts(t) ==
  /\ life[t] = "queued" /\ ~IsCompleted(t) /\ SiblingDone(t)
  /\ life'[t] = "open" /\ ~completed'[t] /\ conn'[t] \in Candidates(t)
  /\ stage'[t] = IF InitKind(t) = "isolation" THEN "isolation" ELSE "begin"
  /\ exec'[t] = exec[t] /\ timer'[t] = timer[t] /\ wrote'[t] = wrote[t]
  /\ calls'[t] = calls[t]
  /\ SameTree /\ Sends(t, InitKind(t), "undefined")

Finishes(t, k, a) ==
  /\ ~IsCompleted(t) /\ Ends(t) /\ ChildrenDone(t) /\ wrote[t] # "sent"
  /\ k \in {"commit", "release"} => wrote[t] \in {"no", "ok"}
  /\ IsNested(t) <=> k \in Inner
  /\ completed'[t]
  /\ timer'[t] = IF k \in {"rollback", "rollbackTo"} THEN a ELSE timer[t]
  /\ life'[t] = life[t] /\ exec'[t] = exec[t] /\ conn'[t] = conn[t]
  /\ wrote'[t] = wrote[t]
  /\ SameTree /\ Sends(t, k, a)

Asks(t) ==
  /\ ~IsCompleted(t) /\ HasTransactor(t) /\ ChildrenDone(t)
  /\ wrote[t] = "no" /\ wrote'[t] = "sent"
  /\ life'[t] = life[t] /\ stage'[t] = stage[t] /\ exec'[t] = exec[t]
  /\ completed'[t] = completed[t] /\ conn'[t] = conn[t] /\ timer'[t] = timer[t]
  /\ calls'[t] = calls[t]
  /\ SameTree /\ Sends(t, "query", "undefined")

\* The same for an answer m.
Takes(c) == chan' = chan /\ reply' = [reply EXCEPT ![c] = Tail(reply[c])]

Hears(c, m) ==
  /\ c \in Conn /\ reply[c] # <<>> /\ m = Head(reply[c]) /\ m \in Answer
  /\ Connected(m.trx) /\ conn[m.trx] = c
  /\ life'[m.trx] = life[m.trx] /\ conn'[m.trx] = conn[m.trx]
  /\ calls'[m.trx] = calls[m.trx]
  /\ SameTree

HearsInitFailed(c, m) ==
  /\ Hears(c, m) /\ m.kind \in {"isolation", "begin", "savepoint"}
  /\ completed'[m.trx] /\ Settles(m.trx, "rejected") /\ stage'[m.trx] = "invoke"
  /\ timer'[m.trx] = timer[m.trx] /\ wrote'[m.trx] = wrote[m.trx]
  /\ Takes(c)

HearsIsolation(c, m) ==
  /\ Hears(c, m) /\ m.kind = "isolation" /\ m.ok /\ ~IsCompleted(m.trx)
  /\ stage'[m.trx] = "begin"
  /\ exec'[m.trx] = exec[m.trx] /\ completed'[m.trx] = completed[m.trx]
  /\ timer'[m.trx] = timer[m.trx] /\ wrote'[m.trx] = wrote[m.trx]
  /\ Post(c, Message(m.trx, "begin", "undefined"), Tail(reply[c]))

HearsBegun(c, m) ==
  /\ Hears(c, m) /\ m.kind \in {"begin", "savepoint"} /\ m.ok
  /\ stage'[m.trx] = "invoke"
  /\ exec'[m.trx] = exec[m.trx] /\ completed'[m.trx] = completed[m.trx]
  /\ timer'[m.trx] = timer[m.trx] /\ wrote'[m.trx] = wrote[m.trx]
  /\ Takes(c)

HearsFinished(c, m) ==
  /\ Hears(c, m) /\ m.kind \in Finals
  /\ completed'[m.trx] /\ Settles(m.trx, Outcome(m)) /\ stage'[m.trx] = stage[m.trx]
  /\ timer'[m.trx] = IF m.kind \in {"rollback", "rollbackTo"} THEN "off" ELSE timer[m.trx]
  /\ wrote'[m.trx] = wrote[m.trx]
  /\ Takes(c)

HearsQueried(c, m) ==
  /\ Hears(c, m) /\ m.kind = "query"
  /\ wrote'[m.trx] = IF m.ok THEN "ok" ELSE "failed"
  /\ stage'[m.trx] = stage[m.trx] /\ exec'[m.trx] = exec[m.trx]
  /\ completed'[m.trx] = completed[m.trx] /\ timer'[m.trx] = timer[m.trx]
  /\ Takes(c)

Gets(c, m) ==
  \/ HearsInitFailed(c, m) \/ HearsIsolation(c, m) \/ HearsBegun(c, m)
  \/ HearsFinished(c, m) \/ HearsQueried(c, m)

Only(t) == (\A u \in Trx \ {t} : Untouched(u)) /\ UNCHANGED server

\* Nothing but the server and the connections moves.
Outside ==
  /\ \A t \in Trx : Untouched(t)
  /\ SameTree
  /\ \/ UNCHANGED vars
     \/ \E c \in Conn : Execute(c) \/ Disconnect(c) \/ ReplaceConnection(c)

Says(t) ==
  \/ Meanwhile(t) \/ Starts(t) \/ Asks(t)
  \/ \E k \in Finals, a \in Args : Finishes(t, k, a)

LEMMA SettlesAre ==
  ASSUME TypeOK, NEW t \in Trx, NEW o, exec' = Settled(t, o)
  PROVE  Settles(t, o) /\ \A u \in Trx \ {t} : exec'[u] = exec[u]
<1>1. CASE exec[t] = "pending"
  <2>1. exec' = [exec EXCEPT ![t] = o]
    BY <1>1 DEF Settled
  <2> QED BY <1>1, <2>1 DEF TypeOK, Settles
<1>2. CASE exec[t] # "pending"
  BY <1>2 DEF Settled, Settles
<1> QED BY <1>1, <1>2

\* What a step of a transaction that finishes, or is refused to, does.
LEMMA FinishIs ==
  ASSUME IInv, Disciplined, NEW t \in Trx, ContainerSettles(t) \/ UserFinishes(t)
  PROVE  Only(t) /\ (Lags(t) \/ \E k \in Finals, a \in Args : Finishes(t, k, a))
<1>0. TypeOK /\ Connected(t) /\ conn[t] \in Conn
  <2>1. stage[t] # "idle"
    BY DEF ContainerSettles, UserFinishes, HasTransactor
  <2> QED BY <2>1, TransactorConnected DEF IInv
<1> DEFINE Chosen(k, a) ==
             /\ k \in Finals /\ a \in Args /\ (IsNested(t) <=> k \in Inner)
             /\ Finish(t, k, a) /\ ChildrenDone(t) /\ wrote[t] # "sent"
             /\ k \in {"commit", "release"} => wrote[t] \in {"no", "ok"}
<1>1. \E k, a : Chosen(k, a)
  <2>1. CASE Ready(t) /\ Commit(t)
    <3>0. ChildrenDone(t) /\ wrote[t] \in {"no", "ok"}
      BY <2>1 DEF Ready
    <3>1. CASE IsNested(t)
      <4>1. Chosen("release", "undefined")
        BY <2>1, <3>0, <3>1 DEF Commit, Finals, Args, Inner
      <4> QED BY <4>1
    <3>2. CASE ~IsNested(t)
      <4>1. Chosen("commit", "undefined")
        BY <2>1, <3>0, <3>2 DEF Commit, Finals, Args, Inner
      <4> QED BY <4>1
    <3> QED BY <3>1, <3>2
  <2>2. ASSUME CanQuit(t), NEW a \in Args, Rollback(t, a)
        PROVE  \E k : Chosen(k, a)
    <3>0. ChildrenDone(t) /\ wrote[t] # "sent"
      BY <2>2 DEF CanQuit
    <3>1. CASE IsNested(t)
      <4>1. Chosen("rollbackTo", a)
        BY <2>2, <3>0, <3>1 DEF Rollback, Finals, Inner
      <4> QED BY <4>1
    <3>2. CASE ~IsNested(t)
      <4>1. Chosen("rollback", a)
        BY <2>2, <3>0, <3>2 DEF Rollback, Finals, Inner
      <4> QED BY <4>1
    <3> QED BY <3>1, <3>2
  <2> QED BY <2>1, <2>2 DEF ContainerSettles, UserFinishes
<1>2. PICK k, a : Chosen(k, a)
  BY <1>1
<1>3. /\ UNCHANGED <<life, tree, conn, wrote, free, server>>
      /\ \/ /\ stage[t] = "pending" /\ stage' = [stage EXCEPT ![t] = "settled"] /\ calls' = calls
         \/ /\ stage[t] = "detached" /\ calls[t] = 0 /\ stage' = stage
            /\ calls' = [calls EXCEPT ![t] = @ + 1]
  BY DEF ContainerSettles, UserFinishes, HasTransactor
<1>4. Ends(t) /\ \A u \in Trx \ {t} : stage'[u] = stage[u] /\ calls'[u] = calls[u]
  BY <1>0, <1>3 DEF TypeOK, Ends
<1>5. completed' = [completed EXCEPT ![t] = TRUE]
  BY <1>0, <1>2, FinishEffect
<1>6. SameTree /\ UNCHANGED server
  BY <1>3 DEF SameTree, tree
<1>7. CASE IsCompleted(t)
  <2>1. exec' = Settled(t, "rejected") /\ UNCHANGED <<chan, reply, timer>>
    BY <1>2, <1>7 DEF Finish, Rejected
  <2>2. Settles(t, "rejected") /\ \A u \in Trx \ {t} : exec'[u] = exec[u]
    BY <1>0, <2>1, SettlesAre
  <2>3. \A u \in Trx \ {t} : Untouched(u)
    BY <1>0, <1>3, <1>4, <1>5, <2>1, <2>2 DEF TypeOK, Untouched
  <2>4. Lags(t)
    BY <1>0, <1>3, <1>4, <1>5, <1>6, <1>7, <2>1, <2>2 DEF TypeOK, Lags, Calm
  <2> QED BY <1>6, <2>3, <2>4 DEF Only
<1>8. CASE ~IsCompleted(t)
  <2>1. /\ Post(conn[t], Message(t, k, a), reply[conn[t]]) /\ exec' = exec
        /\ timer' = IF k \in {"rollback", "rollbackTo"} THEN [timer EXCEPT ![t] = a] ELSE timer
    BY <1>2, <1>8 DEF Finish
  <2>2. \A u \in Trx \ {t} : Untouched(u)
    BY <1>0, <1>3, <1>4, <1>5, <2>1 DEF TypeOK, Untouched
  <2>3. Finishes(t, k, a)
    BY <1>0, <1>2, <1>3, <1>4, <1>5, <1>6, <1>8, <2>1 DEF TypeOK, Finishes, Sends
  <2> QED BY <1>2, <1>6, <2>2, <2>3 DEF Only
<1> QED BY <1>7, <1>8

\* What creating or starting a transaction does.
LEMMA BeginningIs ==
  ASSUME IInv, RootsAlone, Disciplined, NEW t \in Trx,
         \/ NewTransaction(t) \/ (\E p \in Trx \ {t} : NewNested(p, t))
         \/ AcquireConnection(t) \/ AcquireFail(t)
  PROVE  Only(t) /\ (Born(t) \/ Aborts(t) \/ Refused(t) \/ Starts(t))
<1>0. TypeOK /\ LifeCycle /\ Nesting
  BY DEF IInv
<1>1. CASE NewTransaction(t)
  <2>1. Only(t)
    BY <1>0, <1>1 DEF NewTransaction, Only, Untouched, TypeOK
  <2>2. Born(t)
    BY <1>0, <1>1 DEF NewTransaction, Born, Calm, TypeOK
  <2> QED BY <2>1, <2>2
<1>2. ASSUME NEW p \in Trx \ {t}, NewNested(p, t)
      PROVE  Only(t) /\ Born(t)
  <2>1. Only(t)
    BY <1>0, <1>2 DEF NewNested, Only, Untouched, TypeOK
  <2>2. HasTransactor(p) /\ wrote[p] \in {"no", "ok"}
    BY <1>2 DEF NewNested
  <2>3. anc' = [anc EXCEPT ![t] = Line(p)] /\ outer' = [outer EXCEPT ![t] = p]
    BY <1>2 DEF NewNested
  <2>4. /\ \A u \in Trx \ {t} : anc'[u] = anc[u] /\ outer'[u] = outer[u]
        /\ anc'[t] = Line(p) /\ outer'[t] = p
    BY <1>0, <2>3 DEF TypeOK
  <2>5. Born(t)
    BY <1>0, <1>2, <2>2, <2>4 DEF NewNested, Born, Calm, TypeOK
  <2> QED BY <2>1, <2>5
<1>3. CASE AcquireFail(t)
  <2>0. exec[t] = "pending" /\ exec' = Settled(t, "rejected")
    BY <1>0, <1>3 DEF AcquireFail, LifeCycle
  <2>1. exec'[t] = "rejected" /\ \A u \in Trx \ {t} : exec'[u] = exec[u]
    BY <1>0, <2>0, SettlesAre DEF Settles
  <2>2. Only(t)
    BY <1>0, <1>3, <2>1 DEF AcquireFail, Only, Untouched, TypeOK
  <2>3. anc[t] = {}
    BY <1>3 DEF AcquireFail, FromPool, RootsAlone
  <2>4. Aborts(t)
    BY <1>0, <1>3, <2>1, <2>3 DEF AcquireFail, Aborts, Calm, SameTree, tree, TypeOK
  <2> QED BY <2>2, <2>4
<1>4. CASE AcquireConnection(t)
  <2>0. exec[t] = "pending" /\ life[t] = "queued"
    BY <1>0, <1>4 DEF AcquireConnection, LifeCycle
  <2>1. PICK c \in Candidates(t) :
          /\ conn' = [conn EXCEPT ![t] = c]
          /\ IF IsCompleted(t) THEN UNCHANGED <<chan, reply>>
             ELSE Post(c, Message(t, InitKind(t), "undefined"), reply[c])
    BY <1>4 DEF AcquireConnection
  <2>2. c \in Conn
    BY <2>1, CandidatesAreConnections
  <2>3. conn'[t] = c
    BY <1>0, <2>1 DEF TypeOK
  <2>4. SameTree /\ UNCHANGED server /\ timer' = timer /\ wrote' = wrote /\ calls' = calls
        /\ life' = [life EXCEPT ![t] = "open"]
        /\ completed' = [completed EXCEPT ![t] = IsCompleted(t)]
    BY <1>4 DEF AcquireConnection, SameTree, tree
  <2>5. CASE IsCompleted(t)
    <3>1. exec'[t] = "rejected" /\ \A u \in Trx \ {t} : exec'[u] = exec[u]
      BY <1>0, <1>4, <2>0, <2>5, SettlesAre DEF AcquireConnection, Settles
    <3>2. stage' = [stage EXCEPT ![t] = "invoke"]
      BY <1>4, <2>5 DEF AcquireConnection
    <3>3. Only(t)
      BY <1>0, <2>1, <2>4, <2>5, <3>1, <3>2 DEF Only, Untouched, TypeOK
    <3>4. Refused(t)
      BY <1>0, <2>0, <2>1, <2>4, <2>5, <3>1, <3>2 DEF Refused, Calm, TypeOK
    <3> QED BY <3>3, <3>4
  <2>6. CASE ~IsCompleted(t)
    <3>1. exec' = exec /\ SiblingDone(t)
      BY <1>4, <2>6 DEF AcquireConnection
    <3>2. stage' = [stage EXCEPT ![t] = IF InitKind(t) = "isolation" THEN "isolation" ELSE "begin"]
      BY <1>4, <2>6 DEF AcquireConnection
    <3>3. Only(t)
      BY <1>0, <2>1, <2>4, <2>6, <3>1, <3>2 DEF Only, Untouched, TypeOK
    <3>4. Starts(t)
      BY <1>0, <2>0, <2>1, <2>2, <2>3, <2>4, <2>6, <3>1, <3>2 DEF Starts, Sends, TypeOK
    <3> QED BY <3>3, <3>4
  <2> QED BY <2>5, <2>6
<1> QED BY <1>1, <1>2, <1>3, <1>4

\* What the other steps of a transaction do.
LEMMA ActionIs ==
  ASSUME IInv, RootsAlone, Disciplined, NEW t \in Trx, User(t) \/ Runtime(t)
  PROVE  Only(t) /\ Says(t)
<1>0. TypeOK /\ LifeCycle
  BY DEF IInv
<1>1. CASE \/ NewTransaction(t) \/ (\E p \in Trx \ {t} : NewNested(p, t))
           \/ AcquireConnection(t) \/ AcquireFail(t)
  BY <1>1, BeginningIs DEF Says, Meanwhile
<1>2. CASE ContainerSettles(t) \/ UserFinishes(t)
  BY <1>2, FinishIs DEF Says, Meanwhile
<1>3. CASE UserQuery(t)
  <2>1. /\ HasTransactor(t) /\ wrote[t] = "no" /\ ChildrenDone(t)
        /\ UNCHANGED <<life, stage, exec, completed, tree, conn, timer, calls, server>>
    BY <1>3 DEF UserQuery, Ready
  <2>2. conn[t] \in Conn
    BY <2>1, TransactorConnected DEF HasTransactor
  <2>3. CASE IsCompleted(t)
    <3>1. wrote' = [wrote EXCEPT ![t] = "failed"] /\ Calm
      BY <1>3, <2>3 DEF UserQuery, Calm
    <3>2. Only(t)
      BY <1>0, <2>1, <3>1 DEF Only, Untouched, TypeOK
    <3>3. Fails(t)
      BY <1>0, <2>1, <2>3, <3>1 DEF Fails, SameTree, tree, TypeOK
    <3> QED BY <3>2, <3>3 DEF Says, Meanwhile
  <2>4. CASE ~IsCompleted(t)
    <3>1. /\ wrote' = [wrote EXCEPT ![t] = "sent"]
          /\ Post(conn[t], Message(t, "query", "undefined"), reply[conn[t]])
      BY <1>3, <2>4 DEF UserQuery
    <3>2. Only(t)
      BY <1>0, <2>1, <3>1 DEF Only, Untouched, TypeOK
    <3>3. Asks(t)
      BY <1>0, <2>1, <2>2, <2>4, <3>1 DEF Asks, Sends, SameTree, tree, TypeOK
    <3> QED BY <3>2, <3>3 DEF Says
  <2> QED BY <2>3, <2>4
<1>4. CASE InvokeContainer(t)
  <2>1. Only(t)
    BY <1>0, <1>4 DEF InvokeContainer, Only, Untouched, TypeOK
  <2>2. Invokes(t)
    BY <1>0, <1>4 DEF InvokeContainer, Invokes, SameTree, Calm, tree, TypeOK
  <2> QED BY <2>1, <2>2 DEF Says, Meanwhile
<1>5. CASE RollbackTimeout(t)
  <2>1. PICK o \in {"undefined", "rejected"} : exec' = Settled(t, o)
    BY <1>5 DEF RollbackTimeout
  <2>2. Settles(t, o) /\ \A u \in Trx \ {t} : exec'[u] = exec[u]
    BY <1>0, <2>1, SettlesAre
  <2>3. Only(t)
    BY <1>0, <1>5, <2>2 DEF RollbackTimeout, Only, Untouched, TypeOK
  <2>4. TimesOut(t)
    BY <1>0, <1>5, <2>1, <2>2 DEF RollbackTimeout, TimesOut, SameTree, Calm, tree, TypeOK
  <2> QED BY <2>3, <2>4 DEF Says, Meanwhile
<1>6. CASE Release(t)
  <2>1. Only(t)
    BY <1>0, <1>6 DEF Release, Only, Untouched, TypeOK
  <2>2. Closes(t)
    BY <1>0, <1>6 DEF Release, Closes, SameTree, Calm, tree, TypeOK
  <2> QED BY <2>1, <2>2 DEF Says, Meanwhile
<1> QED BY <1>1, <1>2, <1>3, <1>4, <1>5, <1>6 DEF User, Runtime

\* What an answer does to the transaction it is for.
LEMMA AnswerIs ==
  ASSUME IInv, NEW c \in Conn, Deliver(c)
  PROVE  \E m \in Answer : m.trx \in Trx /\ Only(m.trx) /\ Gets(c, m)
<1>0. TypeOK /\ reply \in [Conn -> Seq(Answer)]
  BY DEF IInv, TypeOK
<1>1. PICK m \in Answer : m = Head(reply[c]) /\ m = reply[c][1] /\ 1 \in DOMAIN reply[c]
                          /\ reply[c] # <<>>
  BY <1>0, TailAt DEF Deliver
<1>2. m.trx \in Trx /\ Connected(m.trx) /\ conn[m.trx] = c
  BY <1>1, OnTheWay
<1>3. UNCHANGED <<life, tree, conn, calls, server>>
  BY DEF Deliver
<1>4. Hears(c, m)
  BY <1>1, <1>2, <1>3 DEF Hears, SameTree, tree
<1>5. \/ InitFailed(c, m, Tail(reply[c])) \/ IsolationSet(c, m, Tail(reply[c]))
      \/ Begun(c, m, Tail(reply[c])) \/ Finished(c, m, Tail(reply[c]))
      \/ Queried(c, m, Tail(reply[c]))
  BY <1>1 DEF Deliver
<1>6. PICK t \in Trx : t = m.trx
  BY <1>2
<1>7. CASE InitFailed(c, m, Tail(reply[c]))
  <2>1. Settles(t, "rejected") /\ \A u \in Trx \ {t} : exec'[u] = exec[u]
    BY <1>0, <1>6, <1>7, SettlesAre DEF InitFailed, Rejected
  <2>2. Only(t)
    BY <1>0, <1>3, <1>6, <1>7, <2>1 DEF InitFailed, Rejected, Only, Untouched, TypeOK
  <2>3. HearsInitFailed(c, m)
    BY <1>0, <1>4, <1>6, <1>7, <2>1
    DEF InitFailed, Rejected, Consumed, HearsInitFailed, Takes, TypeOK
  <2> QED BY <1>6, <2>2, <2>3 DEF Gets
<1>8. CASE IsolationSet(c, m, Tail(reply[c]))
  <2>2. Only(t)
    BY <1>0, <1>3, <1>6, <1>8 DEF IsolationSet, Only, Untouched, TypeOK
  <2>3. HearsIsolation(c, m)
    BY <1>0, <1>4, <1>6, <1>8 DEF IsolationSet, HearsIsolation, TypeOK
  <2> QED BY <1>6, <2>2, <2>3 DEF Gets
<1>9. CASE Begun(c, m, Tail(reply[c]))
  <2>2. Only(t)
    BY <1>0, <1>3, <1>6, <1>9 DEF Begun, Only, Untouched, TypeOK
  <2>3. HearsBegun(c, m)
    BY <1>0, <1>4, <1>6, <1>9 DEF Begun, Consumed, HearsBegun, Takes, TypeOK
  <2> QED BY <1>6, <2>2, <2>3 DEF Gets
<1>10. CASE Finished(c, m, Tail(reply[c]))
  <2>1. Settles(t, Outcome(m)) /\ \A u \in Trx \ {t} : exec'[u] = exec[u]
    BY <1>0, <1>6, <1>10, SettlesAre DEF Finished
  <2>2. Only(t)
    BY <1>0, <1>3, <1>6, <1>10, <2>1 DEF Finished, Only, Untouched, TypeOK
  <2>3. HearsFinished(c, m)
    BY <1>0, <1>4, <1>6, <1>10, <2>1
    DEF Finished, Consumed, HearsFinished, Takes, TypeOK
  <2> QED BY <1>6, <2>2, <2>3 DEF Gets
<1>11. CASE Queried(c, m, Tail(reply[c]))
  <2>2. Only(t)
    BY <1>0, <1>3, <1>6, <1>11 DEF Queried, Only, Untouched, TypeOK
  <2>3. HearsQueried(c, m)
    BY <1>0, <1>4, <1>6, <1>11 DEF Queried, Consumed, HearsQueried, Takes, TypeOK
  <2> QED BY <1>6, <2>2, <2>3 DEF Gets
<1> QED BY <1>5, <1>7, <1>8, <1>9, <1>10, <1>11

\* Every step is one of these.
LEMMA StepIs ==
  ASSUME IInv, RootsAlone, Disciplined, [Next]_vars
  PROVE  \/ Outside
         \/ \E t \in Trx : Only(t) /\ Says(t)
         \/ \E c \in Conn, m \in Answer : m.trx \in Trx /\ Only(m.trx) /\ Gets(c, m)
<1>1. CASE UNCHANGED vars
  BY <1>1 DEF Outside, Untouched, SameTree, vars, tree
<1>2. ASSUME NEW c \in Conn, Execute(c) \/ Disconnect(c) \/ ReplaceConnection(c)
      PROVE  Outside
  BY <1>2 DEF Outside, Untouched, SameTree, tree, Execute, Disconnect, ReplaceConnection
<1>3. ASSUME NEW c \in Conn, Deliver(c)
      PROVE  \E m \in Answer : m.trx \in Trx /\ Only(m.trx) /\ Gets(c, m)
  BY <1>3, AnswerIs
<1>4. ASSUME NEW t \in Trx, User(t) \/ Runtime(t)
      PROVE  Only(t) /\ Says(t)
  BY <1>4, ActionIs
<1> QED BY <1>1, <1>2, <1>3, <1>4 DEF Next, Network

-----------------------------------------------------------------------------
(* The tree and the flags *)

\* What is known of an answer that is delivered.
LEMMA Heard ==
  ASSUME IInv, CarefulInv, NEW c, NEW m \in Answer, Hears(c, m)
  PROVE  /\ m.trx \in Trx /\ m.kind \in Kinds /\ c \in Conn
         /\ Connected(m.trx) /\ conn[m.trx] = c
         /\ Carries(c, m.trx, m.kind) /\ Flies(m.trx, m.kind)
<1>1. c \in Conn /\ reply[c] \in Seq(Answer) /\ reply[c] # <<>> /\ m = Head(reply[c])
  BY DEF IInv, TypeOK, Hears
<1>2. m = reply[c][1] /\ 1 \in DOMAIN reply[c] /\ m.trx \in Trx /\ m.kind \in Kinds
  BY <1>1, TailAt DEF Answer
<1>3. Carries(c, m.trx, m.kind)
  BY <1>2 DEF Carries, Lists
<1> QED BY <1>1, <1>2, <1>3 DEF CarefulInv, Queue, InFlight, Hears

LEMMA OutsideKeepsTree ==
  ASSUME SameTree
  PROVE  \A t \in Trx : /\ Line(t)' = Line(t) /\ IsNested(t)' = IsNested(t)
                        /\ anc'[t] = anc[t] /\ outer'[t] = outer[t]
BY DEF SameTree, Line, IsNested

\* Only a new transaction changes the tree.
LEMMA TreeMoves ==
  ASSUME IInv, RootsAlone, Disciplined, [Next]_vars
  PROVE  SameTree \/ \E t \in Trx : Only(t) /\ Born(t)
<1>1. CASE Outside
  BY <1>1 DEF Outside
<1>2. ASSUME NEW t \in Trx, Only(t), Says(t)
      PROVE  SameTree \/ Born(t)
  BY <1>2 DEF Says, Meanwhile, Aborts, Refused, Invokes, Lags, Fails, TimesOut, Closes,
       Starts, Asks, Finishes
<1>3. ASSUME NEW c \in Conn, NEW m \in Answer, Gets(c, m)
      PROVE  SameTree
  BY <1>3 DEF Gets, HearsInitFailed, HearsIsolation, HearsBegun, HearsFinished,
       HearsQueried, Hears
<1> QED BY <1>1, <1>2, <1>3, StepIs

LEMMA TreeStep ==
  ASSUME IInv, SessionInv, RootsAlone, Tree, Disciplined, [Next]_vars
  PROVE  RootsAlone' /\ Tree'
<1>0. TypeOK /\ Lasting
  <2>1. \A c \in Conn : OpeningIsLast(c)
    BY DEF SessionInv, Orderly
  <2> QED BY <2>1, LastingStep DEF IInv
<1>1. \A t \in Trx : \A a \in anc[t] : a \in Trx /\ Connected(a) /\ Connected(a)'
  BY <1>0 DEF Tree, TypeOK, Lasting
<1>2. CASE SameTree
  <2>1. RootsAlone'
    BY <1>2 DEF SameTree, RootsAlone, IsNested
  <2>2. Tree'
    BY <1>1, <1>2 DEF SameTree, Tree, IsNested, Line
  <2> QED BY <2>1, <2>2
<1>3. ASSUME NEW t \in Trx, Born(t)
      PROVE  RootsAlone' /\ Tree'
  <2>1. life[t] = "none" /\ ~Connected(t) /\ anc[t] = {} /\ ~IsNested(t)
        /\ \A u \in Trx \ {t} : anc'[u] = anc[u] /\ outer'[u] = outer[u]
    BY <1>3 DEF Born, Connected, IInv, LifeCycle, IsNested
  <2>2. CASE anc'[t] = anc[t] /\ outer'[t] = outer[t]
    <3>1. \A u \in Trx : anc'[u] = anc[u] /\ outer'[u] = outer[u]
      BY <2>1, <2>2
    <3>2. RootsAlone'
      BY <3>1 DEF RootsAlone, IsNested
    <3>3. Tree'
      <4>1. \A u \in Trx : Line(u)' = Line(u) /\ Line(u) \subseteq Trx
        BY <1>0, <3>1 DEF Line, TypeOK
      <4>2. ASSUME NEW u \in Trx
            PROVE  /\ u \notin anc'[u]
                   /\ \A a \in anc'[u] : /\ Connected(a)' /\ Line(a)' \subseteq anc'[u]
                                         /\ \E s \in Line(u)' : outer'[s] = a
                   /\ \A a, b \in Line(u)' : ~IsNested(a)' /\ ~IsNested(b)' => a = b
        <5>1. anc'[u] = anc[u] /\ Line(u)' = Line(u) /\ Line(u) \subseteq Trx
          BY <3>1, <4>1
        <5>2. \A a \in Trx : IsNested(a)' = IsNested(a) /\ outer'[a] = outer[a]
          BY <3>1 DEF IsNested
        <5>3. /\ u \notin anc[u]
              /\ \A a \in anc[u] : /\ Line(a) \subseteq anc[u]
                                   /\ \E s \in Line(u) : outer[s] = a
              /\ \A a, b \in Line(u) : ~IsNested(a) /\ ~IsNested(b) => a = b
          BY DEF Tree
        <5>4. \A a \in anc[u] : Line(a)' \subseteq anc[u]
          BY <1>1, <4>1, <5>3
        <5> QED BY <1>1, <5>1, <5>2, <5>3, <5>4
      <4> QED BY <4>2 DEF Tree
    <3> QED BY <3>2, <3>3
  <2>3. ASSUME NEW p \in Trx \ {t}, HasTransactor(p), anc'[t] = Line(p), outer'[t] = p
        PROVE  RootsAlone' /\ Tree'
    <3>0. Connected(p) /\ Connected(p)' /\ p # NoTrx
      BY <1>0, <2>3, TransactorConnected, SessionAssumption DEF HasTransactor, Lasting
    <3>1. RootsAlone'
      BY <2>1, <2>3, <3>0 DEF RootsAlone, IsNested
    <3>2. \A u \in Trx \ {t} : Line(u)' = Line(u) /\ Line(u) \subseteq Trx \ {t}
      BY <1>0, <1>1, <2>1 DEF Line, TypeOK
    <3>3. Line(t)' = {t} \cup Line(p)
      BY <2>3 DEF Line
    <3>4. \A u \in Trx \ {t} : IsNested(u)' = IsNested(u) /\ outer'[u] = outer[u]
      BY <2>1 DEF IsNested
    <3>5. IsNested(t)'
      BY <2>3, <3>0 DEF IsNested
    <3>6. ASSUME NEW u \in Trx \ {t}
          PROVE  /\ u \notin anc'[u]
                 /\ \A a \in anc'[u] : /\ Connected(a)' /\ Line(a)' \subseteq anc'[u]
                                       /\ \E s \in Line(u)' : outer'[s] = a
                 /\ \A a, b \in Line(u)' : ~IsNested(a)' /\ ~IsNested(b)' => a = b
      <4>1. anc'[u] = anc[u] /\ Line(u)' = Line(u) /\ Line(u) \subseteq Trx \ {t}
            /\ anc[u] \subseteq Trx \ {t}
        BY <2>1, <3>2 DEF Line
      <4>2. /\ u \notin anc[u]
            /\ \A a \in anc[u] : /\ Line(a) \subseteq anc[u]
                                 /\ \E s \in Line(u) : outer[s] = a
            /\ \A a, b \in Line(u) : ~IsNested(a) /\ ~IsNested(b) => a = b
        BY DEF Tree
      <4>3. \A a \in anc[u] : Line(a)' \subseteq anc[u]
        BY <3>2, <4>1, <4>2
      <4>4. \A a \in anc[u] : \E s \in Line(u) : outer'[s] = a
        BY <3>4, <4>1, <4>2
      <4>5. \A a, b \in Line(u) : ~IsNested(a)' /\ ~IsNested(b)' => a = b
        BY <3>4, <4>1, <4>2
      <4> QED BY <1>1, <4>1, <4>2, <4>3, <4>4, <4>5
    <3>7. /\ t \notin anc'[t]
          /\ \A a \in anc'[t] : /\ Connected(a)' /\ Line(a)' \subseteq anc'[t]
                                /\ \E s \in Line(t)' : outer'[s] = a
          /\ \A a, b \in Line(t)' : ~IsNested(a)' /\ ~IsNested(b)' => a = b
      <4>1. anc'[t] = Line(p) /\ Line(p) \subseteq Trx \ {t} /\ Line(p) = {p} \cup anc[p]
        BY <2>3, <3>2 DEF Line
      <4>2. \A a \in Line(p) : Connected(a)' /\ Line(a)' \subseteq Line(p)
        <5>1. \A a \in anc[p] : Line(a) \subseteq anc[p]
          BY DEF Tree
        <5> QED BY <1>1, <3>0, <3>2, <4>1, <5>1
      <4>3. \A a \in Line(p) : \E s \in Line(t)' : outer'[s] = a
        <5>1. \A a \in anc[p] : \E s \in Line(p) : outer[s] = a
          BY DEF Tree
        <5>2. \A a \in anc[p] : \E s \in Line(p) : outer'[s] = a
          BY <3>4, <4>1, <5>1
        <5> QED BY <2>3, <3>3, <4>1, <5>2
      <4>4. \A a, b \in Line(p) : ~IsNested(a)' /\ ~IsNested(b)' => a = b
        <5>1. \A a, b \in Line(p) : ~IsNested(a) /\ ~IsNested(b) => a = b
          BY DEF Tree
        <5> QED BY <3>4, <4>1, <5>1
      <4> QED BY <3>3, <3>5, <4>1, <4>2, <4>3, <4>4
    <3>8. Tree'
      BY <3>6, <3>7 DEF Tree
    <3> QED BY <3>1, <3>8
  <2> QED BY <1>3, <2>2, <2>3 DEF Born
<1> QED BY <1>2, <1>3, TreeMoves

\* A transaction whose container has not ended is no further than that.
LEMMA NotEnded ==
  ASSUME Flags, NEW t \in Trx, Running(t), completed[t]
  PROVE  ~Ends(t)
BY DEF Flags, Ends

FlagsOf(t) ==
  /\ ~Connected(t) => ~completed[t] /\ wrote[t] = "no"
  /\ wrote[t] # "no" => Underway(t)
  /\ timer[t] # "off" => exec[t] = "pending"
  /\ Running(t) /\ completed[t] =>
       stage[t] = "settled" \/ (stage[t] = "detached" /\ calls[t] # 0)

LEMMA FlagsStep ==
  ASSUME IInv, CarefulInv, Disciplined, [Next]_vars
  PROVE  Flags'
<1>0. TypeOK /\ LifeCycle /\ Flags /\ SettledIsCompleted
  BY DEF IInv, CarefulInv
<1>1. ASSUME NEW t \in Trx, Untouched(t)
      PROVE  FlagsOf(t)'
  <2>1. FlagsOf(t)
    BY <1>0 DEF Flags, FlagsOf
  <2> QED BY <1>1, <2>1 DEF FlagsOf, Untouched, Connected, Underway, Running
<1>2. ASSUME NEW t \in Trx, Says(t)
      PROVE  FlagsOf(t)'
  <2>0. /\ FlagsOf(t) /\ t \in Line(t)
        /\ stage[t] # "idle" => Connected(t)
        /\ timer[t] # "off" => completed[t] /\ Connected(t)
        /\ life[t] = "closed" => exec[t] # "pending"
        /\ life[t] = "queued" => ~Connected(t) /\ exec[t] = "pending"
        /\ life[t] = "none" => ~Connected(t)
    BY <1>0 DEF Flags, FlagsOf, LifeCycle, Line, Connected
  <2>1. CASE Born(t)
    BY <2>0, <2>1 DEF Born, FlagsOf, Connected, Underway, Running
  <2>2. CASE Aborts(t)
    BY <2>0, <2>2 DEF Aborts, FlagsOf, Connected, Underway, Running
  <2>3. CASE Refused(t)
    BY <2>0, <2>3 DEF Refused, FlagsOf, Connected, Underway, Running
  <2>4. CASE Invokes(t)
    BY <2>0, <2>4 DEF Invokes, FlagsOf, Connected, Underway, Running
  <2>5. CASE Lags(t)
    <3>1. ~(Running(t) /\ completed[t])
      BY <1>0, <2>5, NotEnded DEF Lags
    <3> QED BY <2>0, <2>5, <3>1 DEF Lags, Ends, Settles, FlagsOf, Connected, Underway, Running
  <2>6. CASE Fails(t)
    BY <2>0, <2>6 DEF Fails, HasTransactor, FlagsOf, Connected, Underway, Running
  <2>7. CASE TimesOut(t)
    BY <2>0, <2>7 DEF TimesOut, Settles, FlagsOf, Connected, Underway, Running
  <2>8. CASE Closes(t)
    BY <2>0, <2>8 DEF Closes, FlagsOf, Connected, Underway, Running
  <2>9. CASE Starts(t)
    BY <2>0, <2>9 DEF Starts, FlagsOf, Connected, Underway, Running
  <2>10. CASE Asks(t)
    BY <2>0, <2>10 DEF Asks, HasTransactor, FlagsOf, Connected, Underway, Running
  <2>11. ASSUME NEW k \in Finals, NEW a \in Args, Finishes(t, k, a)
         PROVE  FlagsOf(t)'
    <3>1. ~completed[t]
      BY <2>0, <2>11 DEF Finishes, IsCompleted
    <3>2. exec[t] = "pending"
      BY <1>0, <2>0, <2>11, <3>1 DEF Finishes, Ends, SettledIsCompleted
    <3> QED BY <2>0, <2>11, <3>1, <3>2 DEF Finishes, Ends, FlagsOf, Connected, Underway, Running
  <2> QED BY <1>2, <2>1, <2>2, <2>3, <2>4, <2>5, <2>6, <2>7, <2>8, <2>9, <2>10, <2>11
          DEF Says, Meanwhile
<1>3. ASSUME NEW c \in Conn, NEW m \in Answer, m.trx \in Trx, Gets(c, m)
      PROVE  FlagsOf(m.trx)'
  <2>0. /\ FlagsOf(m.trx) /\ m.kind \in Kinds /\ Flies(m.trx, m.kind) /\ Connected(m.trx)
    <3>1. Hears(c, m)
      BY <1>3 DEF Gets, HearsInitFailed, HearsIsolation, HearsBegun, HearsFinished, HearsQueried
    <3> QED BY <1>0, <3>1, Heard DEF Flags, FlagsOf
  <2>1. timer[m.trx] # "off" => completed[m.trx]
    BY <1>0, <1>3 DEF LifeCycle
  <2>2. CASE HearsInitFailed(c, m)
    BY <2>0, <2>1, <2>2 DEF HearsInitFailed, Hears, Settles, Flies, FlagsOf, Connected, Underway, Running
  <2>3. CASE HearsIsolation(c, m)
    BY <2>0, <2>1, <2>3 DEF HearsIsolation, Hears, Flies, FlagsOf, Connected, Underway, Running
  <2>4. CASE HearsBegun(c, m)
    BY <2>0, <2>1, <2>4 DEF HearsBegun, Hears, Flies, FlagsOf, Connected, Underway, Running
  <2>5. CASE HearsFinished(c, m)
    <3>1. Outcome(m) # "pending"
      BY DEF Outcome
    <3> QED BY <2>0, <2>1, <2>5, <3>1
            DEF HearsFinished, Hears, Settles, Finals, Flies, FlagsOf, Connected, Underway, Running
  <2>6. CASE HearsQueried(c, m)
    BY <2>0, <2>1, <2>6 DEF HearsQueried, Hears, Flies, FlagsOf, Connected, Underway, Running
  <2> QED BY <1>3, <2>2, <2>3, <2>4, <2>5, <2>6 DEF Gets
<1>4. \A t \in Trx : FlagsOf(t)'
  BY <1>0, <1>1, <1>2, <1>3, StepIs DEF Outside, Only, CarefulInv
<1> QED BY <1>4 DEF Flags, FlagsOf

-----------------------------------------------------------------------------
(* Those around a nested transaction wait *)

LEMMA Uncompleted ==
  ASSUME IInv, NEW t \in Trx, Connected(t), ~completed[t]
  PROVE  Running(t)
BY DEF IInv, SettledIsCompleted, LifeCycle, Running, Connected

\* The steps that can start a promise, or keep it unsettled.
LEMMA RunningBefore ==
  ASSUME IInv, CarefulInv, Disciplined, [Next]_vars, NEW t \in Trx, Running(t)'
  PROVE  Running(t) \/ (Only(t) /\ Starts(t))
<1>1. CASE Untouched(t)
  BY <1>1 DEF Untouched, Running
<1>2. CASE Only(t) /\ Says(t)
  <2>0. life[t] = "closed" => exec[t] # "pending"
    BY DEF IInv, LifeCycle
  <2>1. CASE Born(t) \/ Aborts(t) \/ Refused(t)
    BY <2>1 DEF Born, Aborts, Refused, Running
  <2>2. CASE Invokes(t) \/ Fails(t) \/ Closes(t) \/ Asks(t)
    BY <2>2 DEF Invokes, Fails, Closes, Asks, Running
  <2>3. CASE Lags(t) \/ TimesOut(t)
    BY <2>3 DEF Lags, TimesOut, Settles, Running
  <2>4. CASE \E k \in Finals, a \in Args : Finishes(t, k, a)
    BY <2>4 DEF Finishes, Running
  <2> QED BY <1>2, <2>1, <2>2, <2>3, <2>4 DEF Says, Meanwhile
<1>3. ASSUME NEW c \in Conn, NEW m \in Answer, t = m.trx, Gets(c, m)
      PROVE  Running(t)
  <2>1. CASE HearsInitFailed(c, m) \/ HearsFinished(c, m)
    BY <1>3, <2>1 DEF HearsInitFailed, HearsFinished, Hears, Settles, Running
  <2>2. CASE HearsIsolation(c, m) \/ HearsBegun(c, m) \/ HearsQueried(c, m)
    BY <1>3, <2>2 DEF HearsIsolation, HearsBegun, HearsQueried, Hears, Running
  <2> QED BY <1>3, <2>1, <2>2 DEF Gets
<1> QED BY <1>1, <1>2, <1>3, StepIs DEF Outside, Only, CarefulInv

\* What holds of a transaction around one that goes on.
LEMMA Around ==
  ASSUME IInv, SessionInv, CarefulInv, NEW t \in Trx, Alive(t), NEW a \in anc[t]
  PROVE  /\ a \in Trx /\ Running(a) /\ ~completed[a] /\ wrote[a] \in {"no", "ok"}
         /\ Underway(a) /\ ~IsCompleted(a) /\ ~ChildrenDone(a)
         /\ \A c \in Conn, k \in Kinds : ~Carries(c, a, k)
<1>1. anc[t] \subseteq Trx
  BY DEF IInv, TypeOK
<1>2. \A b \in anc[t] : Running(b) /\ ~completed[b] /\ wrote[b] \in {"no", "ok"}
  BY DEF CarefulInv, AroundWaits
<1>3. Underway(a)
  BY DEF SessionInv, AroundUnderway
<1>4. ~IsCompleted(a)
  <2>1. Line(a) \subseteq anc[t]
    BY DEF CarefulInv, Tree
  <2> QED BY <1>2, <2>1 DEF IsCompleted
<1>5. ~ChildrenDone(a)
  <2>1. PICK s \in Line(t) : outer[s] = a
    BY DEF CarefulInv, Tree
  <2>2. s \in Trx /\ ~Done(s)
    BY <1>1, <1>2, <2>1 DEF Line, Alive, Running, Done
  <2> QED BY <2>1, <2>2 DEF ChildrenDone, Children
<1>6. ASSUME NEW c \in Conn, NEW k \in Kinds, Carries(c, a, k)
      PROVE  FALSE
  <2>1. Flies(a, k)
    BY <1>1, <1>6 DEF CarefulInv, Queue, InFlight
  <2> QED BY <1>2, <1>3, <2>1 DEF Flies, Kinds, Underway
<1> QED BY <1>1, <1>2, <1>3, <1>4, <1>5, <1>6

\* It stays so.
LEMMA AroundKept ==
  ASSUME IInv, SessionInv, CarefulInv, Disciplined, [Next]_vars,
         NEW t \in Trx, Alive(t), NEW a \in anc[t]
  PROVE  Running(a)' /\ completed'[a] = completed[a] /\ wrote'[a] = wrote[a]
<1>1. /\ a \in Trx /\ Running(a) /\ ~completed[a] /\ wrote[a] \in {"no", "ok"}
      /\ Underway(a) /\ ~IsCompleted(a) /\ ~ChildrenDone(a)
      /\ \A c \in Conn, k \in Kinds : ~Carries(c, a, k)
  BY Around
<1>2. CASE Untouched(a)
  BY <1>1, <1>2 DEF Untouched, Running
<1>3. CASE Says(a)
  <2>1. life[a] = "open" /\ exec[a] = "pending" /\ timer[a] = "off"
    BY <1>1 DEF Running, IInv, LifeCycle
  <2>2. Invokes(a)
    BY <1>1, <1>3, <2>1 DEF Says, Meanwhile, Born, Aborts, Refused, Lags, Fails, TimesOut,
       Closes, Starts, Asks, Finishes
  <2> QED BY <2>1, <2>2 DEF Invokes, Running
<1>4. ASSUME NEW c \in Conn, NEW m \in Answer, a = m.trx, Gets(c, m)
      PROVE  FALSE
  <2>1. Hears(c, m)
    BY <1>4 DEF Gets, HearsInitFailed, HearsIsolation, HearsBegun, HearsFinished, HearsQueried
  <2> QED BY <1>1, <1>4, <2>1, Heard
<1> QED BY <1>1, <1>2, <1>3, <1>4, StepIs DEF Outside, Only, CarefulInv

\* Who goes on went on before, or is new.
LEMMA AliveBefore ==
  ASSUME IInv, SessionInv, CarefulInv, Disciplined, [Next]_vars, NEW t \in Trx, Alive(t)'
  PROVE  \/ Alive(t) /\ anc'[t] = anc[t]
         \/ Only(t) /\ Born(t) /\ life'[t] = "queued"
<1>0. TypeOK /\ Lasting /\ LifeCycle
  <2>1. \A c \in Conn : OpeningIsLast(c)
    BY DEF SessionInv, Orderly
  <2> QED BY <2>1, LastingStep DEF IInv
<1>1. CASE Only(t) /\ Born(t)
  BY <1>1 DEF Born
<1>2. CASE ~(Only(t) /\ Born(t))
  <2>1. anc'[t] = anc[t]
    BY <1>2, TreeMoves DEF SameTree, Only, Born, CarefulInv
  <2>2. CASE life'[t] = "queued"
    <3>1. life[t] = "queued"
      <4>1. CASE Untouched(t)
        BY <2>2, <4>1 DEF Untouched
      <4>2. CASE Only(t) /\ Says(t)
        BY <1>2, <2>2, <4>2 DEF Says, Meanwhile, Aborts, Refused, Invokes, Lags, Fails, TimesOut,
           Closes, Starts, Asks, Finishes
      <4>3. ASSUME NEW c \in Conn, NEW m \in Answer, t = m.trx, Gets(c, m)
            PROVE  life[t] = "queued"
        BY <2>2, <4>3 DEF Gets, HearsInitFailed, HearsIsolation, HearsBegun, HearsFinished,
           HearsQueried, Hears
      <4> QED BY <4>1, <4>2, <4>3, StepIs DEF Outside, Only, CarefulInv
    <3>2. ~IsCompleted(t)'
      BY <2>2 DEF Alive
    <3>3. ~completed[t] /\ \A a \in anc[t] : a \in Trx /\ Connected(a)
      BY <1>0, <3>1 DEF CarefulInv, Flags, Tree, Connected, TypeOK
    <3>4. ~IsCompleted(t)
      BY <1>0, <2>1, <3>2, <3>3 DEF IsCompleted, Line, Lasting
    <3> QED BY <2>1, <3>1, <3>4 DEF Alive
  <2>3. CASE life'[t] # "queued"
    <3>1. Running(t)'
      BY <2>3 DEF Alive
    <3>2. CASE Running(t)
      BY <2>1, <3>2 DEF Alive, Running
    <3>3. CASE Starts(t)
      BY <2>1, <3>3 DEF Starts, Alive
    <3> QED BY <3>1, <3>2, <3>3, RunningBefore
  <2> QED BY <2>2, <2>3
<1> QED BY <1>1, <1>2

LEMMA AroundWaitsStep ==
  ASSUME IInv, SessionInv, CarefulInv, Disciplined, [Next]_vars
  PROVE  AroundWaits'
<1>1. ASSUME NEW t \in Trx, Alive(t)', NEW a \in anc'[t]
      PROVE  Running(a)' /\ ~completed'[a] /\ wrote'[a] \in {"no", "ok"}
  <2>1. CASE Alive(t) /\ anc'[t] = anc[t]
    <3>1. a \in anc[t]
      BY <1>1, <2>1
    <3>2. Running(a)' /\ completed'[a] = completed[a] /\ wrote'[a] = wrote[a]
      BY <2>1, <3>1, AroundKept
    <3>3. ~completed[a] /\ wrote[a] \in {"no", "ok"}
      BY <2>1, <3>1, Around
    <3> QED BY <3>2, <3>3
  <2>2. CASE Only(t) /\ Born(t) /\ life'[t] = "queued"
    <3>0. anc[t] = {}
      BY <2>2 DEF Born, IInv, LifeCycle
    <3>1. PICK p \in Trx \ {t} : /\ HasTransactor(p) /\ wrote[p] \in {"no", "ok"}
                                 /\ anc'[t] = Line(p)
      BY <1>1, <2>2, <3>0 DEF Born
    <3>2. ~IsCompleted(t)' /\ Line(p) \subseteq Trx
      BY <1>1, <2>2 DEF Alive, Line, IInv, TypeOK
    <3>3. \A b \in Line(p) : ~completed'[b]
      BY <3>1, <3>2 DEF IsCompleted, Line
    <3>4. t \notin Line(p)
      <4>1. \A b \in anc[p] : Connected(b)
        BY DEF CarefulInv, Tree
      <4> QED BY <2>2, <3>1, <4>1 DEF Born, Connected, Line
    <3>5. \A b \in Line(p) : Untouched(b)
      BY <2>2, <3>2, <3>4 DEF Only
    <3>6. Running(p)
      <4>1. Connected(p) /\ p \in Line(p)
        BY <3>1, TransactorConnected DEF HasTransactor, Line
      <4> QED BY <3>3, <3>5, <4>1, Uncompleted DEF Untouched
    <3>7. Alive(p)
      BY <3>6 DEF Alive, Running
    <3>8. CASE a = p
      BY <3>1, <3>3, <3>5, <3>6, <3>8 DEF Untouched, Running, Line
    <3>9. CASE a \in anc[p]
      <4>1. Running(a) /\ wrote[a] \in {"no", "ok"}
        BY <3>7, <3>9, Around
      <4> QED BY <3>3, <3>5, <3>9, <4>1 DEF Untouched, Running, Line
    <3> QED BY <1>1, <3>1, <3>8, <3>9 DEF Line
  <2> QED BY <1>1, <2>1, <2>2, AliveBefore
<1>2. ASSUME NEW t \in Trx, Alive(t)'
      PROVE  \A a \in anc'[t] : Running(a)' /\ ~completed'[a] /\ wrote'[a] \in {"no", "ok"}
  BY <1>1, <1>2
<1> QED BY <1>2 DEF AroundWaits

-----------------------------------------------------------------------------
(* Unsettled transactions of a connection are nested in each other *)

\* What a transaction that starts finds on the connection it gets.
LEMMA StartsInLine ==
  ASSUME IInv, SessionInv, CarefulInv, SiblingsTakeTurns', NEW t \in Trx,
         Only(t), Starts(t), NEW u \in Trx, Running(u), conn[u] = conn'[t]
  PROVE  u \in anc[t]
<1>0. TypeOK /\ Nesting /\ Rooted
  BY DEF IInv
<1>1. life[t] = "queued" /\ ~Connected(t) /\ Alive(t) /\ u # t
  BY DEF Starts, Alive, Connected, Running
<1>2. Connected(u) /\ Alive(u)
  BY DEF Running, Connected, Alive
<1>3. t \notin Line(u)
  <2>1. \A a \in anc[u] : Connected(a)
    BY DEF CarefulInv, Tree
  <2> QED BY <1>1, <2>1 DEF Line
<1>4. CASE IsNested(t)
  <2> DEFINE p == outer[t]
  <2>1. p \in Trx /\ anc[t] = Line(p) /\ conn'[t] = conn[p]
    BY <1>0, <1>4 DEF Nesting, TypeOK, IsNested, Starts, Candidates
  <2>2. p \in anc[t]
    BY <2>1 DEF Line
  <2>3. Running(p)
    BY <1>1, <2>2, Around
  <2>4. p \in Line(u) \/ u \in Line(p)
    BY <2>1, <2>3 DEF CarefulInv, OneLine
  <2>5. CASE u \in Line(p)
    BY <2>1, <2>5
  <2>6. CASE p \in anc[u]
    <3>1. PICK s \in Line(u) : outer[s] = p
      BY <2>6 DEF CarefulInv, Tree
    <3>2. s \in Trx /\ s # t
      BY <1>0, <1>3, <3>1 DEF Line, TypeOK
    <3>3. Running(s)
      <4>1. CASE s = u
        BY <4>1
      <4>2. CASE s \in anc[u]
        BY <1>2, <4>2, Around
      <4> QED BY <3>1, <4>1, <4>2 DEF Line
    <3>4. life'[s] = "open" /\ life'[t] = "open"
      BY <3>2, <3>3 DEF Only, Untouched, Running, Starts
    <3>5. outer'[s] = outer'[t] /\ IsNested(s)'
      BY <1>4, <3>1 DEF Starts, SameTree, IsNested
    <3> QED BY <3>2, <3>4, <3>5 DEF SiblingsTakeTurns
  <2> QED BY <2>1, <2>4, <2>5, <2>6 DEF Line
<1>5. CASE ~IsNested(t)
  <2>1. \A r \in Trx : IsRoot(r) /\ life[r] = "open" => conn[r] # conn'[t]
    BY <1>1, <1>5, CandidateUnheld DEF Starts
  <2>2. PICK r \in Line(u) : IsRoot(r) /\ conn[u] = conn[r]
    BY <1>2 DEF IInv, Rooted, Connected
  <2>3. r \in Trx /\ life[r] = "open"
    <3>1. CASE r = u
      BY <3>1 DEF Running
    <3>2. CASE r \in anc[u]
      BY <1>2, <3>2, Around DEF Running
    <3> QED BY <2>2, <3>1, <3>2 DEF Line
  <2> QED BY <2>1, <2>2, <2>3
<1> QED BY <1>4, <1>5

LEMMA OneLineStep ==
  ASSUME IInv, SessionInv, CarefulInv, SiblingsTakeTurns', Disciplined, [Next]_vars
  PROVE  OneLine'
<1>0. Lasting
  <2>1. \A c \in Conn : OpeningIsLast(c)
    BY DEF SessionInv, Orderly
  <2> QED BY <2>1, LastingStep
<1>1. ASSUME NEW t \in Trx, NEW u \in Trx, Only(t), Starts(t), Running(u)', u # t,
             conn'[t] = conn'[u]
      PROVE  u \in anc'[t]
  <2>1. Untouched(u) /\ anc' = anc
    BY <1>1 DEF Only, Starts, SameTree
  <2>2. Running(u) /\ conn[u] = conn'[t]
    BY <1>1, <2>1 DEF Untouched, Running
  <2> QED BY <1>1, <2>1, <2>2, StartsInLine
<1>2. ASSUME NEW t \in Trx, NEW u \in Trx, Running(t), Running(u), conn'[t] = conn'[u]
      PROVE  t \in Line(u)' \/ u \in Line(t)'
  <2>1. Connected(t) /\ Connected(u)
    BY <1>2 DEF Running, Connected
  <2>2. conn[t] = conn[u] /\ Line(t)' = Line(t) /\ Line(u)' = Line(u)
    BY <1>0, <1>2, <2>1 DEF Lasting, Line
  <2> QED BY <1>2, <2>2 DEF CarefulInv, OneLine
<1>3. ASSUME NEW t \in Trx, NEW u \in Trx, Running(t)', Running(u)', conn'[t] = conn'[u]
      PROVE  t \in Line(u)' \/ u \in Line(t)'
  <2>1. CASE t = u
    BY <2>1 DEF Line
  <2>2. CASE Only(t) /\ Starts(t) /\ t # u
    BY <1>1, <1>3, <2>2 DEF Line
  <2>3. CASE Only(u) /\ Starts(u) /\ t # u
    BY <1>1, <1>3, <2>3 DEF Line
  <2> QED BY <1>2, <1>3, <2>1, <2>2, <2>3, RunningBefore
<1> QED BY <1>3 DEF OneLine

-----------------------------------------------------------------------------
(* Queues and what they hold *)

LEMMA ListsAppend ==
  ASSUME NEW S, NEW q \in Seq(S), NEW m \in S, NEW t, NEW k
  PROVE  /\ Lists(Append(q, m), t, k) <=> Lists(q, t, k) \/ (m.trx = t /\ m.kind = k)
         /\ \A ok : Tells(Append(q, m), t, k, ok) <=>
                      Tells(q, t, k, ok) \/ (m.trx = t /\ m.kind = k /\ m.ok = ok)
<1>1. /\ DOMAIN q = 1 .. Len(q) /\ Len(q) \in Nat
      /\ DOMAIN Append(q, m) = 1 .. Len(q) + 1
      /\ \A i \in 1 .. Len(q) : Append(q, m)[i] = q[i]
      /\ Append(q, m)[Len(q) + 1] = m
  BY AppendAt
<1>2. DOMAIN Append(q, m) = DOMAIN q \cup {Len(q) + 1}
  BY <1>1
<1> DEFINE e == Append(q, m)
<1>3. \A i \in DOMAIN q : e[i] = q[i]
  BY <1>1
<1>4. e[Len(q) + 1] = m
  BY <1>1
<1> HIDE DEF e
<1> QED BY <1>2, <1>3, <1>4 DEF Lists, Tells, e

LEMMA ListsTail ==
  ASSUME NEW S, NEW q \in Seq(S), q # <<>>, NEW t, NEW k
  PROVE  /\ Lists(q, t, k) <=>
              Lists(Tail(q), t, k) \/ (Head(q).trx = t /\ Head(q).kind = k)
         /\ \A ok : Tells(q, t, k, ok) <=>
              \/ Tells(Tail(q), t, k, ok)
              \/ Head(q).trx = t /\ Head(q).kind = k /\ Head(q).ok = ok
<1>1. /\ DOMAIN q = 1 .. Len(q) /\ Len(q) \in Nat /\ Len(q) >= 1
      /\ Head(q) = q[1] /\ 1 \in DOMAIN q
      /\ DOMAIN Tail(q) = 1 .. Len(q) - 1
      /\ \A i \in 1 .. Len(q) - 1 : i + 1 \in DOMAIN q /\ Tail(q)[i] = q[i + 1]
  BY TailAt
<1> DEFINE e == Tail(q)
           h == Head(q)
<1>2. /\ \A i \in DOMAIN e : i + 1 \in DOMAIN q /\ e[i] = q[i + 1]
      /\ \A j \in DOMAIN q : j = 1 \/ (j - 1 \in DOMAIN e /\ (j - 1) + 1 = j)
      /\ 1 \in DOMAIN q /\ h = q[1]
  BY <1>1
<1> HIDE DEF e, h
<1>3. \A j \in DOMAIN q : q[j] = h \/ \E i \in DOMAIN e : e[i] = q[j]
  BY <1>2
<1>4. Lists(q, t, k) <=> Lists(e, t, k) \/ (h.trx = t /\ h.kind = k)
  BY <1>2, <1>3 DEF Lists
<1>5. ASSUME NEW ok
      PROVE  Tells(q, t, k, ok) <=>
               Tells(e, t, k, ok) \/ (h.trx = t /\ h.kind = k /\ h.ok = ok)
  BY <1>2, <1>3 DEF Tells
<1> QED BY <1>4, <1>5 DEF e, h

LEMMA ListsConcat ==
  ASSUME NEW S, NEW r \in Seq(S), NEW q \in Seq(S), NEW t, NEW k
  PROVE  /\ Lists(r \o q, t, k) <=> Lists(r, t, k) \/ Lists(q, t, k)
         /\ \A ok : Tells(r \o q, t, k, ok) <=> Tells(r, t, k, ok) \/ Tells(q, t, k, ok)
<1> DEFINE e == r \o q
<1>1. /\ DOMAIN q = 1 .. Len(q) /\ Len(q) \in Nat /\ DOMAIN r = 1 .. Len(r) /\ Len(r) \in Nat
  BY LenProperties
<1>2. /\ DOMAIN e = 1 .. Len(r) + Len(q)
      /\ \A i \in 1 .. Len(r) : e[i] = r[i]
      /\ \A i \in 1 .. Len(q) : e[Len(r) + i] = q[i]
  BY ConcatAt
<1> HIDE DEF e
<1>3. /\ \A i \in DOMAIN r : i \in DOMAIN e /\ e[i] = r[i]
      /\ \A i \in DOMAIN q : Len(r) + i \in DOMAIN e /\ e[Len(r) + i] = q[i]
      /\ \A j \in DOMAIN e : j \in DOMAIN r \/ \E i \in DOMAIN q : j = Len(r) + i
  <2>1. ASSUME NEW j \in DOMAIN e
        PROVE  j \in DOMAIN r \/ \E i \in DOMAIN q : j = Len(r) + i
    <3>1. j \in DOMAIN r \/ j - Len(r) \in DOMAIN q
      BY <1>1, <1>2
    <3>2. j = Len(r) + (j - Len(r))
      BY <1>1, <1>2
    <3> QED BY <3>1, <3>2
  <2> QED BY <1>1, <1>2, <2>1
<1>4. Lists(e, t, k) <=> Lists(r, t, k) \/ Lists(q, t, k)
  BY <1>3 DEF Lists
<1>5. ASSUME NEW ok
      PROVE  Tells(e, t, k, ok) <=> Tells(r, t, k, ok) \/ Tells(q, t, k, ok)
  BY <1>3 DEF Tells
<1> QED BY <1>4, <1>5 DEF e

LEMMA ListsFailures ==
  ASSUME NEW S \in {Request, Answer}, NEW q \in Seq(S), NEW t, NEW k
  PROVE  /\ Failures(q) \in Seq(Answer)
         /\ Lists(Failures(q), t, k) <=> Lists(q, t, k)
         /\ \A ok : Tells(Failures(q), t, k, ok) <=> ok = FALSE /\ Lists(q, t, k)
<1> DEFINE f == Failures(q)
<1>1. /\ f \in Seq(Answer) /\ DOMAIN f = DOMAIN q
      /\ \A i \in DOMAIN q : f[i] = Reply(q[i], FALSE)
  BY FailuresAt
<1> HIDE DEF f
<1>2. \A i \in DOMAIN q : f[i].trx = q[i].trx /\ f[i].kind = q[i].kind /\ f[i].ok = FALSE
  BY <1>1 DEF Reply
<1>3. Lists(f, t, k) <=> Lists(q, t, k)
  BY <1>1, <1>2 DEF Lists
<1>4. ASSUME NEW ok
      PROVE  Tells(f, t, k, ok) <=> ok = FALSE /\ Lists(q, t, k)
  BY <1>1, <1>2 DEF Tells, Lists
<1> QED BY <1>1, <1>3, <1>4 DEF f

\* What a lost connection still tells: of everything, that it failed.
LEMMA ListsLost ==
  ASSUME NEW r \in Seq(Answer), NEW q \in Seq(Request), NEW t, NEW k
  PROVE  /\ Lists(Failures(r) \o Failures(q), t, k) <=> Lists(r, t, k) \/ Lists(q, t, k)
         /\ \A ok : Tells(Failures(r) \o Failures(q), t, k, ok) <=>
                      ok = FALSE /\ (Lists(r, t, k) \/ Lists(q, t, k))
<1>1. PICK f, g : f = Failures(r) /\ g = Failures(q)
  OBVIOUS
<1>2. /\ f \in Seq(Answer) /\ (Lists(f, t, k) <=> Lists(r, t, k))
      /\ \A ok : Tells(f, t, k, ok) <=> ok = FALSE /\ Lists(r, t, k)
  BY <1>1, ListsFailures
<1>3. /\ g \in Seq(Answer) /\ (Lists(g, t, k) <=> Lists(q, t, k))
      /\ \A ok : Tells(g, t, k, ok) <=> ok = FALSE /\ Lists(q, t, k)
  BY <1>1, ListsFailures
<1>4. f \in Seq(Answer) /\ g \in Seq(Answer)
  BY <1>2, <1>3
<1>5. /\ Lists(f \o g, t, k) <=> Lists(f, t, k) \/ Lists(g, t, k)
      /\ \A ok : Tells(f \o g, t, k, ok) <=> Tells(f, t, k, ok) \/ Tells(g, t, k, ok)
  BY <1>4, ListsConcat
<1> QED BY <1>1, <1>2, <1>3, <1>5

\* An answer says either that it worked or that it did not.
LEMMA ListsTells ==
  ASSUME NEW r \in Seq(Answer), NEW t, NEW k
  PROVE  Lists(r, t, k) <=> Tells(r, t, k, TRUE) \/ Tells(r, t, k, FALSE)
<1>1. \A i \in DOMAIN r : r[i] \in Answer
  BY LenProperties, ElementOfSeq
<1>2. \A i \in DOMAIN r : r[i].ok = TRUE \/ r[i].ok = FALSE
  BY <1>1 DEF Answer
<1> QED BY <1>2 DEF Lists, Tells

LEMMA ListsEmpty == \A t, k, ok : ~Lists(<<>>, t, k) /\ ~Tells(<<>>, t, k, ok)
BY DEF Lists, Tells

-----------------------------------------------------------------------------
(* What a step does to the queues of a connection *)

\* The transaction t sends a statement.
Transacts(t, k, a) ==
  \/ Starts(t) /\ k = InitKind(t) /\ a = "undefined"
  \/ Asks(t) /\ k = "query" /\ a = "undefined"
  \/ Finishes(t, k, a) /\ k \in Finals

Idles(c) == chan'[c] = chan[c] /\ reply'[c] = reply[c]

Posts(c, t, k, a) ==
  /\ Only(t) /\ Transacts(t, k, a) /\ conn'[t] = c
  /\ Post(c, Message(t, k, a), reply[c])

Moves(c) ==
  \/ Idles(c)
  \/ \E t \in Trx, k \in Kinds, a \in Args : Posts(c, t, k, a)
  \/ \E m \in Answer : m.trx \in Trx /\ Only(m.trx) /\ Gets(c, m)
  \/ Outside /\ (Execute(c) \/ Disconnect(c))

LEMMA PostIs ==
  ASSUME TypeOK, NEW c \in Conn, NEW m \in Request, NEW b \in Seq(Answer), Post(c, m, b)
  PROVE  /\ \A d \in Conn \ {c} : Idles(d)
         /\ c \notin dead => chan'[c] = Append(chan[c], m) /\ reply'[c] = b
         /\ c \in dead => chan'[c] = chan[c] /\ reply'[c] = Append(b, Reply(m, FALSE))
BY DEF TypeOK, Post, Idles

LEMMA TransactsWhat ==
  ASSUME NEW t \in Trx, NEW k, NEW a, Transacts(t, k, a), a \in Args
  PROVE  k \in Kinds /\ Sends(t, k, a) /\ SameTree
<1>1. InitKind(t) \in Kinds /\ "query" \in Kinds /\ Finals \subseteq Kinds
  BY DEF InitKind, Kinds, Finals
<1> QED BY <1>1 DEF Transacts, Starts, Asks, Finishes

LEMMA SaysWhat ==
  ASSUME NEW t \in Trx, Says(t)
  PROVE  Meanwhile(t) \/ \E k \in Kinds, a \in Args : Transacts(t, k, a)
<1>1. "undefined" \in Args /\ InitKind(t) \in Kinds /\ "query" \in Kinds
      /\ Finals \subseteq Kinds
  BY DEF Args, InitKind, Kinds, Finals
<1> QED BY <1>1 DEF Says, Transacts

LEMMA MovesAre ==
  ASSUME IInv, CarefulInv, Disciplined, [Next]_vars, NEW c \in Conn
  PROVE  Moves(c)
<1>0. TypeOK
  BY DEF IInv
<1>1. CASE Outside
  <2>1. CASE UNCHANGED vars
    BY <2>1 DEF vars, Moves, Idles
  <2>2. ASSUME NEW d \in Conn, Execute(d) \/ Disconnect(d) \/ ReplaceConnection(d)
        PROVE  Moves(c)
    <3>1. CASE d = c /\ (Execute(d) \/ Disconnect(d))
      BY <1>1, <3>1 DEF Moves
    <3>2. CASE ReplaceConnection(d)
      BY <3>2 DEF ReplaceConnection, Moves, Idles
    <3>3. CASE d # c /\ Execute(d)
      <4>1. Idles(c)
        BY <1>0, <3>3 DEF Execute, TypeOK, Idles
      <4> QED BY <4>1 DEF Moves
    <3>4. CASE d # c /\ Disconnect(d)
      <4>1. Idles(c)
        BY <1>0, <3>4 DEF Disconnect, TypeOK, Idles
      <4> QED BY <4>1 DEF Moves
    <3> QED BY <2>2, <3>1, <3>2, <3>3, <3>4
  <2> QED BY <1>1, <2>1, <2>2 DEF Outside
<1>2. ASSUME NEW t \in Trx, Only(t), Says(t)
      PROVE  Moves(c)
  <2>1. CASE Meanwhile(t)
    BY <2>1 DEF Meanwhile, Born, Aborts, Refused, Invokes, Lags, Fails, TimesOut, Closes,
       Calm, Moves, Idles
  <2>2. ASSUME NEW k \in Kinds, NEW a \in Args, Transacts(t, k, a)
        PROVE  Moves(c)
    <3>1. Sends(t, k, a)
      BY <2>2, TransactsWhat
    <3>2. CASE conn'[t] = c
      BY <1>2, <2>2, <3>1, <3>2 DEF Sends, Moves, Posts
    <3>3. CASE conn'[t] # c
      <4>1. PICK m \in Request, d \in Conn, b \in Seq(Answer) : Post(d, m, b) /\ d # c
        BY <1>0, <3>1, <3>3, MessageType DEF Sends, TypeOK
      <4>2. Idles(c)
        BY <1>0, <4>1, PostIs
      <4> QED BY <4>2 DEF Moves
    <3> QED BY <3>2, <3>3
  <2> QED BY <1>2, <2>1, <2>2, SaysWhat
<1>3. ASSUME NEW d \in Conn, NEW m \in Answer, m.trx \in Trx, Only(m.trx), Gets(d, m)
      PROVE  Moves(c)
  <2>1. CASE d = c
    BY <1>3, <2>1 DEF Moves
  <2>2. CASE d # c /\ Takes(d)
    BY <1>0, <2>2 DEF Takes, TypeOK, Moves, Idles
  <2>3. CASE d # c /\ HearsIsolation(d, m)
    <3>1. /\ Message(m.trx, "begin", "undefined") \in Request
          /\ Tail(reply[d]) \in Seq(Answer)
      <4>1. reply[d] \in Seq(Answer) /\ reply[d] # <<>>
        BY <1>0, <2>3 DEF TypeOK, HearsIsolation, Hears
      <4> QED BY <1>3, <4>1, TailAt, MessageType DEF Kinds, Args
    <3>2. PICK q \in Request, b \in Seq(Answer) : Post(d, q, b)
      BY <2>3, <3>1 DEF HearsIsolation
    <3>3. Idles(c)
      BY <1>0, <2>3, <3>2, PostIs
    <3> QED BY <3>3 DEF Moves
  <2> QED BY <1>3, <2>1, <2>2, <2>3
          DEF Gets, HearsInitFailed, HearsBegun, HearsFinished, HearsQueried
<1> QED BY <1>1, <1>2, <1>3, StepIs DEF CarefulInv

\* An answer to an unsettled transaction is all that is on its connection.
LEMMA HeardLast ==
  ASSUME IInv, CarefulInv, NEW c \in Conn, NEW m \in Answer, Hears(c, m), Running(m.trx)
  PROVE  chan[c] = <<>> /\ Tail(reply[c]) = <<>>
<1>1. reply[c] \in Seq(Answer) /\ reply[c] # <<>> /\ m = Head(reply[c])
  BY DEF IInv, TypeOK, Hears
<1>2. m = reply[c][1] /\ 1 \in DOMAIN reply[c]
  BY <1>1, TailAt
<1>3. 1 = Len(reply[c]) /\ chan[c] = <<>>
  BY <1>2 DEF CarefulInv, Queue, LastOfRunning
<1> QED BY <1>1, <1>3, OnlyOne

\* The same for a statement that is run.
LEMMA RunLast ==
  ASSUME IInv, CarefulInv, NEW c \in Conn, chan[c] # <<>>, Running(Head(chan[c]).trx)
  PROVE  Tail(chan[c]) = <<>>
<1>1. chan[c] \in Seq(Request)
  BY DEF IInv, TypeOK
<1>2. Head(chan[c]) = chan[c][1] /\ 1 \in DOMAIN chan[c]
  BY <1>1, TailAt
<1>3. 1 = Len(chan[c])
  BY <1>2 DEF CarefulInv, Queue, LastOfRunning
<1> QED BY <1>1, <1>3, OnlyOne

\* Who sends a statement, and those around it, have none on its way, and nobody
\* else on the connection is unsettled and has.
LEMMA Silence ==
  ASSUME IInv, SessionInv, CarefulInv, SiblingsTakeTurns', NEW t \in Trx, NEW k, NEW a,
         Only(t), Transacts(t, k, a), NEW u \in Trx, NEW l \in Kinds,
         Carries(conn'[t], u, l), conn'[t] \in Conn
  PROVE  ~Running(u) /\ u \notin Line(t)
<1>0. Connected(u) /\ conn[u] = conn'[t] /\ Flies(u, l)
  BY OnTheWay DEF Carries, Lists, CarefulInv, Queue, InFlight
<1>1. CASE Starts(t)
  <2>1. Alive(t) /\ ~Connected(t)
    BY <1>1 DEF Starts, Alive, Connected
  <2>2. u \notin Line(t)
    <3>1. u # t
      BY <1>0, <2>1
    <3>2. u \notin anc[t]
      BY <2>1, Around
    <3> QED BY <3>1, <3>2 DEF Line
  <2>3. ~Running(u)
    BY <1>0, <1>1, <2>2, StartsInLine DEF Line
  <2> QED BY <2>2, <2>3
<1>2. CASE ~Starts(t)
  <2>1. /\ ~IsCompleted(t) /\ stage[t] \in {"pending", "detached", "settled"} /\ ChildrenDone(t)
        /\ wrote[t] # "sent" /\ conn'[t] = conn[t]
    BY <1>2 DEF Transacts, Asks, Finishes, Ends, HasTransactor
  <2>2. Connected(t) /\ ~completed[t]
    BY <2>1, TransactorConnected DEF IsCompleted, Line
  <2>3. Running(t) /\ Alive(t)
    BY <2>2, Uncompleted DEF Alive, Running
  <2>4. u # t
    BY <1>0, <2>1, <2>2 DEF Flies, Kinds
  <2>5. u \notin anc[t]
    BY <2>3, Around
  <2>6. ~Running(u)
    <3>1. SUFFICES ASSUME Running(u) PROVE FALSE
      OBVIOUS
    <3>2. t \in anc[u]
      BY <1>0, <2>1, <2>3, <2>4, <2>5, <3>1 DEF CarefulInv, OneLine, Line
    <3>3. Alive(u)
      BY <3>1 DEF Alive, Running
    <3> QED BY <2>1, <3>2, <3>3, Around
  <2> QED BY <2>4, <2>5, <2>6 DEF Line
<1> QED BY <1>1, <1>2

-----------------------------------------------------------------------------
(* What messages say of their senders *)

\* What a message says stays true until an unsettled sender gets an answer.
LEMMA FliesKept ==
  ASSUME IInv, SessionInv, CarefulInv, Disciplined, [Next]_vars,
         NEW t \in Trx, NEW k \in Kinds, Connected(t), Flies(t, k)
  PROVE  \/ Flies(t, k)'
         \/ \E m \in Answer : m.trx = t /\ Running(t) /\ Only(t) /\ Gets(conn[t], m)
<1>0. LifeCycle /\ Flags /\ t \in Line(t)
  BY DEF IInv, CarefulInv, Line
<1>1. CASE Untouched(t)
  BY <1>1 DEF Untouched, Flies, Running
<1>2. CASE Says(t)
  <2>0. /\ life[t] # "none" /\ life[t] # "queued"
        /\ timer[t] # "off" => completed[t] /\ exec[t] = "pending"
        /\ life[t] = "closed" => exec[t] # "pending"
        /\ Connected(t) => exec[t] # "none"
    BY <1>0 DEF LifeCycle, Flags, Connected
  <2>1. Running(t) /\ ~completed[t] => ~IsCompleted(t)
    <3>1. Running(t) => Alive(t)
      BY DEF Running, Alive
    <3>2. Alive(t) => \A a \in anc[t] : ~completed[a]
      BY Around
    <3> QED BY <3>1, <3>2 DEF IsCompleted, Line
  <2>2. Running(t) /\ completed[t] => stage[t] = "settled" \/ (stage[t] = "detached" /\ calls[t] # 0)
    BY <1>0 DEF Flags
  <2>3. completed[t] => IsCompleted(t)
    BY <1>0 DEF IsCompleted
  <2>4. ~Born(t) /\ ~Aborts(t) /\ ~Refused(t) /\ ~Starts(t)
    BY <2>0 DEF Born, Aborts, Refused, Starts
  <2>5. CASE Invokes(t)
    BY <2>0, <2>2, <2>5 DEF Invokes, Flies, Running, Kinds
  <2>6. CASE Lags(t)
    <3>1. ~Running(t)
      BY <1>0, <2>1, <2>6, NotEnded DEF Lags
    <3>2. exec[t] # "pending"
      BY <2>0, <3>1 DEF Running, Connected
    <3>3. k \in {"rollback", "rollbackTo"} /\ exec[t] \in Unkept
      BY <2>0, <3>1, <3>2 DEF Flies, Kinds
    <3>4. exec'[t] = exec[t] /\ completed'[t]
      BY <2>6, <3>2 DEF Lags, Settles
    <3> QED BY <3>3, <3>4 DEF Flies
  <2>7. CASE Fails(t)
    BY <2>0, <2>1, <2>2, <2>7 DEF Fails, HasTransactor, Flies, Running, Kinds
  <2>8. CASE TimesOut(t)
    BY <2>0, <2>8 DEF TimesOut, Settles, Flies, Running, Kinds, Unkept
  <2>9. CASE Closes(t)
    BY <2>0, <2>9 DEF Closes, Flies, Running, Kinds
  <2>10. CASE Asks(t)
    BY <2>0, <2>3, <2>10 DEF Asks, HasTransactor, Flies, Running, Kinds
  <2>11. ASSUME NEW l \in Finals, NEW a \in Args, Finishes(t, l, a)
         PROVE  Flies(t, k)'
    BY <2>0, <2>3, <2>11 DEF Finishes, Ends, Flies, Running, Kinds
  <2> QED BY <1>2, <2>4, <2>5, <2>6, <2>7, <2>8, <2>9, <2>10, <2>11 DEF Says, Meanwhile
<1>3. ASSUME NEW c \in Conn, NEW m \in Answer, t = m.trx, Only(t), Gets(c, m), ~Running(t)
      PROVE  Flies(t, k)'
  <2>1. Hears(c, m)
    BY <1>3 DEF Gets, HearsInitFailed, HearsIsolation, HearsBegun, HearsFinished, HearsQueried
  <2>2. k \in {"rollback", "rollbackTo"} /\ completed[t] /\ exec[t] # "pending"
        /\ exec[t] \in Unkept
    <3>1. exec[t] # "pending"
      BY <1>0, <1>3 DEF LifeCycle, Connected, Running
    <3>2. timer[t] = "off"
      BY <1>0, <3>1 DEF Flags
    <3> QED BY <1>3, <3>1, <3>2 DEF Flies, Kinds
  <2>3. exec'[t] = exec[t] /\ completed'[t]
    BY <1>3, <2>2 DEF Gets, HearsInitFailed, HearsIsolation, HearsBegun, HearsFinished,
       HearsQueried, Settles
  <2> QED BY <2>2, <2>3 DEF Flies
<1>4. ASSUME NEW c \in Conn, NEW m \in Answer, t = m.trx, Gets(c, m)
      PROVE  c = conn[t]
  BY <1>4 DEF Gets, HearsInitFailed, HearsIsolation, HearsBegun, HearsFinished, HearsQueried, Hears
<1> QED BY <1>1, <1>2, <1>3, <1>4, StepIs DEF Outside, Only, CarefulInv

\* What is sent flies.
LEMMA FliesNew ==
  ASSUME IInv, CarefulInv, NEW t \in Trx, NEW k \in Kinds, NEW a \in Args, Transacts(t, k, a)
  PROVE  Flies(t, k)'
<1>0. /\ timer[t] # "off" => completed[t] /\ Connected(t)
      /\ life[t] = "queued" => exec[t] = "pending"
  BY DEF IInv, LifeCycle
<1>1. CASE Starts(t) /\ k = InitKind(t)
  BY <1>0, <1>1 DEF Starts, Flies, Running, InitKind
<1>2. ASSUME stage[t] # "idle", ~IsCompleted(t)
      PROVE  life[t] = "open" /\ exec[t] = "pending" /\ ~completed[t] /\ timer[t] = "off"
  <2>1. Connected(t) /\ ~completed[t]
    BY <1>2, TransactorConnected DEF IsCompleted, Line
  <2> QED BY <1>0, <2>1, Uncompleted DEF Running
<1>3. CASE Asks(t) /\ k = "query"
  BY <1>2, <1>3 DEF Asks, HasTransactor, Flies, Running
<1>4. CASE Finishes(t, k, a) /\ k \in Finals
  <2>1. stage[t] # "idle" /\ ~IsCompleted(t)
    BY <1>4 DEF Finishes, Ends
  <2> QED BY <1>2, <1>4, <2>1 DEF Finishes, Finals, Flies, Running, Args
<1> QED BY <1>1, <1>3, <1>4 DEF Transacts

\* What is on its way was before, is an answer to what was, or is sent now.
LEMMA CarriesBefore ==
  ASSUME IInv, CarefulInv, Disciplined, [Next]_vars, NEW c \in Conn,
         NEW t \in Trx, NEW k \in Kinds, Carries(c, t, k)'
  PROVE  \/ /\ Carries(c, t, k)
            /\ \A m \in Answer : Gets(c, m) /\ Only(m.trx) => m.trx # t \/ ~Running(t)
         \/ \E a \in Args : Posts(c, t, k, a)
         \/ \E m \in Answer : m.trx = t /\ HearsIsolation(c, m) /\ k = "begin"
<1>0. TypeOK /\ chan[c] \in Seq(Request) /\ reply[c] \in Seq(Answer)
  BY DEF IInv, TypeOK
<1>1. ASSUME NEW m \in Answer, Gets(c, m)
      PROVE  \/ /\ Carries(c, t, k) /\ (m.trx # t \/ ~Running(t))
             \/ m.trx = t /\ HearsIsolation(c, m) /\ k = "begin"
  <2>0. Hears(c, m) /\ m.trx \in Trx
    BY <1>1 DEF Gets, HearsInitFailed, HearsIsolation, HearsBegun, HearsFinished,
       HearsQueried, Answer
  <2>1. reply[c] # <<>> /\ Tail(reply[c]) \in Seq(Answer)
    BY <1>0, <2>0, TailAt DEF Hears
  <2>2. Lists(Tail(reply[c]), t, k) => Lists(reply[c], t, k)
    BY <1>0, <2>1, ListsTail
  <2>3. CASE Takes(c)
    <3>1. chan'[c] = chan[c] /\ reply'[c] = Tail(reply[c])
      BY <1>0, <2>3 DEF Takes, TypeOK
    <3>2. Lists(chan[c], t, k) \/ Lists(Tail(reply[c]), t, k)
      BY <3>1 DEF Carries
    <3>3. CASE m.trx = t /\ Running(t)
      BY <2>0, <3>2, <3>3, HeardLast, ListsEmpty
    <3> QED BY <2>2, <3>2, <3>3 DEF Carries
  <2>4. CASE HearsIsolation(c, m)
    <3>1. PICK q \in Request : q = Message(m.trx, "begin", "undefined")
      BY <2>0, MessageType DEF Kinds, Args
    <3>2. Post(c, q, Tail(reply[c])) /\ q.trx = m.trx /\ q.kind = "begin"
      BY <2>4, <3>1 DEF HearsIsolation, Message
    <3>3. Running(m.trx)
      BY <2>0, <2>4, Heard DEF HearsIsolation, Flies
    <3>4. chan[c] = <<>> /\ Tail(reply[c]) = <<>>
      BY <2>0, <3>3, HeardLast
    <3>5. m.trx = t /\ k = "begin"
      <4>1. CASE c \notin dead
        <5>1. chan'[c] = Append(chan[c], q) /\ reply'[c] = Tail(reply[c])
          BY <1>0, <2>1, <3>2, <4>1, PostIs
        <5>2. Lists(Append(chan[c], q), t, k) <=>
                Lists(chan[c], t, k) \/ (q.trx = t /\ q.kind = k)
          BY <1>0, ListsAppend
        <5>3. ~Lists(<<>>, t, k)
          BY ListsEmpty
        <5> QED BY <3>2, <3>4, <5>1, <5>2, <5>3 DEF Carries
      <4>2. CASE c \in dead
        <5>1. chan'[c] = chan[c] /\ reply'[c] = Append(Tail(reply[c]), Reply(q, FALSE))
          BY <1>0, <2>1, <3>2, <4>2, PostIs
        <5>2. PICK n \in Answer : n = Reply(q, FALSE) /\ n.trx = q.trx /\ n.kind = q.kind
          BY MessageType DEF Reply
        <5>3. Lists(Append(Tail(reply[c]), n), t, k) <=>
                Lists(Tail(reply[c]), t, k) \/ (n.trx = t /\ n.kind = k)
          BY <2>1, ListsAppend
        <5>4. ~Lists(<<>>, t, k)
          BY ListsEmpty
        <5> QED BY <3>2, <3>4, <5>1, <5>2, <5>3, <5>4 DEF Carries
      <4> QED BY <4>1, <4>2
    <3> QED BY <2>4, <3>5
  <2> QED BY <1>1, <2>3, <2>4 DEF Gets, HearsInitFailed, HearsBegun, HearsFinished, HearsQueried
<1>2. CASE \E m \in Answer : Gets(c, m)
  <2>1. PICK m \in Answer : Gets(c, m)
    BY <1>2
  <2>2. ASSUME NEW n \in Answer, Gets(c, n)
        PROVE  n = m
    BY <2>1, <2>2 DEF Gets, HearsInitFailed, HearsIsolation, HearsBegun, HearsFinished,
       HearsQueried, Hears
  <2> QED BY <1>1, <2>1, <2>2
<1>3. CASE ~\E m \in Answer : Gets(c, m)
  <2>0. SUFFICES Carries(c, t, k) \/ \E a \in Args : Posts(c, t, k, a)
    BY <1>3
  <2>1. CASE Idles(c)
    BY <2>1 DEF Idles, Carries
  <2>2. ASSUME NEW u \in Trx, NEW l \in Kinds, NEW a \in Args, Posts(c, u, l, a)
        PROVE  Carries(c, t, k) \/ \E b \in Args : Posts(c, t, k, b)
    <3>1. PICK q \in Request : q = Message(u, l, a)
      BY MessageType
    <3>2. Post(c, q, reply[c]) /\ q.trx = u /\ q.kind = l
      BY <2>2, <3>1 DEF Posts, Message
    <3>3. Carries(c, t, k) \/ (u = t /\ l = k)
      <4>1. CASE c \notin dead
        <5>1. chan'[c] = Append(chan[c], q) /\ reply'[c] = reply[c]
          BY <1>0, <3>2, <4>1, PostIs
        <5> QED BY <1>0, <3>2, <5>1, ListsAppend DEF Carries
      <4>2. CASE c \in dead
        <5>1. chan'[c] = chan[c] /\ reply'[c] = Append(reply[c], Reply(q, FALSE))
          BY <1>0, <3>2, <4>2, PostIs
        <5>2. PICK n \in Answer : n = Reply(q, FALSE) /\ n.trx = q.trx /\ n.kind = q.kind
          BY MessageType DEF Reply
        <5>3. Lists(Append(reply[c], n), t, k) <=>
                Lists(reply[c], t, k) \/ (n.trx = t /\ n.kind = k)
          BY <1>0, ListsAppend
        <5> QED BY <3>2, <5>1, <5>2, <5>3 DEF Carries
      <4> QED BY <4>1, <4>2
    <3> QED BY <2>2, <3>3
  <2>3. CASE Execute(c)
    <3>1. PICK m \in Request, ok \in BOOLEAN :
            /\ chan[c] # <<>> /\ m = chan[c][1]
            /\ chan' = [chan EXCEPT ![c] = Tail(chan[c])]
            /\ reply' = [reply EXCEPT ![c] = Append(reply[c], Reply(m, ok))]
      BY <2>3, Executed
    <3>2. chan'[c] = Tail(chan[c]) /\ reply'[c] = Append(reply[c], Reply(m, ok))
      BY <1>0, <3>1 DEF TypeOK
    <3>3. Reply(m, ok) \in Answer /\ Reply(m, ok).trx = m.trx /\ Reply(m, ok).kind = m.kind
      BY MessageType DEF Reply
    <3>4. Lists(reply'[c], t, k) => Lists(reply[c], t, k) \/ (m.trx = t /\ m.kind = k)
      BY <1>0, <3>2, <3>3, ListsAppend
    <3>5. m = Head(chan[c])
      BY <1>0, <3>1, TailAt
    <3>6. Lists(chan[c], t, k) <=> Lists(Tail(chan[c]), t, k) \/ (m.trx = t /\ m.kind = k)
      BY <1>0, <3>1, <3>5, ListsTail
    <3> QED BY <3>2, <3>4, <3>6 DEF Carries
  <2>4. CASE Disconnect(c)
    <3>1. chan'[c] = <<>> /\ reply'[c] = Failures(reply[c]) \o Failures(chan[c])
      BY <1>0, <2>4 DEF Disconnect, TypeOK
    <3>2. Lists(Failures(reply[c]) \o Failures(chan[c]), t, k) <=>
            Lists(reply[c], t, k) \/ Lists(chan[c], t, k)
      BY <1>0, ListsLost
    <3>3. ~Lists(<<>>, t, k)
      BY ListsEmpty
    <3> QED BY <3>1, <3>2, <3>3 DEF Carries
  <2>5. Moves(c)
    BY MovesAre
  <2> QED BY <1>3, <2>1, <2>2, <2>3, <2>4, <2>5 DEF Moves
<1> QED BY <1>2, <1>3

LEMMA InFlightStep ==
  ASSUME IInv, SessionInv, CarefulInv, Disciplined, [Next]_vars, NEW c \in Conn
  PROVE  InFlight(c)'
<1>1. ASSUME NEW t \in Trx, NEW k \in Kinds, Carries(c, t, k)'
      PROVE  Flies(t, k)'
  <2>1. CASE /\ Carries(c, t, k)
             /\ \A m \in Answer : Gets(c, m) /\ Only(m.trx) => m.trx # t \/ ~Running(t)
    <3>1. Connected(t) /\ conn[t] = c /\ Flies(t, k)
      BY <2>1, OnTheWay DEF Carries, Lists, CarefulInv, Queue, InFlight
    <3> QED BY <2>1, <3>1, FliesKept
  <2>2. ASSUME NEW a \in Args, Posts(c, t, k, a)
        PROVE  Flies(t, k)'
    BY <2>2, FliesNew DEF Posts
  <2>3. ASSUME NEW m \in Answer, m.trx = t, HearsIsolation(c, m), k = "begin"
        PROVE  Flies(t, k)'
    <3>1. Running(t) /\ ~completed[t]
      BY <2>3, Heard DEF HearsIsolation, Flies
    <3> QED BY <2>3, <3>1 DEF HearsIsolation, Hears, Flies, Running
  <2> QED BY <1>1, <2>1, <2>2, <2>3, CarriesBefore
<1> QED BY <1>1 DEF InFlight

-----------------------------------------------------------------------------
(* The order of messages *)

\* Who is connected and unsettled was so before.
LEMMA RunningOld ==
  ASSUME IInv, CarefulInv, Disciplined, [Next]_vars, NEW t \in Trx, Connected(t), Running(t)'
  PROVE  Running(t)
BY RunningBefore DEF Starts, Connected

\* The same of the next state, for a transaction named in this one.
RunsOn(t)    == life'[t] = "open" /\ exec'[t] = "pending"
LineAfter(t) == {t} \cup anc'[t]

\* Whoever has something on its way while another one sends is settled, and
\* not around it.
LEMMA SettledOnes ==
  ASSUME IInv, SessionInv, CarefulInv, SiblingsTakeTurns', Disciplined, [Next]_vars,
         NEW c \in Conn, NEW t \in Trx, NEW k \in Kinds, NEW a \in Args, Posts(c, t, k, a)
  PROVE  /\ \A i \in DOMAIN chan[c] : ~RunsOn(chan[c][i].trx) /\ chan[c][i].trx \notin Line(t)
         /\ \A i \in DOMAIN reply[c] : ~RunsOn(reply[c][i].trx)
<1>1. ASSUME NEW u \in Trx, NEW l \in Kinds, Carries(c, u, l), Connected(u)
      PROVE  ~RunsOn(u) /\ u \notin Line(t)
  <2>1. ~Running(u) /\ u \notin Line(t)
    BY <1>1, Silence DEF Posts
  <2>2. ~Running(u)'
    BY <1>1, <2>1, RunningOld
  <2> QED BY <2>1, <2>2 DEF Running, RunsOn
<1>2. ASSUME NEW i \in DOMAIN chan[c]
      PROVE  /\ chan[c][i].trx \in Trx /\ chan[c][i].kind \in Kinds /\ Connected(chan[c][i].trx)
             /\ Carries(c, chan[c][i].trx, chan[c][i].kind)
  BY OnTheWay DEF Request, Carries, Lists
<1>3. ASSUME NEW i \in DOMAIN reply[c]
      PROVE  /\ reply[c][i].trx \in Trx /\ reply[c][i].kind \in Kinds /\ Connected(reply[c][i].trx)
             /\ Carries(c, reply[c][i].trx, reply[c][i].kind)
  BY OnTheWay DEF Answer, Carries, Lists
<1> QED BY <1>1, <1>2, <1>3

LEMMA OrderStep ==
  ASSUME IInv, SessionInv, CarefulInv, SiblingsTakeTurns', Disciplined, [Next]_vars,
         NEW c \in Conn
  PROVE  LastOfRunning(c)' /\ Disjoint(c)'
<1> DEFINE InOrder(q, r) ==
             /\ \A i \in DOMAIN q : RunsOn(q[i].trx) => i = Len(q)
             /\ \A i \in DOMAIN r : RunsOn(r[i].trx) => i = Len(r) /\ q = <<>>
             /\ \A i, j \in DOMAIN q : i < j => q[i].trx \notin LineAfter(q[j].trx)
<1>0. TypeOK /\ chan[c] \in Seq(Request) /\ reply[c] \in Seq(Answer)
  BY DEF IInv, TypeOK
<1>1. PICK q \in Seq(Request), r \in Seq(Answer) : q = chan[c] /\ r = reply[c]
  BY <1>0
<1>2. PICK e, f : e = chan'[c] /\ f = reply'[c]
  OBVIOUS
<1>3. SUFFICES InOrder(e, f)
  BY <1>2 DEF LastOfRunning, Disjoint, Running, RunsOn, Line, LineAfter
<1>4. DOMAIN q = 1 .. Len(q) /\ Len(q) \in Nat /\ DOMAIN r = 1 .. Len(r) /\ Len(r) \in Nat
  BY LenProperties
<1>5. InOrder(q, r)
  <2>0. /\ \A i \in DOMAIN q : q[i].trx \in Trx /\ Connected(q[i].trx)
        /\ \A i \in DOMAIN r : r[i].trx \in Trx /\ Connected(r[i].trx)
    BY <1>1, OnTheWay
  <2>1. \A t \in Trx : Connected(t) /\ RunsOn(t) => Running(t)
    BY RunningOld DEF Running, RunsOn
  <2>2. /\ \A i \in DOMAIN q : Running(q[i].trx) => i = Len(q)
        /\ \A i \in DOMAIN r : Running(r[i].trx) => i = Len(r) /\ q = <<>>
    BY <1>1 DEF CarefulInv, Queue, LastOfRunning
  <2>3. \A t \in Trx : Connected(t) => LineAfter(t) = Line(t)
    <3>1. Lasting
      <4>1. \A d \in Conn : OpeningIsLast(d)
        BY DEF SessionInv, Orderly
      <4> QED BY <4>1, LastingStep
    <3> QED BY <3>1 DEF Lasting, Line, LineAfter
  <2>4. \A i, j \in DOMAIN q : i < j => q[i].trx \notin Line(q[j].trx)
    BY <1>1 DEF CarefulInv, Queue, Disjoint
  <2> QED BY <2>0, <2>1, <2>2, <2>3, <2>4
<1>6. ASSUME NEW t \in Trx, NEW k \in Kinds, NEW a \in Args, Posts(c, t, k, a)
      PROVE  InOrder(e, f)
  <2>1. PICK m \in Request : m = Message(t, k, a) /\ m.trx = t
    BY MessageType DEF Message
  <2>2. /\ \A i \in DOMAIN q : ~RunsOn(q[i].trx) /\ q[i].trx \notin Line(t)
        /\ \A i \in DOMAIN r : ~RunsOn(r[i].trx)
    BY <1>1, <1>6, SettledOnes
  <2>3. LineAfter(t) = Line(t)
    BY <1>6, TransactsWhat DEF Posts, SameTree, Line, LineAfter
  <2>4. CASE c \notin dead
    <3>1. e = Append(q, m) /\ f = r
      BY <1>0, <1>1, <1>2, <1>6, <2>1, <2>4, PostIs DEF Posts
    <3>2. /\ DOMAIN Append(q, m) = 1 .. Len(q) + 1 /\ Len(Append(q, m)) = Len(q) + 1
          /\ \A i \in 1 .. Len(q) : Append(q, m)[i] = q[i]
          /\ Append(q, m)[Len(q) + 1] = m
      BY AppendAt
    <3>3. /\ DOMAIN e = 1 .. Len(q) + 1 /\ Len(e) = Len(q) + 1
          /\ \A i \in DOMAIN q : e[i] = q[i]
          /\ e[Len(q) + 1] = m
          /\ \A i \in DOMAIN e : i \in DOMAIN q \/ i = Len(q) + 1
      BY <1>4, <3>1, <3>2
    <3>4. /\ \A i \in DOMAIN e : RunsOn(e[i].trx) => i = Len(e)
          /\ \A i \in DOMAIN r : ~RunsOn(r[i].trx)
      BY <2>2, <3>3
    <3>5. ASSUME NEW i \in DOMAIN e, NEW j \in DOMAIN e, i < j
          PROVE  e[i].trx \notin LineAfter(e[j].trx)
      <4>1. i \in DOMAIN q
        BY <1>4, <3>3, <3>5
      <4>2. CASE j \in DOMAIN q
        BY <1>5, <3>3, <3>5, <4>1, <4>2
      <4>3. CASE j = Len(q) + 1
        BY <2>1, <2>2, <2>3, <3>3, <4>1, <4>3
      <4> QED BY <3>3, <4>2, <4>3
    <3> QED BY <3>1, <3>4, <3>5
  <2>5. CASE c \in dead
    <3>1. q = <<>>
      BY <1>1, <2>5 DEF SessionInv, Orderly, DeadIsIdle
    <3>2. PICK n \in Answer : n = Reply(m, FALSE)
      BY MessageType
    <3>3. e = <<>> /\ f = Append(r, n)
      BY <1>0, <1>1, <1>2, <1>6, <2>1, <2>5, <3>1, <3>2, PostIs DEF Posts
    <3>4. /\ DOMAIN Append(r, n) = 1 .. Len(r) + 1 /\ Len(Append(r, n)) = Len(r) + 1
          /\ \A i \in 1 .. Len(r) : Append(r, n)[i] = r[i]
      BY AppendAt
    <3>5. /\ Len(f) = Len(r) + 1
          /\ \A i \in DOMAIN r : f[i] = r[i]
          /\ \A i \in DOMAIN f : i \in DOMAIN r \/ i = Len(r) + 1
      BY <1>4, <3>3, <3>4
    <3>6. \A i \in DOMAIN f : RunsOn(f[i].trx) => i = Len(f)
      BY <2>2, <3>5
    <3>7. DOMAIN e = {}
      BY <3>3
    <3> QED BY <3>3, <3>6, <3>7
  <2> QED BY <2>4, <2>5
<1>7. ASSUME NEW m \in Answer, m.trx \in Trx, Gets(c, m)
      PROVE  InOrder(e, f)
  <2>0. Hears(c, m) /\ r # <<>>
    BY <1>1, <1>7 DEF Gets, HearsInitFailed, HearsIsolation, HearsBegun, HearsFinished,
       HearsQueried, Hears
  <2>1. CASE Takes(c)
    <3>1. e = q /\ f = Tail(r)
      BY <1>0, <1>1, <1>2, <2>1 DEF Takes, TypeOK
    <3>2. /\ DOMAIN Tail(r) = 1 .. Len(r) - 1 /\ Len(Tail(r)) = Len(r) - 1
          /\ \A i \in 1 .. Len(r) - 1 : i + 1 \in DOMAIN r /\ Tail(r)[i] = r[i + 1]
      BY <2>0, TailAt
    <3>3. /\ Len(f) = Len(r) - 1
          /\ \A i \in DOMAIN f : i \in Int /\ i + 1 \in DOMAIN r /\ f[i] = r[i + 1]
      BY <1>4, <3>1, <3>2
    <3>4. ASSUME NEW i \in DOMAIN f, RunsOn(f[i].trx)
          PROVE  i = Len(f) /\ q = <<>>
      <4>1. i + 1 = Len(r) /\ q = <<>>
        BY <1>5, <3>3, <3>4
      <4> QED BY <1>4, <3>3, <4>1
    <3> QED BY <1>5, <3>1, <3>4
  <2>2. CASE HearsIsolation(c, m)
    <3>1. Running(m.trx)
      BY <2>0, <2>2, Heard DEF HearsIsolation, Flies
    <3>2. q = <<>> /\ Tail(r) = <<>>
      BY <1>1, <2>0, <3>1, HeardLast
    <3>3. PICK b \in Request : b = Message(m.trx, "begin", "undefined")
      BY <1>7, MessageType DEF Kinds, Args
    <3>4. Post(c, b, Tail(r)) /\ Tail(r) \in Seq(Answer)
      <4>1. Tail(r) \in Seq(Answer)
        BY <2>0, TailAt
      <4> QED BY <1>1, <2>2, <3>3, <4>1 DEF HearsIsolation
    <3>5. PICK n \in Answer : n = Reply(b, FALSE)
      BY MessageType
    <3>6. \/ e = Append(q, b) /\ f = Tail(r)
          \/ e = q /\ f = Append(Tail(r), n)
      BY <1>0, <1>1, <1>2, <3>4, <3>5, PostIs
    <3>7. /\ DOMAIN Append(q, b) = 1 .. Len(q) + 1 /\ Len(Append(q, b)) = Len(q) + 1
          /\ DOMAIN Append(Tail(r), n) = 1 .. Len(Tail(r)) + 1
          /\ Len(Append(Tail(r), n)) = Len(Tail(r)) + 1
      BY <3>4, AppendAt
    <3>8. Len(q) = 0 /\ Len(Tail(r)) = 0
      BY <3>2
    <3>9. CASE e = Append(q, b) /\ f = Tail(r)
      <4>1. Len(e) = 1 /\ DOMAIN e = 1 .. 1
        BY <3>7, <3>8, <3>9
      <4>2. DOMAIN f = {}
        BY <3>2, <3>9
      <4>3. \A i, j \in DOMAIN e : i = 1 /\ ~(i < j)
        BY <4>1
      <4> QED BY <4>1, <4>2, <4>3
    <3>10. CASE e = q /\ f = Append(Tail(r), n)
      <4>1. Len(f) = 1 /\ DOMAIN f = 1 .. 1
        BY <3>7, <3>8, <3>10
      <4>2. e = <<>> /\ DOMAIN e = {}
        BY <3>2, <3>10
      <4>3. \A i \in DOMAIN f : i = 1
        BY <4>1
      <4> QED BY <4>1, <4>2, <4>3
    <3> QED BY <3>6, <3>9, <3>10
  <2> QED BY <1>7, <2>1, <2>2 DEF Gets, HearsInitFailed, HearsBegun, HearsFinished, HearsQueried
<1>8. ASSUME Execute(c)
      PROVE  InOrder(e, f)
  <2>1. PICK m \in Request, ok \in BOOLEAN :
          /\ q # <<>> /\ m = q[1]
          /\ chan' = [chan EXCEPT ![c] = Tail(q)]
          /\ reply' = [reply EXCEPT ![c] = Append(r, Reply(m, ok))]
    BY <1>1, <1>8, Executed
  <2>2. PICK n \in Answer : n = Reply(m, ok) /\ n.trx = m.trx
    BY MessageType DEF Reply
  <2>3. e = Tail(q) /\ f = Append(r, n)
    BY <1>0, <1>2, <2>1, <2>2 DEF TypeOK
  <2>4. /\ DOMAIN Tail(q) = 1 .. Len(q) - 1 /\ Len(Tail(q)) = Len(q) - 1 /\ 1 \in DOMAIN q
        /\ \A i \in 1 .. Len(q) - 1 : i + 1 \in DOMAIN q /\ Tail(q)[i] = q[i + 1]
    BY <2>1, TailAt
  <2>5. /\ DOMAIN Append(r, n) = 1 .. Len(r) + 1 /\ Len(Append(r, n)) = Len(r) + 1
        /\ \A i \in 1 .. Len(r) : Append(r, n)[i] = r[i]
        /\ Append(r, n)[Len(r) + 1] = n
    BY AppendAt
  <2>6. /\ Len(e) = Len(q) - 1 /\ DOMAIN e = 1 .. Len(q) - 1
        /\ \A i \in DOMAIN e : i \in Int /\ i + 1 \in DOMAIN q /\ e[i] = q[i + 1]
    BY <1>4, <2>3, <2>4
  <2>7. /\ Len(f) = Len(r) + 1
        /\ \A i \in DOMAIN r : f[i] = r[i]
        /\ f[Len(r) + 1] = n
        /\ \A i \in DOMAIN f : i \in DOMAIN r \/ i = Len(r) + 1
    BY <1>4, <2>3, <2>5
  <2>8. RunsOn(m.trx) => e = <<>>
    <3>1. ASSUME RunsOn(m.trx)
          PROVE  Tail(q) = <<>>
      <4>1. 1 = Len(q)
        BY <1>5, <2>1, <2>4, <3>1
      <4> QED BY <4>1, OnlyOne
    <3> QED BY <2>3, <3>1
  <2>9. ASSUME NEW i \in DOMAIN e, RunsOn(e[i].trx)
        PROVE  i = Len(e)
    <3>1. i + 1 = Len(q)
      BY <1>5, <2>6, <2>9
    <3> QED BY <1>4, <2>6, <3>1
  <2>10. \A i \in DOMAIN f : RunsOn(f[i].trx) => i = Len(f) /\ e = <<>>
    BY <1>5, <2>1, <2>2, <2>7, <2>8
  <2>11. ASSUME NEW i \in DOMAIN e, NEW j \in DOMAIN e, i < j
         PROVE  e[i].trx \notin LineAfter(e[j].trx)
    <3>1. i + 1 \in DOMAIN q /\ j + 1 \in DOMAIN q /\ i + 1 < j + 1
      BY <1>4, <2>6, <2>11
    <3> QED BY <1>5, <2>6, <3>1
  <2> QED BY <2>9, <2>10, <2>11
<1>9. ASSUME Disconnect(c)
      PROVE  InOrder(e, f)
  <2>1. PICK h, g : h = Failures(r) /\ g = Failures(q)
    OBVIOUS
  <2>2. e = <<>> /\ f = h \o g
    BY <1>0, <1>1, <1>2, <1>9, <2>1 DEF Disconnect, TypeOK
  <2>3. /\ h \in Seq(Answer) /\ Len(h) = Len(r) /\ DOMAIN h = DOMAIN r
        /\ \A i \in DOMAIN r : h[i].trx = r[i].trx
        /\ g \in Seq(Answer) /\ Len(g) = Len(q) /\ DOMAIN g = DOMAIN q
        /\ \A i \in DOMAIN q : g[i].trx = q[i].trx
    <3>1. /\ g \in Seq(Answer) /\ Len(g) = Len(q) /\ DOMAIN g = DOMAIN q
          /\ \A i \in DOMAIN q : g[i] = Reply(q[i], FALSE)
      BY <1>3, <2>1, FailuresAt
    <3>2. /\ h \in Seq(Answer) /\ Len(h) = Len(r) /\ DOMAIN h = DOMAIN r
          /\ \A i \in DOMAIN r : h[i] = Reply(r[i], FALSE)
      BY <1>3, <2>1, FailuresAt
    <3> QED BY <3>1, <3>2 DEF Reply
  <2>4. /\ DOMAIN (h \o g) = 1 .. Len(h) + Len(g) /\ Len(h \o g) = Len(h) + Len(g)
        /\ \A i \in 1 .. Len(h) : (h \o g)[i] = h[i]
        /\ \A i \in 1 .. Len(g) : (h \o g)[Len(h) + i] = g[i]
    <3>1. h \in Seq(Answer) /\ g \in Seq(Answer)
      BY <2>3
    <3> QED BY <3>1, ConcatAt
  <2>5. /\ DOMAIN f = 1 .. Len(r) + Len(q) /\ Len(f) = Len(r) + Len(q)
        /\ \A i \in DOMAIN r : f[i] = h[i]
        /\ \A i \in DOMAIN q : f[Len(r) + i] = g[i]
    BY <1>4, <2>2, <2>3, <2>4
  <2>6. ASSUME NEW i \in DOMAIN f, RunsOn(f[i].trx)
        PROVE  i = Len(f)
    <3>1. CASE i \in DOMAIN r
      <4>0. f[i].trx = r[i].trx
        BY <2>3, <2>5, <3>1
      <4>1. i = Len(r) /\ q = <<>>
        BY <1>5, <2>6, <3>1, <4>0
      <4>2. Len(q) = 0
        BY <4>1
      <4> QED BY <1>4, <2>5, <4>1, <4>2
    <3>2. CASE i \notin DOMAIN r
      <4>1. i - Len(r) \in DOMAIN q /\ i = Len(r) + (i - Len(r))
        BY <1>4, <2>5, <3>2
      <4>2. f[i].trx = q[i - Len(r)].trx
        BY <2>3, <2>5, <4>1
      <4>3. i - Len(r) = Len(q)
        BY <1>5, <2>6, <4>1, <4>2
      <4> QED BY <1>4, <2>5, <4>1, <4>3
    <3> QED BY <3>1, <3>2
  <2>7. DOMAIN e = {}
    BY <2>2
  <2> QED BY <2>2, <2>6, <2>7
<1>10. Moves(c)
  BY MovesAre
<1> QED BY <1>1, <1>2, <1>5, <1>6, <1>7, <1>8, <1>9, <1>10 DEF Moves, Idles

LEMMA CarefulInvStep ==
  ASSUME IInv, SessionInv, CarefulInv, SiblingsTakeTurns', Disciplined, [Next]_vars
  PROVE  CarefulInv'
<1>1. RootsAlone' /\ Tree'
  BY TreeStep DEF CarefulInv
<1>2. Flags' /\ AroundWaits' /\ OneLine'
  BY FlagsStep, AroundWaitsStep, OneLineStep
<1>3. \A c \in Conn : Queue(c)'
  BY InFlightStep, OrderStep DEF Queue
<1> QED BY <1>1, <1>2, <1>3 DEF CarefulInv

LEMMA InitCareful == Init => CarefulInv
<1> SUFFICES ASSUME Init PROVE CarefulInv
  OBVIOUS
<1>1. /\ RootsAlone
      /\ \A t \in Trx : anc[t] = {} /\ life[t] = "none" /\ Line(t) = {t}
                        /\ ~completed[t] /\ wrote[t] = "no" /\ timer[t] = "off"
  BY DEF Init, RootsAlone, Line
<1>2. Tree /\ Flags /\ AroundWaits /\ OneLine
  BY <1>1 DEF Tree, Flags, AroundWaits, OneLine, Connected, Running
<1>3. \A c \in Conn : DOMAIN chan[c] = {} /\ DOMAIN reply[c] = {}
  BY DEF Init
<1>4. \A c \in Conn : Queue(c)
  BY <1>3 DEF Queue, InFlight, Carries, Lists, LastOfRunning, Disjoint
<1> QED BY <1>1, <1>2, <1>4 DEF CarefulInv

\* Of careful callers: how their transactions nest, wait for each other and
\* share a connection, and what a statement on its way says of its sender.
THEOREM CarefulInductive ==
  ASSUME Disciplined
  PROVE  Spec => [](IInv /\ SessionInv /\ CarefulInv)
<1>1. Init => CarefulInv
  BY InitCareful
<1>2. IInv /\ SessionInv /\ SiblingsTakeTurns' /\ CarefulInv /\ [Next]_vars => CarefulInv'
  BY CarefulInvStep
<1> QED BY SessionInductive, SiblingsWait, <1>1, <1>2, PTL DEF Spec

-----------------------------------------------------------------------------
(* The inductive invariant: the sessions *)

Sent(c, t, k)    == Lists(chan[c], t, k)
Granted(c, t, k) == Tells(reply[c], t, k, TRUE)
Denied(c, t, k)  == Tells(reply[c], t, k, FALSE)

\* The savepoint of t still matters.
Live(c, t) == ~completed[t] \/ Sent(c, t, "release") \/ Sent(c, t, "rollbackTo")

\* A session belongs to a top-level transaction, to which alone the statement
\* that ends it belongs, and which has no other BEGIN on its way.
OwnerIs(c) ==
  LET o == sess[c].owner IN
  /\ o = NoTrx => sess[c] = IdleSession
  /\ o # NoTrx => ~IsNested(o) /\ Connected(o) /\ conn[o] = c
  /\ \A t \in Trx :
       /\ Sent(c, t, "commit") \/ Sent(c, t, "rollback") => o = t
       /\ Sent(c, t, "begin") \/ Sent(c, t, "isolation") => o # t
       /\ Granted(c, t, "isolation") \/ Denied(c, t, "isolation") => o # t

\* The writes of a session are of transactions around which is its owner.
Writers(c) ==
  \A w \in sess[c].writes :
    Connected(w) /\ conn[w] = c /\ Underway(w) /\ sess[c].owner \in Line(w)

\* A savepoint separates the writes of its transaction from those before it.
MarkSplits(c, m) ==
  /\ m.sp \in Trx /\ Connected(m.sp) /\ conn[m.sp] = c /\ IsNested(m.sp)
  /\ ~Sent(c, m.sp, "savepoint")
  /\ m.before \subseteq sess[c].writes
  /\ \A w \in m.before : m.sp \notin Line(w)
  /\ Live(c, m.sp) => \A w \in sess[c].writes \ m.before : m.sp \in Line(w)

\* Later savepoints remember more, and are nested in those that matter.
Earlier(c, m, n) ==
  /\ m.before \subseteq n.before
  /\ Live(c, m.sp) /\ Live(c, n.sp) => m.sp \in anc[n.sp]

Separated(c, q) ==
  /\ \A i \in DOMAIN q : MarkSplits(c, q[i])
  /\ \A i, j \in DOMAIN q : i < j => Earlier(c, q[i], q[j])

Marks(c) == Separated(c, sess[c].marks)

ServerInv == \A c \in Conn : OwnerIs(c) /\ Writers(c) /\ Marks(c)

-----------------------------------------------------------------------------
(* What a step does to the statements and answers of one transaction *)

\* Nothing the server does on c itself.
Quiet(c) == ~Execute(c) /\ ~Disconnect(c)

LEMMA QuietQueues ==
  ASSUME IInv, SessionInv, CarefulInv, Disciplined, [Next]_vars, NEW c \in Conn, Quiet(c),
         NEW t \in Trx, NEW k \in Kinds
  PROVE  /\ Sent(c, t, k) => Sent(c, t, k)'
         /\ Sent(c, t, k)' =>
              \/ Sent(c, t, k)
              \/ c \notin dead /\ \E a \in Args : Posts(c, t, k, a)
              \/ \E m \in Answer : m.trx = t /\ k = "begin" /\ HearsIsolation(c, m)
         /\ Granted(c, t, k)' => Granted(c, t, k)
         /\ Denied(c, t, k)' => Denied(c, t, k) \/ c \in dead
         /\ Granted(c, t, k) =>
              \/ Granted(c, t, k)'
              \/ \E m \in Answer : m.trx = t /\ m.kind = k /\ m.ok /\ Only(t) /\ Gets(c, m)
         /\ Denied(c, t, k) =>
              \/ Denied(c, t, k)'
              \/ \E m \in Answer : m.trx = t /\ m.kind = k /\ ~m.ok /\ Only(t) /\ Gets(c, m)
<1>0. TypeOK /\ chan[c] \in Seq(Request) /\ reply[c] \in Seq(Answer)
  BY DEF IInv, TypeOK
<1>1. CASE Idles(c)
  BY <1>1 DEF Idles, Sent, Granted, Denied
<1>2. ASSUME NEW u \in Trx, NEW l \in Kinds, NEW a \in Args, Posts(c, u, l, a)
      PROVE  /\ Sent(c, t, k) => Sent(c, t, k)'
             /\ Sent(c, t, k)' => Sent(c, t, k) \/ (c \notin dead /\ u = t /\ l = k)
             /\ Granted(c, t, k)' <=> Granted(c, t, k)
             /\ Denied(c, t, k)' => Denied(c, t, k) \/ c \in dead
             /\ Denied(c, t, k) => Denied(c, t, k)'
  <2>1. PICK q \in Request : q = Message(u, l, a) /\ q.trx = u /\ q.kind = l
    BY MessageType DEF Message
  <2>2. Post(c, q, reply[c])
    BY <1>2, <2>1 DEF Posts
  <2>3. CASE c \notin dead
    <3>1. chan'[c] = Append(chan[c], q) /\ reply'[c] = reply[c]
      BY <1>0, <2>2, <2>3, PostIs
    <3>2. Lists(Append(chan[c], q), t, k) <=> Lists(chan[c], t, k) \/ (q.trx = t /\ q.kind = k)
      BY <1>0, ListsAppend
    <3> QED BY <2>1, <2>3, <3>1, <3>2 DEF Sent, Granted, Denied
  <2>4. CASE c \in dead
    <3>1. PICK n \in Answer : n = Reply(q, FALSE) /\ n.ok = FALSE
      BY MessageType DEF Reply
    <3>2. chan'[c] = chan[c] /\ reply'[c] = Append(reply[c], n)
      BY <1>0, <2>2, <2>4, <3>1, PostIs
    <3>3. \A b : Tells(Append(reply[c], n), t, k, b) <=>
                    Tells(reply[c], t, k, b) \/ (n.trx = t /\ n.kind = k /\ n.ok = b)
      BY <1>0, ListsAppend
    <3> QED BY <2>4, <3>1, <3>2, <3>3 DEF Sent, Granted, Denied
  <2> QED BY <2>3, <2>4
<1>3. ASSUME NEW m \in Answer, m.trx \in Trx, Only(m.trx), Gets(c, m)
      PROVE  /\ Sent(c, t, k) => Sent(c, t, k)'
             /\ Sent(c, t, k)' =>
                  Sent(c, t, k) \/ (m.trx = t /\ k = "begin" /\ HearsIsolation(c, m))
             /\ Granted(c, t, k)' => Granted(c, t, k)
             /\ Denied(c, t, k)' => Denied(c, t, k) \/ c \in dead
             /\ Granted(c, t, k) => Granted(c, t, k)' \/ (m.trx = t /\ m.kind = k /\ m.ok)
             /\ Denied(c, t, k) => Denied(c, t, k)' \/ (m.trx = t /\ m.kind = k /\ ~m.ok)
  <2>0. Hears(c, m) /\ reply[c] # <<>> /\ m = Head(reply[c]) /\ Tail(reply[c]) \in Seq(Answer)
    <3>1. Hears(c, m)
      BY <1>3 DEF Gets, HearsInitFailed, HearsIsolation, HearsBegun, HearsFinished, HearsQueried
    <3> QED BY <1>0, <3>1, TailAt DEF Hears
  <2>1. \A b : Tells(reply[c], t, k, b) <=>
                  \/ Tells(Tail(reply[c]), t, k, b)
                  \/ Head(reply[c]).trx = t /\ Head(reply[c]).kind = k /\ Head(reply[c]).ok = b
    BY <1>0, <2>0, ListsTail
  <2>2. CASE Takes(c)
    <3>1. chan'[c] = chan[c] /\ reply'[c] = Tail(reply[c])
      BY <1>0, <2>2 DEF Takes, TypeOK
    <3> QED BY <2>0, <2>1, <3>1 DEF Sent, Granted, Denied
  <2>3. CASE HearsIsolation(c, m)
    <3>1. PICK q \in Request : q = Message(m.trx, "begin", "undefined")
                               /\ q.trx = m.trx /\ q.kind = "begin"
      BY <1>3, MessageType DEF Kinds, Args, Message
    <3>2. Post(c, q, Tail(reply[c]))
      BY <2>3, <3>1 DEF HearsIsolation
    <3>3. CASE c \notin dead
      <4>1. chan'[c] = Append(chan[c], q) /\ reply'[c] = Tail(reply[c])
        BY <1>0, <2>0, <3>2, <3>3, PostIs
      <4>2. Lists(Append(chan[c], q), t, k) <=> Lists(chan[c], t, k) \/ (q.trx = t /\ q.kind = k)
        BY <1>0, ListsAppend
      <4> QED BY <2>0, <2>1, <2>3, <3>1, <4>1, <4>2 DEF Sent, Granted, Denied
    <3>4. CASE c \in dead
      <4>1. PICK n \in Answer : n = Reply(q, FALSE) /\ n.ok = FALSE
        BY MessageType DEF Reply
      <4>2. chan'[c] = chan[c] /\ reply'[c] = Append(Tail(reply[c]), n)
        BY <1>0, <2>0, <3>2, <3>4, <4>1, PostIs
      <4>3. \A b : Tells(Append(Tail(reply[c]), n), t, k, b) <=>
                      \/ Tells(Tail(reply[c]), t, k, b)
                      \/ n.trx = t /\ n.kind = k /\ n.ok = b
        BY <2>0, ListsAppend
      <4> QED BY <2>0, <2>1, <3>4, <4>1, <4>2, <4>3 DEF Sent, Granted, Denied
    <3> QED BY <3>3, <3>4
  <2> QED BY <1>3, <2>2, <2>3 DEF Gets, HearsInitFailed, HearsBegun, HearsFinished, HearsQueried
<1>4. Moves(c)
  BY MovesAre
<1> QED BY <1>1, <1>2, <1>3, <1>4 DEF Moves, Quiet

LEMMA QuietServer ==
  ASSUME IInv, SessionInv, [Next]_vars, NEW c \in Conn, Quiet(c)
  PROVE  sess'[c] = sess[c] /\ (c \in dead' => c \in dead)
<1>1. sess'[c] = sess[c]
  BY QueueGrows DEF Quiet
<1>2. c \in dead' => c \in dead
  <2>1. CASE dead' = dead
    BY <2>1
  <2>2. ASSUME NEW d \in Conn, Execute(d) \/ Deliver(d) \/ Disconnect(d) \/ ReplaceConnection(d)
        PROVE  c \in dead' => c \in dead
    BY <2>2 DEF Execute, Deliver, Disconnect, ReplaceConnection, server, Quiet
  <2>3. ASSUME NEW t \in Trx, User(t) \/ Runtime(t)
        PROVE  dead' = dead
    BY <2>3 DEF User, Runtime, NewTransaction, NewNested, ContainerSettles, UserFinishes,
       UserQuery, AcquireConnection, AcquireFail, InvokeContainer, RollbackTimeout, Release, server
  <2>4. UNCHANGED vars => dead' = dead
    BY DEF vars, server
  <2> QED BY <2>1, <2>2, <2>3, <2>4 DEF Next, Network
<1> QED BY <1>1, <1>2

LEMMA LostQueues ==
  ASSUME IInv, NEW c \in Conn, Disconnect(c), NEW t, NEW k
  PROVE  /\ ~Sent(c, t, k)' /\ c \in dead' /\ c \notin dead /\ sess'[c] = IdleSession
         /\ ~Granted(c, t, k)'
         /\ Denied(c, t, k)' <=> Denied(c, t, k) \/ Granted(c, t, k) \/ Sent(c, t, k)
<1>0. TypeOK /\ chan[c] \in Seq(Request) /\ reply[c] \in Seq(Answer)
  BY DEF IInv, TypeOK
<1>1. /\ chan'[c] = <<>> /\ reply'[c] = Failures(reply[c]) \o Failures(chan[c])
      /\ c \in dead' /\ c \notin dead /\ sess'[c] = IdleSession
  BY <1>0 DEF Disconnect, TypeOK
<1>2. \A ok : Tells(Failures(reply[c]) \o Failures(chan[c]), t, k, ok) <=>
                ok = FALSE /\ (Lists(reply[c], t, k) \/ Lists(chan[c], t, k))
  BY <1>0, ListsLost
<1>3. ~Lists(<<>>, t, k)
  BY ListsEmpty
<1>4. Lists(reply[c], t, k) <=> Tells(reply[c], t, k, TRUE) \/ Tells(reply[c], t, k, FALSE)
  BY <1>0, ListsTells
<1> QED BY <1>1, <1>2, <1>3, <1>4 DEF Sent, Granted, Denied

\* What is known when the server runs m, and what it does.
Runs(c, m, ok) ==
  /\ chan[c] # <<>> /\ m = Head(chan[c])
  /\ m \in Request /\ m.trx \in Trx /\ m.kind \in Kinds /\ ok \in BOOLEAN
  /\ Connected(m.trx) /\ conn[m.trx] = c /\ Sent(c, m.trx, m.kind) /\ Flies(m.trx, m.kind)
  /\ Sender(m) /\ c \notin dead
  /\ m.kind \in Inner => sess[c].owner \in Line(m.trx)
  /\ sess'[c] = IF ok THEN AfterSuccess(sess[c], m.kind, m.trx)
                ELSE AfterFailure(sess[c], m.kind)
  /\ ok => CanRun(sess[c], m.kind, m.trx)
  /\ ~ok => (CanRun(sess[c], m.kind, m.trx) => MayFail(m.kind))
  /\ durable' = durable \cup (IF ok THEN MadeDurable(sess[c], m.kind, m.trx) ELSE {})
  /\ dead' = dead /\ SameTree /\ \A t \in Trx : Untouched(t)
  /\ Running(m.trx) \/ m.kind \in Opening => chan'[c] = <<>>
  /\ \A t \in Trx, k \in Kinds :
       /\ Sent(c, t, k)' => Sent(c, t, k) /\ m.trx \notin Line(t)
       /\ Sent(c, t, k) => Sent(c, t, k)' \/ (m.trx = t /\ m.kind = k)
       /\ Sent(c, t, k)' /\ k \in Inner => m.kind \notin Boundary
       /\ Granted(c, t, k)' <=> Granted(c, t, k) \/ (m.trx = t /\ m.kind = k /\ ok)
       /\ Denied(c, t, k)' <=> Denied(c, t, k) \/ (m.trx = t /\ m.kind = k /\ ~ok)

LEMMA RunIs ==
  ASSUME IInv, SessionInv, CarefulInv, NEW c \in Conn, Execute(c)
  PROVE  \E m \in Request, ok \in BOOLEAN : Runs(c, m, ok)
<1>0. /\ TypeOK /\ chan[c] \in Seq(Request) /\ reply[c] \in Seq(Answer)
      /\ chan[c] # <<>>
  BY DEF IInv, TypeOK, Execute
<1>1. PICK m \in Request : m = Head(chan[c]) /\ m = chan[c][1] /\ 1 \in DOMAIN chan[c]
  BY <1>0, TailAt
<1>2. PICK ok \in BOOLEAN :
        /\ sess' = [sess EXCEPT ![c] = IF ok THEN AfterSuccess(sess[c], m.kind, m.trx)
                                       ELSE AfterFailure(sess[c], m.kind)]
        /\ ok => CanRun(sess[c], m.kind, m.trx)
        /\ ~ok => (CanRun(sess[c], m.kind, m.trx) => MayFail(m.kind))
        /\ durable' = durable \cup (IF ok THEN MadeDurable(sess[c], m.kind, m.trx) ELSE {})
        /\ reply' = [reply EXCEPT ![c] = Append(reply[c], Reply(m, ok))]
        /\ chan' = [chan EXCEPT ![c] = Tail(chan[c])]
  <2>1. CASE /\ CanRun(sess[c], m.kind, m.trx)
             /\ sess' = [sess EXCEPT ![c] = AfterSuccess(@, m.kind, m.trx)]
             /\ durable' = durable \cup MadeDurable(sess[c], m.kind, m.trx)
             /\ reply' = [reply EXCEPT ![c] = Append(@, Reply(m, TRUE))]
    <3> WITNESS TRUE \in BOOLEAN
    <3> QED BY <2>1, <1>1 DEF Execute
  <2>2. CASE /\ CanRun(sess[c], m.kind, m.trx) => MayFail(m.kind)
             /\ sess' = [sess EXCEPT ![c] = AfterFailure(@, m.kind)]
             /\ durable' = durable
             /\ reply' = [reply EXCEPT ![c] = Append(@, Reply(m, FALSE))]
    <3> WITNESS FALSE \in BOOLEAN
    <3> QED BY <2>2, <1>1 DEF Execute
  <2> QED BY <1>1, <2>1, <2>2 DEF Execute
<1>3. sess'[c] = IF ok THEN AfterSuccess(sess[c], m.kind, m.trx)
                 ELSE AfterFailure(sess[c], m.kind)
  <2> DEFINE z == IF ok THEN AfterSuccess(sess[c], m.kind, m.trx)
                  ELSE AfterFailure(sess[c], m.kind)
  <2>1. sess' = [sess EXCEPT ![c] = z]
    BY <1>2
  <2> HIDE DEF z
  <2>2. sess'[c] = z
    BY <1>0, <2>1 DEF TypeOK
  <2> QED BY <2>2 DEF z
<1>4. PICK n \in Answer : n = Reply(m, ok) /\ n.trx = m.trx /\ n.kind = m.kind /\ n.ok = ok
  BY MessageType DEF Reply
<1>5. reply'[c] = Append(reply[c], n) /\ chan'[c] = Tail(chan[c])
  BY <1>0, <1>2, <1>4 DEF TypeOK
<1>6. /\ m.trx \in Trx /\ m.kind \in Kinds /\ Connected(m.trx) /\ conn[m.trx] = c
      /\ Sent(c, m.trx, m.kind)
  BY <1>1, OnTheWay DEF Request, Sent, Lists
<1>7. Flies(m.trx, m.kind)
  BY <1>6 DEF CarefulInv, Queue, InFlight, Carries, Sent
<1>8. /\ Sender(m) /\ c \notin dead
      /\ m.kind \in Inner => sess[c].owner \in Line(m.trx)
  BY <1>0, <1>1 DEF SessionInv, Orderly, Senders, DeadIsIdle, InnerInOwn
<1>9. dead' = dead /\ SameTree /\ \A t \in Trx : Untouched(t)
  BY DEF Execute, SameTree, Untouched, tree
<1>10. Running(m.trx) \/ m.kind \in Opening => chan'[c] = <<>>
  <2>1. Running(m.trx) => Tail(chan[c]) = <<>>
    BY <1>0, <1>1, RunLast
  <2>2. m.kind \in Opening => Tail(chan[c]) = <<>>
    <3>1. m.kind \in Opening => 1 = Len(chan[c])
      BY <1>1 DEF SessionInv, Orderly, OpeningIsLast
    <3> QED BY <1>0, <3>1, OnlyOne
  <2> QED BY <1>5, <2>1, <2>2
<1>11. ASSUME NEW t \in Trx, NEW k \in Kinds
       PROVE  /\ Sent(c, t, k)' => Sent(c, t, k) /\ m.trx \notin Line(t)
              /\ Sent(c, t, k) => Sent(c, t, k)' \/ (m.trx = t /\ m.kind = k)
              /\ Sent(c, t, k)' /\ k \in Inner => m.kind \notin Boundary
              /\ Granted(c, t, k)' <=> Granted(c, t, k) \/ (m.trx = t /\ m.kind = k /\ ok)
              /\ Denied(c, t, k)' <=> Denied(c, t, k) \/ (m.trx = t /\ m.kind = k /\ ~ok)
  <2>1. Lists(chan[c], t, k) <=> Lists(Tail(chan[c]), t, k) \/ (Head(chan[c]).trx = t /\ Head(chan[c]).kind = k)
    BY <1>0, ListsTail
  <2>2. \A b : Tells(Append(reply[c], n), t, k, b) <=>
                 Tells(reply[c], t, k, b) \/ (n.trx = t /\ n.kind = k /\ n.ok = b)
    BY <1>0, ListsAppend
  <2>3. ASSUME Lists(Tail(chan[c]), t, k)
        PROVE  m.trx \notin Line(t) /\ (k \in Inner => m.kind \notin Boundary)
    <3>0. /\ DOMAIN chan[c] = 1 .. Len(chan[c]) /\ Len(chan[c]) \in Nat
          /\ DOMAIN Tail(chan[c]) = 1 .. Len(chan[c]) - 1
          /\ \A i \in 1 .. Len(chan[c]) - 1 :
               i + 1 \in DOMAIN chan[c] /\ Tail(chan[c])[i] = chan[c][i + 1]
      BY <1>0, TailAt
    <3>1. PICK i \in DOMAIN Tail(chan[c]) : Tail(chan[c])[i].trx = t /\ Tail(chan[c])[i].kind = k
      BY <2>3 DEF Lists
    <3>2. PICK j \in DOMAIN chan[c] : j = i + 1 /\ chan[c][j].trx = t /\ chan[c][j].kind = k /\ 1 < j
      BY <3>0, <3>1
    <3>3. m.trx \notin Line(t)
      BY <1>1, <3>2 DEF CarefulInv, Queue, Disjoint
    <3>4. k \in Inner => m.kind \notin Boundary
      BY <1>1, <3>2 DEF SessionInv, Orderly, InnerInOwn
    <3> QED BY <3>3, <3>4
  <2>4. Granted(c, t, k)' <=> Granted(c, t, k) \/ (m.trx = t /\ m.kind = k /\ ok = TRUE)
    <3>1. Tells(Append(reply[c], n), t, k, TRUE) <=>
            Tells(reply[c], t, k, TRUE) \/ (m.trx = t /\ m.kind = k /\ ok = TRUE)
      BY <1>4, <2>2
    <3> QED BY <1>5, <3>1 DEF Granted
  <2>5. Denied(c, t, k)' <=> Denied(c, t, k) \/ (m.trx = t /\ m.kind = k /\ ok = FALSE)
    <3>1. Tells(Append(reply[c], n), t, k, FALSE) <=>
            Tells(reply[c], t, k, FALSE) \/ (m.trx = t /\ m.kind = k /\ ok = FALSE)
      BY <1>4, <2>2
    <3> QED BY <1>5, <3>1 DEF Denied
  <2>6. Sent(c, t, k)' <=> Lists(Tail(chan[c]), t, k)
    BY <1>5 DEF Sent
  <2>7. Sent(c, t, k) <=> Sent(c, t, k)' \/ (m.trx = t /\ m.kind = k)
    BY <1>1, <2>1, <2>6 DEF Sent
  <2> QED BY <2>3, <2>4, <2>5, <2>6, <2>7
<1>12. Runs(c, m, ok)
  BY <1>0, <1>1, <1>2, <1>3, <1>6, <1>7, <1>8, <1>9, <1>10, <1>11 DEF Runs
<1> QED BY <1>12

-----------------------------------------------------------------------------
(* What the server does *)

LEMMA IdleIs ==
  ASSUME NEW z \in SessionState
  PROVE  z = IdleSession <=>
           z.owner = NoTrx /\ z.aborted = FALSE /\ z.writes = {} /\ z.marks = <<>>
BY DEF SessionState, IdleSession

LEMMA FirstOnes ==
  ASSUME NEW S, NEW q \in Seq(S), NEW n \in Nat, n <= Len(q)
  PROVE  /\ DOMAIN SubSeq(q, 1, n) = 1 .. n
         /\ \A i \in 1 .. n : i \in DOMAIN q /\ SubSeq(q, 1, n)[i] = q[i]
OBVIOUS

KeepsData(s, z) == z.owner = s.owner /\ z.writes = s.writes /\ z.marks = s.marks

\* A session that goes from s to z, by a statement of kind k of t.
Stalls(s, z, k, t, ok) ==
  /\ k # "rollback" /\ KeepsData(s, z)
  /\ s.aborted => z.aborted
  /\ z.aborted => s.aborted \/ (ok = FALSE /\ s.owner # NoTrx)
  /\ ok => k = "isolation"
  /\ k = "savepoint" => s.owner = NoTrx \/ s.aborted
  /\ k = "release" => s.aborted \/ ~HasMark(s, t)
  /\ k = "rollbackTo" => ~HasMark(s, t)

Opened(s, z, k, t) ==
  /\ k = "begin" /\ s.owner = NoTrx /\ z.owner = t
  /\ z.writes = s.writes /\ z.marks = s.marks /\ z.aborted = s.aborted

Sets(s, z, k, t) ==
  /\ k = "savepoint" /\ s.owner # NoTrx /\ z.owner = s.owner /\ z.writes = s.writes
  /\ s.aborted = FALSE /\ z.aborted = FALSE
  /\ z.marks = Append(s.marks, [sp |-> t, before |-> s.writes])

Writes(s, z, k, t) ==
  /\ k = "query" /\ z.owner = s.owner /\ z.marks = s.marks
  /\ s.aborted = FALSE /\ z.aborted = FALSE
  /\ s.owner # NoTrx => z.writes = s.writes \cup {t}

Unsets(s, z, k, t) ==
  /\ k = "release" /\ z.owner = s.owner /\ z.writes = s.writes
  /\ s.aborted = FALSE /\ z.aborted = FALSE
  /\ \E n \in DOMAIN s.marks : s.marks[n].sp = t /\ z.marks = SubSeq(s.marks, 1, n - 1)

GoesBack(s, z, k, t) ==
  /\ k = "rollbackTo" /\ z.owner = s.owner /\ z.aborted = FALSE
  /\ \E n \in DOMAIN s.marks :
       s.marks[n].sp = t /\ z.writes = s.marks[n].before /\ z.marks = SubSeq(s.marks, 1, n)

Clears(s, z, k, ok) == k \in Ending /\ z = IdleSession /\ (~ok => k = "commit")

ServerDoes(s, z, k, t, ok) ==
  \/ Stalls(s, z, k, t, ok) \/ Clears(s, z, k, ok)
  \/ ok /\ (\/ Opened(s, z, k, t) \/ Sets(s, z, k, t) \/ Writes(s, z, k, t)
            \/ Unsets(s, z, k, t) \/ GoesBack(s, z, k, t))

LEMMA Succeeds ==
  ASSUME NEW s \in SessionState, NEW t \in Trx, NEW k \in Kinds, CanRun(s, k, t),
         NEW z, z = AfterSuccess(s, k, t)
  PROVE  ServerDoes(s, z, k, t, TRUE)
<1>0. /\ s.owner \in Trx \cup {NoTrx} /\ s.aborted \in BOOLEAN /\ s.writes \in SUBSET Trx
      /\ s.marks \in Seq(Mark)
  BY DEF SessionState
<1>1. CASE k = "isolation"
  <2>1. z = s
    BY <1>1 DEF AfterSuccess
  <2> QED BY <1>1, <2>1 DEF ServerDoes, Stalls, KeepsData
<1>2. CASE k = "begin"
  <2>1. z = [s EXCEPT !.owner = t] /\ s.owner = NoTrx
    BY <1>2 DEF AfterSuccess, CanRun, Began
  <2> QED BY <1>2, <2>1 DEF ServerDoes, Opened, SessionState
<1>3. CASE k = "savepoint"
  <2>1. /\ z = [s EXCEPT !.marks = Append(s.marks, [sp |-> t, before |-> s.writes])]
        /\ s.owner # NoTrx /\ ~s.aborted
    BY <1>3 DEF AfterSuccess, CanRun, Marked
  <2> QED BY <1>0, <1>3, <2>1 DEF ServerDoes, Sets, SessionState
<1>4. CASE k = "query"
  <2>1. z = Written(s, t) /\ ~s.aborted
    BY <1>4 DEF AfterSuccess, CanRun
  <2> QED BY <1>0, <1>4, <2>1 DEF ServerDoes, Writes, Written, SessionState
<1>5. HasMark(s, t) => MarkOf(s, t) \in DOMAIN s.marks /\ s.marks[MarkOf(s, t)].sp = t
  BY DEF HasMark, MarkOf
<1>6. CASE k = "release"
  <2>1. z = Unmarked(s, t) /\ ~s.aborted /\ HasMark(s, t)
    BY <1>6 DEF AfterSuccess, CanRun
  <2>2. PICK n \in DOMAIN s.marks : n = MarkOf(s, t) /\ s.marks[n].sp = t
    BY <1>5, <2>1
  <2>3. z = [s EXCEPT !.marks = SubSeq(s.marks, 1, n - 1)]
    BY <2>1, <2>2 DEF Unmarked
  <2>4. /\ z.owner = s.owner /\ z.writes = s.writes /\ z.aborted = s.aborted
        /\ z.marks = SubSeq(s.marks, 1, n - 1)
    BY <2>3 DEF SessionState
  <2> QED BY <1>0, <1>6, <2>1, <2>2, <2>4 DEF ServerDoes, Unsets
<1>7. CASE k = "rollbackTo"
  <2>1. z = RolledBackTo(s, t) /\ HasMark(s, t)
    BY <1>7 DEF AfterSuccess, CanRun
  <2>2. PICK n \in DOMAIN s.marks : n = MarkOf(s, t) /\ s.marks[n].sp = t
    BY <1>5, <2>1
  <2>3. z = [s EXCEPT !.aborted = FALSE, !.writes = s.marks[n].before,
                      !.marks = SubSeq(s.marks, 1, n)]
    BY <2>1, <2>2 DEF RolledBackTo
  <2>4. /\ z.owner = s.owner /\ z.writes = s.marks[n].before /\ z.aborted = FALSE
        /\ z.marks = SubSeq(s.marks, 1, n)
    BY <2>3 DEF SessionState
  <2> QED BY <1>0, <1>7, <2>2, <2>4 DEF ServerDoes, GoesBack
<1>8. CASE k \in {"commit", "rollback"}
  BY <1>8 DEF AfterSuccess, ServerDoes, Clears, Ending
<1> QED BY <1>1, <1>2, <1>3, <1>4, <1>6, <1>7, <1>8 DEF Kinds

LEMMA FailsTo ==
  ASSUME NEW s \in SessionState, NEW t \in Trx, NEW k \in Kinds,
         CanRun(s, k, t) => MayFail(k), NEW z, z = AfterFailure(s, k)
  PROVE  ServerDoes(s, z, k, t, FALSE)
<1>0. s.aborted \in BOOLEAN
  BY DEF SessionState
<1>1. /\ k # "rollback"
      /\ k = "savepoint" => s.owner = NoTrx \/ s.aborted
      /\ k = "release" => s.aborted \/ ~HasMark(s, t)
      /\ k = "rollbackTo" => ~HasMark(s, t)
  BY DEF CanRun, MayFail
<1>2. CASE k = "commit" /\ ~CommitFailureKeepsOpen
  BY <1>2 DEF AfterFailure, ServerDoes, Clears, Ending
<1>3. CASE ~(k = "commit" /\ ~CommitFailureKeepsOpen)
  <2>1. z = [s EXCEPT !.aborted = s.aborted \/ (AbortOnError /\ s.owner # NoTrx)]
    BY <1>3 DEF AfterFailure
  <2>2. KeepsData(s, z) /\ z.aborted = (s.aborted \/ (AbortOnError /\ s.owner # NoTrx))
    BY <2>1 DEF SessionState, KeepsData
  <2> QED BY <1>0, <1>1, <2>2 DEF ServerDoes, Stalls
<1> QED BY <1>2, <1>3

LEMMA RunDoes ==
  ASSUME IInv, NEW c \in Conn, NEW m, NEW ok, Runs(c, m, ok)
  PROVE  ServerDoes(sess[c], sess'[c], m.kind, m.trx, ok)
<1>1. sess[c] \in SessionState /\ m.trx \in Trx /\ m.kind \in Kinds /\ ok \in BOOLEAN
  BY DEF IInv, TypeOK, Runs
<1>2. CASE ok = TRUE
  BY <1>1, <1>2, Succeeds DEF Runs
<1>3. CASE ok = FALSE
  BY <1>1, <1>3, FailsTo DEF Runs
<1> QED BY <1>1, <1>2, <1>3

-----------------------------------------------------------------------------
(* What stays *)

LEMMA Stays ==
  ASSUME IInv, SessionInv, [Next]_vars, NEW t \in Trx, Connected(t)
  PROVE  /\ Connected(t)' /\ conn'[t] = conn[t] /\ Line(t)' = Line(t) /\ anc'[t] = anc[t]
         /\ IsNested(t)' = IsNested(t)
         /\ completed[t] => completed'[t]
         /\ Underway(t) => Underway(t)'
<1>1. Lasting
  <2>1. \A c \in Conn : OpeningIsLast(c)
    BY DEF SessionInv, Orderly
  <2> QED BY <2>1, LastingStep
<1> QED BY <1>1 DEF Lasting, Line, IsNested

\* Who sends statements of which kinds, and how.
LEMMA SendsHow ==
  ASSUME NEW t \in Trx, NEW k, NEW a, Transacts(t, k, a)
  PROVE  /\ k \in Finals => Finishes(t, k, a)
         /\ k \in {"isolation", "begin", "savepoint"} => Starts(t) /\ ~Connected(t)
         /\ k = "query" => Asks(t)
<1>1. InitKind(t) \in {"isolation", "begin", "savepoint"}
  BY DEF InitKind
<1> QED BY <1>1 DEF Transacts, Finals, Starts, Connected

LEMMA SentBefore ==
  ASSUME IInv, SessionInv, CarefulInv, Disciplined, [Next]_vars, NEW c \in Conn,
         NEW t \in Trx, NEW k \in Kinds, Sent(c, t, k)'
  PROVE  \/ Sent(c, t, k)
         \/ Quiet(c) /\ c \notin dead /\ \E a \in Args : Posts(c, t, k, a)
         \/ Quiet(c) /\ \E m \in Answer : m.trx = t /\ k = "begin" /\ HearsIsolation(c, m)
<1>1. CASE Quiet(c)
  BY <1>1, QuietQueues
<1>2. CASE Execute(c)
  BY <1>2, RunIs DEF Runs
<1>3. CASE Disconnect(c)
  BY <1>3, LostQueues
<1> QED BY <1>1, <1>2, <1>3 DEF Quiet

LEMMA GrantedBefore ==
  ASSUME IInv, SessionInv, CarefulInv, Disciplined, [Next]_vars, NEW c \in Conn,
         NEW t \in Trx, NEW k \in Kinds, Granted(c, t, k)'
  PROVE  \/ Granted(c, t, k)
         \/ \E m \in Request : Execute(c) /\ Runs(c, m, TRUE) /\ m.trx = t /\ m.kind = k
<1>1. CASE Quiet(c)
  BY <1>1, QuietQueues
<1>2. CASE Execute(c)
  <2>1. PICK m \in Request, b \in BOOLEAN : Runs(c, m, b)
    BY <1>2, RunIs
  <2>2. Granted(c, t, k)' <=> Granted(c, t, k) \/ (m.trx = t /\ m.kind = k /\ b)
    BY <2>1 DEF Runs
  <2>3. CASE b = TRUE
    BY <1>2, <2>1, <2>2, <2>3
  <2>4. CASE b = FALSE
    BY <2>2, <2>4
  <2> QED BY <2>3, <2>4
<1>3. CASE Disconnect(c)
  BY <1>3, LostQueues
<1> QED BY <1>1, <1>2, <1>3 DEF Quiet

LEMMA DeniedBefore ==
  ASSUME IInv, SessionInv, CarefulInv, Disciplined, [Next]_vars, NEW c \in Conn,
         NEW t \in Trx, NEW k \in Kinds, Denied(c, t, k)'
  PROVE  \/ Denied(c, t, k)
         \/ Quiet(c) /\ c \in dead
         \/ \E m \in Request : Execute(c) /\ Runs(c, m, FALSE) /\ m.trx = t /\ m.kind = k
         \/ Disconnect(c) /\ (Sent(c, t, k) \/ Granted(c, t, k))
<1>1. CASE Quiet(c)
  BY <1>1, QuietQueues
<1>2. CASE Execute(c)
  <2>1. PICK m \in Request, b \in BOOLEAN : Runs(c, m, b)
    BY <1>2, RunIs
  <2>2. Denied(c, t, k)' <=> Denied(c, t, k) \/ (m.trx = t /\ m.kind = k /\ ~b)
    BY <2>1 DEF Runs
  <2>3. CASE b = FALSE
    BY <1>2, <2>1, <2>2, <2>3
  <2>4. CASE b = TRUE
    BY <2>2, <2>4
  <2> QED BY <2>3, <2>4
<1>3. CASE Disconnect(c)
  BY <1>3, LostQueues
<1> QED BY <1>1, <1>2, <1>3 DEF Quiet

LEMMA ToldAfter ==
  ASSUME IInv, SessionInv, CarefulInv, Disciplined, [Next]_vars, NEW c \in Conn,
         NEW t \in Trx, NEW k \in Kinds
  PROVE  /\ Granted(c, t, k) =>
              \/ Granted(c, t, k)' \/ Disconnect(c)
              \/ \E m \in Answer : m.trx = t /\ m.kind = k /\ m.ok /\ Only(t) /\ Gets(c, m)
         /\ Denied(c, t, k) =>
              \/ Denied(c, t, k)'
              \/ \E m \in Answer : m.trx = t /\ m.kind = k /\ ~m.ok /\ Only(t) /\ Gets(c, m)
<1>1. CASE Quiet(c)
  BY <1>1, QuietQueues
<1>2. CASE Execute(c)
  <2>1. PICK m \in Request, b \in BOOLEAN : Runs(c, m, b)
    BY <1>2, RunIs
  <2> QED BY <2>1 DEF Runs
<1>3. CASE Disconnect(c)
  BY <1>3, LostQueues
<1> QED BY <1>1, <1>2, <1>3 DEF Quiet

\* A savepoint that does not matter never will.
LEMMA LiveBefore ==
  ASSUME IInv, SessionInv, CarefulInv, Disciplined, [Next]_vars, NEW c \in Conn,
         NEW t \in Trx, Connected(t), Live(c, t)'
  PROVE  Live(c, t)
<1>1. CASE ~completed'[t]
  BY <1>1, Stays DEF Live
<1>2. ASSUME NEW k \in {"release", "rollbackTo"}, Sent(c, t, k)'
      PROVE  Live(c, t)
  <2>1. k \in Kinds /\ k \in Finals
    BY DEF Kinds, Finals
  <2>2. CASE Sent(c, t, k)
    BY <2>2 DEF Live
  <2>3. ASSUME NEW a \in Args, Posts(c, t, k, a)
        PROVE  Live(c, t)
    BY <2>1, <2>3, SendsHow DEF Posts, Finishes, IsCompleted, Line, Live
  <2> QED BY <1>2, <2>1, <2>2, <2>3, SentBefore
<1> QED BY <1>1, <1>2 DEF Live

\* What flies of t, flies of a connected transaction, on its connection.
LEMMA OnItsWay ==
  ASSUME IInv, CarefulInv, NEW c \in Conn, NEW t \in Trx, NEW k \in Kinds,
         Sent(c, t, k) \/ Granted(c, t, k) \/ Denied(c, t, k)
  PROVE  Connected(t) /\ conn[t] = c /\ Flies(t, k) /\ Carries(c, t, k)
<1>1. Carries(c, t, k)
  BY DEF Sent, Granted, Denied, Carries, Lists, Tells
<1>2. Connected(t) /\ conn[t] = c
  BY <1>1, OnTheWay DEF Carries, Lists
<1> QED BY <1>1, <1>2 DEF CarefulInv, Queue, InFlight

-----------------------------------------------------------------------------
(* Who owns a session, and whose writes it holds *)

\* An answer that is delivered was on its way.
LEMMA HeardWas ==
  ASSUME IInv, NEW c, NEW m \in Answer, Hears(c, m)
  PROVE  /\ m.trx \in Trx /\ m.kind \in Kinds /\ c \in Conn
         /\ m.ok => Granted(c, m.trx, m.kind)
         /\ ~m.ok => Denied(c, m.trx, m.kind)
<1>1. /\ c \in Conn /\ reply[c] # <<>> /\ reply[c] \in Seq(Answer) /\ m = Head(reply[c])
      /\ m.ok \in BOOLEAN
  BY DEF Hears, IInv, TypeOK, Answer
<1>2. 1 \in DOMAIN reply[c] /\ m = reply[c][1]
  BY <1>1, TailAt
<1>3. m.ok => m.ok = TRUE
  BY <1>1
<1>4. ~m.ok => m.ok = FALSE
  BY <1>1
<1> QED BY <1>1, <1>2, <1>3, <1>4 DEF Granted, Denied, Tells, Answer

\* A top-level transaction that may still send statements owns its session.
LEMMA EnderOwns ==
  ASSUME IInv, SessionInv, NEW t \in Trx, NEW k \in Ending, NEW a, Finishes(t, k, a)
  PROVE  conn[t] \notin dead => sess[conn[t]].owner = t
<1>1. ~IsNested(t) /\ Underway(t) /\ ~completed[t] /\ Connected(t)
  <2>1. ~IsNested(t)
    BY DEF Finishes, Ending, Inner
  <2>2. stage[t] \in {"pending", "detached"}
    BY DEF Finishes, Ends
  <2> QED BY <2>1, <2>2 DEF Underway, Finishes, IsCompleted, Line, IInv, LifeCycle
<1>2. Running(t)
  BY <1>1, Uncompleted
<1>3. Active(t)
  BY <1>1, <1>2 DEF Active, IsRoot, Connected, Running, IsNested
<1> QED BY <1>3 DEF SessionInv, HolderOwns

\* No statement opens a transaction for the owner of the session.
LEMMA OwnerOpenedBefore ==
  ASSUME IInv, SessionInv, CarefulInv, Disciplined, [Next]_vars, NEW c \in Conn, Quiet(c),
         OwnerIs(c), NEW t \in Trx
  PROVE  /\ Sent(c, t, "begin")' \/ Sent(c, t, "isolation")' => sess[c].owner # t
         /\ Granted(c, t, "isolation")' \/ Denied(c, t, "isolation")' => sess[c].owner # t
<1>0. t # NoTrx /\ {"begin", "isolation"} \subseteq Kinds
  BY SessionAssumption DEF Kinds
<1>1. ASSUME NEW k \in {"begin", "isolation"}, Sent(c, t, k)'
      PROVE  sess[c].owner # t
  <2>1. CASE Sent(c, t, k)
    BY <1>1, <2>1 DEF OwnerIs
  <2>2. ASSUME NEW a \in Args, Posts(c, t, k, a)
        PROVE  sess[c].owner # t
    <3>1. ~Connected(t)
      BY <2>2, SendsHow DEF Posts
    <3> QED BY <1>0, <3>1 DEF OwnerIs
  <2>3. ASSUME NEW m \in Answer, m.trx = t, HearsIsolation(c, m)
        PROVE  sess[c].owner # t
    <3>1. Granted(c, t, "isolation")
      BY <2>3, HeardWas DEF HearsIsolation
    <3> QED BY <3>1 DEF OwnerIs
  <2> QED BY <1>0, <1>1, <2>1, <2>2, <2>3, SentBefore
<1>2. CASE Granted(c, t, "isolation")'
  BY <1>0, <1>2, GrantedBefore DEF OwnerIs, Quiet
<1>3. CASE Denied(c, t, "isolation")'
  <2>1. c \in dead => sess[c].owner = NoTrx
    BY DEF SessionInv, Orderly, DeadIsIdle
  <2> QED BY <1>0, <1>3, <2>1, DeniedBefore DEF OwnerIs, Quiet
<1> QED BY <1>1, <1>2, <1>3

LEMMA OwnerQuiet ==
  ASSUME IInv, SessionInv, CarefulInv, Disciplined, [Next]_vars, NEW c \in Conn, Quiet(c),
         OwnerIs(c)
  PROVE  OwnerIs(c)'
<1>0. sess'[c] = sess[c] /\ sess[c] \in SessionState
  BY QuietServer DEF IInv, TypeOK
<1>1. PICK o : o = sess[c].owner /\ o = sess'[c].owner
  BY <1>0
<1>2. o # NoTrx => o \in Trx /\ ~IsNested(o)' /\ Connected(o)' /\ conn'[o] = c
  BY <1>0, <1>1, Stays DEF OwnerIs, SessionState
<1>3. ASSUME NEW t \in Trx, NEW k \in Ending, Sent(c, t, k)'
      PROVE  o = t
  <2>0. k \in Kinds /\ k \in Finals /\ k # "begin"
    BY DEF Ending, Kinds, Finals
  <2>1. CASE Sent(c, t, k)
    BY <1>1, <2>1 DEF OwnerIs, Ending
  <2>2. ASSUME NEW a \in Args, Posts(c, t, k, a), c \notin dead
        PROVE  o = t
    <3>1. Finishes(t, k, a) /\ conn[t] = c
      BY <2>0, <2>2, SendsHow DEF Posts, Finishes
    <3> QED BY <1>1, <2>2, <3>1, EnderOwns
  <2> QED BY <1>3, <2>0, <2>1, <2>2, SentBefore
<1>4. \A t \in Trx : Sent(c, t, "commit")' \/ Sent(c, t, "rollback")' => o = t
  BY <1>3 DEF Ending
<1>5. \A t \in Trx :
        /\ Sent(c, t, "begin")' \/ Sent(c, t, "isolation")' => o # t
        /\ Granted(c, t, "isolation")' \/ Denied(c, t, "isolation")' => o # t
  BY <1>1, OwnerOpenedBefore
<1>6. o = NoTrx => sess'[c] = IdleSession
  BY <1>0, <1>1 DEF OwnerIs
<1> QED BY <1>1, <1>2, <1>4, <1>5, <1>6 DEF OwnerIs

\* While an opening statement is answered, nothing else is on its way.
LEMMA OpeningAnswered ==
  ASSUME IInv, SessionInv, NEW c \in Conn, NEW t \in Trx,
         Granted(c, t, "isolation") \/ Denied(c, t, "isolation")
  PROVE  chan[c] = <<>>
BY DEF Granted, Denied, Tells, SessionInv, Orderly, OpeningIsLast, Opening

\* The owner after the server has run a statement.
LEMMA OwnerRuns ==
  ASSUME IInv, SessionInv, CarefulInv, Disciplined, [Next]_vars, NEW c \in Conn,
         OwnerIs(c), NEW m, NEW ok, Runs(c, m, ok)
  PROVE  \/ sess'[c].owner = sess[c].owner
         \/ m.kind \in Ending /\ sess[c].owner = m.trx /\ sess'[c] = IdleSession
         \/ m.kind = "begin" /\ sess[c].owner = NoTrx /\ sess'[c].owner = m.trx
<1>1. ServerDoes(sess[c], sess'[c], m.kind, m.trx, ok)
  BY RunDoes
<1>2. m.trx \in Trx /\ Sent(c, m.trx, m.kind)
  BY DEF Runs
<1>3. m.kind \in Ending => sess[c].owner = m.trx
  BY <1>2 DEF OwnerIs, Ending
<1> QED BY <1>1, <1>3 DEF ServerDoes, Stalls, KeepsData, Clears, Opened, Sets, Writes, Unsets,
             GoesBack

LEMMA OwnerIdle ==
  ASSUME IInv, SessionInv, CarefulInv, Disciplined, [Next]_vars, NEW c \in Conn,
         OwnerIs(c), NEW m, NEW ok, Runs(c, m, ok), sess'[c].owner = NoTrx
  PROVE  sess'[c] = IdleSession
<1>0. sess[c] \in SessionState /\ sess'[c] \in SessionState
  BY InvariantStep DEF IInv, TypeOK
<1>1. ServerDoes(sess[c], sess'[c], m.kind, m.trx, ok)
  BY RunDoes
<1>2. m.trx \in Trx /\ NoTrx \notin Trx /\ NoTrx \notin Line(m.trx)
  BY SessionAssumption DEF Runs, Line, IInv, TypeOK
<1>3. m.kind \in Inner => sess[c].owner # NoTrx
  BY <1>2 DEF Runs
<1>4. CASE Stalls(sess[c], sess'[c], m.kind, m.trx, ok)
  <2>1. sess[c] = IdleSession
    BY <1>4 DEF Stalls, KeepsData, OwnerIs
  <2>2. /\ sess'[c].owner = NoTrx /\ sess'[c].writes = {} /\ sess'[c].marks = <<>>
        /\ sess'[c].aborted = FALSE
    BY <1>0, <1>4, <2>1 DEF Stalls, KeepsData, IdleSession, SessionState
  <2> QED BY <1>0, <2>2, IdleIs
<1> QED BY <1>1, <1>2, <1>3, <1>4 DEF ServerDoes, Clears, Opened, Sets, Writes, Unsets, GoesBack,
             Inner

LEMMA OwnerExecute ==
  ASSUME IInv, SessionInv, CarefulInv, Disciplined, [Next]_vars, NEW c \in Conn,
         OwnerIs(c), NEW m, NEW ok, Runs(c, m, ok)
  PROVE  OwnerIs(c)'
<1>0. /\ sess[c] \in SessionState /\ NoTrx \notin Trx
      /\ m.trx \in Trx /\ Connected(m.trx) /\ conn[m.trx] = c /\ Sent(c, m.trx, m.kind)
      /\ chan[c] # <<>>
  BY SessionAssumption DEF IInv, TypeOK, Runs
<1>1. \/ sess'[c].owner = sess[c].owner
      \/ m.kind \in Ending /\ sess[c].owner = m.trx /\ sess'[c] = IdleSession
      \/ m.kind = "begin" /\ sess[c].owner = NoTrx /\ sess'[c].owner = m.trx
  BY OwnerRuns
<1>2. PICK o, p : o = sess[c].owner /\ p = sess'[c].owner
  OBVIOUS
<1>3. p = NoTrx => sess'[c] = IdleSession
  BY <1>2, OwnerIdle
<1>4. \/ p = o
      \/ m.kind \in Ending /\ o = m.trx /\ p = NoTrx
      \/ m.kind = "begin" /\ o = NoTrx /\ p = m.trx
  BY <1>1, <1>2 DEF IdleSession
<1>5. p # NoTrx => p \in Trx /\ ~IsNested(p)' /\ Connected(p)' /\ conn'[p] = c
  <2>1. m.kind = "begin" => ~IsNested(m.trx)
    BY DEF Runs, Sender, Inner
  <2>2. p # NoTrx => p \in Trx /\ ~IsNested(p) /\ Connected(p) /\ conn[p] = c
    BY <1>0, <1>2, <1>4, <2>1 DEF OwnerIs, SessionState
  <2> QED BY <2>2, Stays
<1>6. ASSUME NEW t \in Trx
      PROVE  /\ Sent(c, t, "commit")' \/ Sent(c, t, "rollback")' => p = t
             /\ Sent(c, t, "begin")' \/ Sent(c, t, "isolation")' => p # t
             /\ Granted(c, t, "isolation")' \/ Denied(c, t, "isolation")' => p # t
  <2>1. ASSUME NEW k \in Kinds, Sent(c, t, k)'
        PROVE  Sent(c, t, k) /\ t # m.trx
    BY <2>1 DEF Runs, Line
  <2>4. ASSUME Granted(c, t, "isolation")' \/ Denied(c, t, "isolation")'
        PROVE  p # t
    <3>1. \/ Granted(c, t, "isolation") \/ Denied(c, t, "isolation")
          \/ m.trx = t /\ m.kind = "isolation"
      <4>1. "isolation" \in Kinds
        BY DEF Kinds
      <4> QED BY <2>4, <4>1 DEF Runs
    <3>2. o # t /\ m.trx = t /\ m.kind = "isolation"
      BY <1>0, <1>2, <3>1, OpeningAnswered DEF OwnerIs
    <3> QED BY <1>0, <1>4, <3>2
  <2>5. /\ Sent(c, t, "commit")' \/ Sent(c, t, "rollback")' => p = t
        /\ Sent(c, t, "begin")' \/ Sent(c, t, "isolation")' => p # t
    <3>1. /\ Sent(c, t, "commit")' \/ Sent(c, t, "rollback")' => o = t /\ t # m.trx
          /\ Sent(c, t, "begin")' \/ Sent(c, t, "isolation")' => o # t /\ t # m.trx
      BY <1>2, <2>1 DEF OwnerIs, Kinds
    <3> QED BY <1>0, <1>4, <3>1
  <2> QED BY <2>4, <2>5
<1> QED BY <1>2, <1>3, <1>5, <1>6 DEF OwnerIs

LEMMA OwnerIsStep ==
  ASSUME IInv, SessionInv, CarefulInv, Disciplined, [Next]_vars, NEW c \in Conn,
         OwnerIs(c)
  PROVE  OwnerIs(c)'
<1>1. CASE Quiet(c)
  BY <1>1, OwnerQuiet
<1>2. CASE Execute(c)
  BY <1>2, RunIs, OwnerExecute
<1>3. CASE Disconnect(c)
  <2>0. NoTrx \notin Trx
    BY SessionAssumption
  <2>1. sess'[c] = IdleSession /\ \A t, k : ~Sent(c, t, k)'
    BY <1>3, LostQueues
  <2>2. PICK p : p = sess'[c].owner /\ p = NoTrx
    BY <2>1 DEF IdleSession
  <2> QED BY <2>0, <2>1, <2>2 DEF OwnerIs
<1> QED BY <1>1, <1>2, <1>3 DEF Quiet

\* The writes of a session that are new are of the one that wrote.
LEMMA WritesAfter ==
  ASSUME IInv, SessionInv, CarefulInv, [Next]_vars, NEW c \in Conn,
         OwnerIs(c), Marks(c), NEW m, NEW ok, Runs(c, m, ok)
  PROVE  \A w \in sess'[c].writes \ sess[c].writes :
           /\ w = m.trx /\ m.kind = "query" /\ Underway(w)
           /\ sess[c].owner \in Line(w)
<1>0. m.trx \in Trx /\ NoTrx \notin Trx /\ NoTrx \notin Line(m.trx)
  BY SessionAssumption DEF Runs, Line, IInv, TypeOK
<1>1. ServerDoes(sess[c], sess'[c], m.kind, m.trx, ok)
  BY RunDoes
<1>2. CASE Writes(sess[c], sess'[c], m.kind, m.trx)
  <2>1. m.kind = "query" /\ sess[c].owner \in Line(m.trx) /\ Flies(m.trx, m.kind)
    BY <1>2 DEF Writes, Runs, Inner
  <2>2. Underway(m.trx)
    BY <1>0, <2>1 DEF Flies, CarefulInv, Flags
  <2> QED BY <1>0, <1>2, <2>1, <2>2 DEF Writes
<1>3. CASE GoesBack(sess[c], sess'[c], m.kind, m.trx)
  BY <1>3 DEF GoesBack, Marks, Separated, MarkSplits
<1> QED BY <1>1, <1>2, <1>3 DEF ServerDoes, Stalls, KeepsData, Clears, IdleSession, Opened, Sets,
             Unsets

LEMMA WritersStep ==
  ASSUME IInv, SessionInv, CarefulInv, Disciplined, [Next]_vars, NEW c \in Conn,
         OwnerIs(c), Writers(c), Marks(c)
  PROVE  Writers(c)'
<1>0. sess[c] \in SessionState /\ NoTrx \notin Trx
  BY SessionAssumption DEF IInv, TypeOK
<1>1. ASSUME NEW w \in Trx, Connected(w), conn[w] = c, Underway(w), sess[c].owner \in Line(w),
             sess'[c].owner = sess[c].owner
      PROVE  Connected(w)' /\ conn'[w] = c /\ Underway(w)' /\ sess'[c].owner \in Line(w)'
  BY <1>1, Stays
<1>2. CASE Quiet(c)
  <2>1. sess'[c] = sess[c]
    BY <1>2, QuietServer
  <2>2. PICK W : W = sess[c].writes /\ W = sess'[c].writes
    BY <2>1
  <2>3. ASSUME NEW w \in W
        PROVE  Connected(w)' /\ conn'[w] = c /\ Underway(w)' /\ sess'[c].owner \in Line(w)'
    BY <1>0, <1>1, <2>1, <2>2 DEF Writers, SessionState
  <2> QED BY <2>2, <2>3 DEF Writers
<1>3. CASE Execute(c)
  <2>1. PICK m \in Request, ok \in BOOLEAN : Runs(c, m, ok)
    BY <1>3, RunIs
  <2>2. PICK W : W = sess'[c].writes
    OBVIOUS
  <2>3. CASE sess'[c].owner = sess[c].owner
    <3>1. ASSUME NEW w \in W
          PROVE  /\ w \in Trx /\ Connected(w) /\ conn[w] = c /\ Underway(w)
                 /\ sess[c].owner \in Line(w)
      <4>1. CASE w \in sess[c].writes
        BY <1>0, <4>1 DEF Writers, SessionState
      <4>2. CASE w \notin sess[c].writes
        <5>1. w = m.trx /\ Underway(w) /\ sess[c].owner \in Line(w)
          BY <2>1, <2>2, <3>1, <4>2, WritesAfter
        <5> QED BY <2>1, <5>1 DEF Runs
      <4> QED BY <4>1, <4>2
    <3>2. ASSUME NEW w \in W
          PROVE  Connected(w)' /\ conn'[w] = c /\ Underway(w)' /\ sess'[c].owner \in Line(w)'
      BY <1>1, <2>3, <3>1, <3>2
    <3> QED BY <2>2, <3>2 DEF Writers
  <2>4. CASE sess'[c] = IdleSession
    <3>1. W = {}
      BY <2>2, <2>4 DEF IdleSession
    <3> QED BY <2>2, <3>1 DEF Writers
  <2>5. CASE m.kind = "begin" /\ sess[c].owner = NoTrx
    <3>1. sess[c].writes = {}
      BY <2>5 DEF OwnerIs, IdleSession
    <3>2. W = {}
      BY <2>1, <2>2, <2>5, <3>1, WritesAfter
    <3> QED BY <2>2, <3>2 DEF Writers
  <2> QED BY <2>1, <2>3, <2>4, <2>5, OwnerRuns
<1>4. CASE Disconnect(c)
  <2>1. PICK W : W = sess'[c].writes /\ W = {}
    BY <1>4, LostQueues DEF IdleSession
  <2> QED BY <2>1 DEF Writers
<1> QED BY <1>2, <1>3, <1>4 DEF Quiet

-----------------------------------------------------------------------------
(* What savepoints separate *)

\* A savepoint separates on, unless it matters and somebody else wrote.
LEMMA MarkKept ==
  ASSUME IInv, SessionInv, CarefulInv, Disciplined, [Next]_vars, NEW c \in Conn,
         Writers(c), NEW m, MarkSplits(c, m), m.before \subseteq sess'[c].writes,
         \A w \in sess'[c].writes \ sess[c].writes :
           w \in Trx /\ Connected(w) /\ (Live(c, m.sp)' => m.sp \in Line(w))
  PROVE  MarkSplits(c, m)'
<1>0. sess[c] \in SessionState
  BY DEF IInv, TypeOK
<1>1. PICK p, B, V, W : p = m.sp /\ B = m.before /\ V = sess[c].writes /\ W = sess'[c].writes
  OBVIOUS
<1>2. \A w \in V : w \in Trx /\ Connected(w)
  BY <1>0, <1>1 DEF Writers, SessionState
<1>3. /\ p \in Trx /\ Connected(p) /\ conn[p] = c /\ IsNested(p) /\ B \subseteq V
      /\ \A w \in B : p \notin Line(w)
      /\ ~Sent(c, p, "savepoint")
  BY <1>1 DEF MarkSplits
<1>4. Connected(p)' /\ conn'[p] = c /\ IsNested(p)'
  BY <1>3, Stays
<1>5. ~Sent(c, p, "savepoint")'
  <2>1. "savepoint" \in Kinds
    BY DEF Kinds
  <2>2. ~\E a \in Args : Posts(c, p, "savepoint", a)
    BY <1>3, SendsHow DEF Posts
  <2> QED BY <1>3, <2>1, <2>2, SentBefore
<1>6. \A w \in B : p \notin Line(w)'
  BY <1>2, <1>3, Stays
<1>7. ASSUME Live(c, p)'
      PROVE  \A w \in W \ B : p \in Line(w)'
  <2>1. Live(c, p)
    BY <1>3, <1>7, LiveBefore
  <2>2. \A w \in W \ B : w \in Trx /\ Connected(w) /\ p \in Line(w)
    BY <1>1, <1>2, <1>7, <2>1 DEF MarkSplits
  <2> QED BY <2>2, Stays
<1>8. B \subseteq W
  BY <1>1
<1> QED BY <1>1, <1>3, <1>4, <1>5, <1>6, <1>7, <1>8 DEF MarkSplits

LEMMA PairKept ==
  ASSUME IInv, SessionInv, CarefulInv, Disciplined, [Next]_vars, NEW c \in Conn,
         NEW m, NEW n, MarkSplits(c, m), MarkSplits(c, n), Earlier(c, m, n)
  PROVE  Earlier(c, m, n)'
<1>1. PICK p, r : p = m.sp /\ r = n.sp
  OBVIOUS
<1>2. p \in Trx /\ r \in Trx /\ Connected(p) /\ Connected(r)
  BY <1>1 DEF MarkSplits
<1>3. Live(c, p)' /\ Live(c, r)' => p \in anc[r]
  BY <1>1, <1>2, LiveBefore DEF Earlier
<1>4. anc'[r] = anc[r]
  BY <1>2, Stays
<1>5. m.before \subseteq n.before
  BY DEF Earlier
<1> QED BY <1>1, <1>3, <1>4, <1>5 DEF Earlier

\* Whose savepoint matters after an unsettled transaction's statement was run
\* is unsettled; the two are nested in each other, the sender inside.
LEMMA LiveAround ==
  ASSUME IInv, SessionInv, CarefulInv, Disciplined, [Next]_vars, NEW c \in Conn,
         NEW m, NEW ok, Runs(c, m, ok), Running(m.trx),
         NEW p \in Trx, Connected(p), conn[p] = c, Live(c, p)'
  PROVE  p \in Line(m.trx)
<1>1. m.trx \in Trx /\ conn[m.trx] = c /\ m.kind \in Kinds /\ Sent(c, m.trx, m.kind)
  BY DEF Runs
<1>2. chan'[c] = <<>>
  BY DEF Runs
<1>3. ~completed[p]
  <2>1. \A k : ~Sent(c, p, k)'
    BY <1>2, ListsEmpty DEF Sent
  <2>2. ~completed'[p]
    BY <2>1 DEF Live
  <2> QED BY <2>2, Stays
<1>4. Running(p)
  BY <1>3, Uncompleted
<1>5. m.trx \in Line(p) \/ p \in Line(m.trx)
  BY <1>1, <1>4 DEF CarefulInv, OneLine
<1>6. m.trx \notin anc[p]
  <2>1. Alive(p)
    BY <1>4 DEF Alive, Running
  <2>2. Carries(c, m.trx, m.kind)
    BY <1>1 DEF Carries, Sent
  <2> QED BY <1>1, <2>1, <2>2, Around
<1> QED BY <1>5, <1>6 DEF Line

LEMMA SeparatedKept ==
  ASSUME IInv, SessionInv, CarefulInv, Disciplined, [Next]_vars, NEW c \in Conn,
         Writers(c), NEW q, Separated(c, q),
         \A i \in DOMAIN q : q[i].before \subseteq sess'[c].writes,
         \A i \in DOMAIN q : \A w \in sess'[c].writes \ sess[c].writes :
           w \in Trx /\ Connected(w) /\ (Live(c, q[i].sp)' => q[i].sp \in Line(w))
  PROVE  Separated(c, q)'
<1>1. ASSUME NEW i \in DOMAIN q
      PROVE  MarkSplits(c, q[i])'
  <2>1. PICK m : m = q[i]
    OBVIOUS
  <2>2. MarkSplits(c, m) /\ m.before \subseteq sess'[c].writes
    BY <2>1 DEF Separated
  <2>3. \A w \in sess'[c].writes \ sess[c].writes :
          w \in Trx /\ Connected(w) /\ (Live(c, m.sp)' => m.sp \in Line(w))
    BY <2>1
  <2>4. MarkSplits(c, m)'
    BY <2>2, <2>3, MarkKept
  <2> QED BY <2>1, <2>4
<1>2. ASSUME NEW i \in DOMAIN q, NEW j \in DOMAIN q, i < j
      PROVE  Earlier(c, q[i], q[j])'
  <2>1. PICK m, n : m = q[i] /\ n = q[j]
    OBVIOUS
  <2>2. MarkSplits(c, m) /\ MarkSplits(c, n) /\ Earlier(c, m, n)
    BY <1>2, <2>1 DEF Separated
  <2>3. Earlier(c, m, n)'
    BY <2>2, PairKept
  <2> QED BY <2>1, <2>3
<1> QED BY <1>1, <1>2 DEF Separated

LEMMA SeparatedFirst ==
  ASSUME NEW c, NEW S, NEW q \in Seq(S), Separated(c, q), NEW n \in Nat, n <= Len(q)
  PROVE  Separated(c, SubSeq(q, 1, n))
<1>1. /\ DOMAIN SubSeq(q, 1, n) = 1 .. n
      /\ \A i \in 1 .. n : i \in DOMAIN q /\ SubSeq(q, 1, n)[i] = q[i]
  BY FirstOnes
<1> QED BY <1>1 DEF Separated

\* A savepoint that is set separates what was written before from the rest, and
\* is nested in those that matter.
LEMMA MarkSet ==
  ASSUME IInv, SessionInv, CarefulInv, Disciplined, [Next]_vars, NEW c \in Conn,
         OwnerIs(c), Writers(c), Marks(c), NEW m, NEW ok, Runs(c, m, ok),
         m.kind = "savepoint", sess'[c].writes = sess[c].writes,
         NEW n \in Mark, n.sp = m.trx, n.before = sess[c].writes,
         NEW q, q = sess[c].marks
  PROVE  /\ MarkSplits(c, n)'
         /\ \A i \in DOMAIN q : Earlier(c, q[i], n)'
<1>0. /\ m.trx \in Trx /\ Connected(m.trx) /\ conn[m.trx] = c /\ Sent(c, m.trx, "savepoint")
      /\ Flies(m.trx, "savepoint") /\ Sender(m)
  BY DEF Runs
<1>1. PICK p, W : p = m.trx /\ W = sess[c].writes /\ W = sess'[c].writes
  OBVIOUS
<1>2. /\ Running(p) /\ ~Underway(p) /\ IsNested(p)
  BY <1>0, <1>1 DEF Flies, Underway, Sender, Inner
<1>3. \A w \in W : w \in Trx /\ Connected(w) /\ Underway(w)
  BY <1>1 DEF Writers, IInv, TypeOK, SessionState
<1>4. \A w \in W : p \notin Line(w)
  BY <1>2, <1>3 DEF SessionInv, AroundUnderway, Line
<1>5. ~Sent(c, p, "savepoint")'
  <2>1. "savepoint" \in Kinds
    BY DEF Kinds
  <2> QED BY <1>0, <1>1, <2>1 DEF Runs, Line
<1>6. MarkSplits(c, n)'
  <2>1. Connected(p)' /\ conn'[p] = c /\ IsNested(p)'
    BY <1>0, <1>1, <1>2, Stays
  <2>2. \A w \in W : p \notin Line(w)'
    BY <1>3, <1>4, Stays
  <2>3. PICK r, B : r = n.sp /\ B = n.before /\ r = p /\ B = W
    BY <1>1
  <2> QED BY <1>0, <1>1, <1>5, <2>1, <2>2, <2>3 DEF MarkSplits
<1>7. ASSUME NEW i \in DOMAIN q
      PROVE  Earlier(c, q[i], n)'
  <2>1. PICK l : l = q[i]
    OBVIOUS
  <2>2. PICK r : r = l.sp
    OBVIOUS
  <2>3. MarkSplits(c, l)
    BY <2>1 DEF Marks, Separated
  <2>4. r \in Trx /\ Connected(r) /\ conn[r] = c /\ r # p
    BY <1>0, <1>1, <2>2, <2>3 DEF MarkSplits
  <2>5. Live(c, r)' => r \in anc[p]
    BY <1>1, <1>2, <2>4, LiveAround DEF Line
  <2>6. anc'[p] = anc[p]
    BY <1>0, <1>1, Stays
  <2>7. l.before \subseteq n.before
    BY <2>3 DEF MarkSplits
  <2>8. Earlier(c, l, n)'
    BY <1>1, <2>2, <2>5, <2>6, <2>7 DEF Earlier
  <2> QED BY <2>1, <2>8
<1> QED BY <1>6, <1>7

LEMMA MarksExecute ==
  ASSUME IInv, SessionInv, CarefulInv, Disciplined, [Next]_vars, NEW c \in Conn,
         OwnerIs(c), Writers(c), Marks(c), NEW m, NEW ok, Runs(c, m, ok)
  PROVE  Marks(c)'
<1>0. /\ sess[c] \in SessionState /\ sess'[c] \in SessionState /\ m.trx \in Trx
      /\ Connected(m.trx)
  BY InvariantStep DEF IInv, TypeOK, Runs
<1>1. PICK q \in Seq(Mark) : q = sess[c].marks
  BY <1>0 DEF SessionState
<1>2. PICK r \in Seq(Mark) : r = sess'[c].marks
  BY <1>0 DEF SessionState
<1>3. PICK V, W : V = sess[c].writes /\ W = sess'[c].writes
  OBVIOUS
<1>4. /\ Separated(c, q)
      /\ \A i \in DOMAIN q : MarkSplits(c, q[i]) /\ q[i].before \subseteq V
  BY <1>1, <1>3 DEF Marks, Separated, MarkSplits
<1>5. ServerDoes(sess[c], sess'[c], m.kind, m.trx, ok)
  BY RunDoes
<1> SUFFICES Separated(c, r)'
  BY <1>2 DEF Marks
<1>6. CASE W = V /\ r = q
  <2>1. Separated(c, q)'
    BY <1>3, <1>4, <1>6, SeparatedKept
  <2> QED BY <1>6, <2>1
<1>7. CASE Clears(sess[c], sess'[c], m.kind, ok)
  <2>1. r = <<>>
    BY <1>2, <1>7 DEF Clears, IdleSession
  <2> QED BY <2>1 DEF Separated
<1>8. CASE Sets(sess[c], sess'[c], m.kind, m.trx)
  <2>1. PICK n \in Mark : n = [sp |-> m.trx, before |-> V] /\ n.sp = m.trx /\ n.before = V
    <3>1. V \in SUBSET Trx
      BY <1>0, <1>3 DEF SessionState
    <3>2. [sp |-> m.trx, before |-> V] \in Mark
      BY <1>0, <3>1 DEF Mark
    <3> QED BY <3>2
  <2>2. W = V /\ r = Append(q, n) /\ m.kind = "savepoint"
    BY <1>1, <1>2, <1>3, <1>8, <2>1 DEF Sets
  <2>3. Separated(c, q)'
    BY <1>3, <1>4, <2>2, SeparatedKept
  <2>4. MarkSplits(c, n)' /\ \A i \in DOMAIN q : Earlier(c, q[i], n)'
    BY <1>1, <1>3, <2>1, <2>2, MarkSet
  <2>5. ASSUME NEW i \in DOMAIN q
        PROVE  MarkSplits(c, q[i])' /\ Earlier(c, q[i], n)'
    BY <2>3, <2>4 DEF Separated
  <2>6. /\ DOMAIN q = 1 .. Len(q) /\ Len(q) \in Nat /\ DOMAIN r = 1 .. Len(q) + 1
        /\ \A i \in 1 .. Len(q) : r[i] = q[i]
        /\ r[Len(q) + 1] = n
    BY <2>2, AppendAt
  <2>7. \A i \in DOMAIN r : MarkSplits(c, r[i])'
    BY <2>4, <2>5, <2>6
  <2>8. \A i, j \in DOMAIN r : i < j => Earlier(c, r[i], r[j])'
    <3>1. \A i, j \in DOMAIN q : i < j => Earlier(c, q[i], q[j])'
      BY <2>3 DEF Separated
    <3> QED BY <2>5, <2>6, <3>1
  <2> QED BY <2>7, <2>8 DEF Separated
<1>9. CASE Writes(sess[c], sess'[c], m.kind, m.trx)
  <2>1. m.kind = "query" /\ r = q /\ Running(m.trx)
    BY <1>1, <1>2, <1>9 DEF Writes, Runs, Flies
  <2>2. V \subseteq W
    <3>1. sess[c].owner \in Line(m.trx)
      BY <2>1 DEF Runs, Inner
    <3>2. sess[c].owner # NoTrx
      BY <1>0, <3>1, SessionAssumption DEF Line, IInv, TypeOK
    <3> QED BY <1>3, <1>9, <3>2 DEF Writes
  <2>3. \A w \in W \ V : w = m.trx
    BY <1>3, WritesAfter
  <2>4. ASSUME NEW i \in DOMAIN q
        PROVE  Live(c, q[i].sp)' => q[i].sp \in Line(m.trx)
    <3>1. PICK p : p = q[i].sp /\ p \in Trx /\ Connected(p) /\ conn[p] = c
      BY <1>4 DEF MarkSplits
    <3>2. Live(c, p)' => p \in Line(m.trx)
      BY <2>1, <3>1, LiveAround
    <3> QED BY <3>1, <3>2
  <2>5. Separated(c, q)'
    BY <1>0, <1>3, <1>4, <2>2, <2>3, <2>4, SeparatedKept
  <2> QED BY <2>1, <2>5
<1>10. CASE Unsets(sess[c], sess'[c], m.kind, m.trx)
  <2>1. PICK n \in DOMAIN q : r = SubSeq(q, 1, n - 1) /\ W = V
    BY <1>1, <1>2, <1>3, <1>10 DEF Unsets
  <2>2. n - 1 \in Nat /\ n - 1 <= Len(q)
    OBVIOUS
  <2>3. /\ DOMAIN r = 1 .. n - 1
        /\ \A i \in 1 .. n - 1 : i \in DOMAIN q /\ r[i] = q[i]
    BY <2>1, <2>2, FirstOnes
  <2>4. Separated(c, r)
    BY <1>4, <2>1, <2>2, SeparatedFirst
  <2>5. \A i \in DOMAIN r : r[i].before \subseteq W
    BY <1>4, <2>1, <2>3
  <2> QED BY <1>3, <2>1, <2>4, <2>5, SeparatedKept
<1>11. CASE GoesBack(sess[c], sess'[c], m.kind, m.trx)
  <2>1. PICK n \in DOMAIN q : r = SubSeq(q, 1, n) /\ W = q[n].before
    BY <1>1, <1>2, <1>3, <1>11 DEF GoesBack
  <2>2. n \in Nat /\ n <= Len(q)
    OBVIOUS
  <2>3. /\ DOMAIN r = 1 .. n
        /\ \A i \in 1 .. n : i \in DOMAIN q /\ r[i] = q[i]
    BY <2>1, <2>2, FirstOnes
  <2>4. Separated(c, r)
    BY <1>4, <2>1, <2>2, SeparatedFirst
  <2>5. ASSUME NEW i \in DOMAIN r
        PROVE  r[i].before \subseteq W
    <3>1. i = n \/ i < n
      BY <2>2, <2>3
    <3>2. CASE i < n
      <4>1. Earlier(c, q[i], q[n])
        BY <1>4, <2>3, <3>2 DEF Separated
      <4> QED BY <2>1, <2>3, <4>1 DEF Earlier
    <3> QED BY <2>1, <2>3, <3>1, <3>2
  <2>6. W \subseteq V
    BY <1>4, <2>1
  <2> QED BY <1>3, <2>4, <2>5, <2>6, SeparatedKept
<1>12. Stalls(sess[c], sess'[c], m.kind, m.trx, ok) \/ Opened(sess[c], sess'[c], m.kind, m.trx)
       => W = V /\ r = q
  BY <1>1, <1>2, <1>3 DEF Stalls, KeepsData, Opened
<1> QED BY <1>5, <1>6, <1>7, <1>8, <1>9, <1>10, <1>11, <1>12 DEF ServerDoes

LEMMA MarksStep ==
  ASSUME IInv, SessionInv, CarefulInv, Disciplined, [Next]_vars, NEW c \in Conn,
         OwnerIs(c), Writers(c), Marks(c)
  PROVE  Marks(c)'
<1>1. CASE Quiet(c)
  <2>1. PICK q, W : /\ q = sess[c].marks /\ q = sess'[c].marks
                    /\ W = sess[c].writes /\ W = sess'[c].writes
    BY <1>1, QuietServer
  <2>2. Separated(c, q) /\ \A i \in DOMAIN q : q[i].before \subseteq W
    BY <2>1 DEF Marks, Separated, MarkSplits
  <2>3. Separated(c, q)'
    BY <2>1, <2>2, SeparatedKept
  <2> QED BY <2>1, <2>3 DEF Marks
<1>2. CASE Execute(c)
  BY <1>2, RunIs, MarksExecute
<1>3. CASE Disconnect(c)
  <2>1. PICK q : q = sess'[c].marks /\ q = <<>>
    BY <1>3, LostQueues DEF IdleSession
  <2> QED BY <2>1 DEF Marks, Separated
<1> QED BY <1>1, <1>2, <1>3 DEF Quiet

LEMMA ServerInvStep ==
  ASSUME IInv, SessionInv, CarefulInv, Disciplined, [Next]_vars, ServerInv
  PROVE  ServerInv'
BY OwnerIsStep, WritersStep, MarksStep DEF ServerInv

LEMMA InitServer == Init => ServerInv
<1> SUFFICES ASSUME Init, NEW c \in Conn PROVE OwnerIs(c) /\ Writers(c) /\ Marks(c)
  BY DEF ServerInv
<1>0. NoTrx \notin Trx
  BY SessionAssumption
<1>1. sess[c] = IdleSession /\ chan[c] = <<>> /\ reply[c] = <<>>
  BY DEF Init
<1>2. OwnerIs(c)
  <2>1. \A t, k : ~Sent(c, t, k) /\ ~Granted(c, t, k) /\ ~Denied(c, t, k)
    BY <1>1, ListsEmpty DEF Sent, Granted, Denied
  <2>2. sess[c].owner = NoTrx
    BY <1>1 DEF IdleSession
  <2> QED BY <1>0, <1>1, <2>1, <2>2 DEF OwnerIs
<1>3. sess[c].writes = {} /\ sess[c].marks = <<>>
  BY <1>1 DEF IdleSession
<1> QED BY <1>2, <1>3 DEF Writers, Marks, Separated

\* What the sessions of careful callers hold: whose writes, and which savepoint
\* separates which.
THEOREM ServerInductive ==
  ASSUME Disciplined
  PROVE  Spec => []ServerInv
<1>1. Init => ServerInv
  BY InitServer
<1>2. IInv /\ SessionInv /\ CarefulInv /\ ServerInv /\ [Next]_vars => ServerInv'
  BY ServerInvStep
<1> QED BY CarefulInductive, <1>1, <1>2, PTL DEF Spec

\* When the server rolls back to a savepoint it undoes writes of the
\* transaction that set it and of those nested in it, and no others.
THEOREM RollbackStaysLocal ==
  ASSUME Disciplined
  PROVE  Spec => RollbackIsLocal
<1>1. ASSUME IInv, SessionInv, CarefulInv, ServerInv, [Next]_vars, NEW c \in Conn,
             c \notin dead', chan[c] # <<>>, chan'[c] = Tail(chan[c]), Head(chan[c]).kind = "rollbackTo",
             NEW w \in sess[c].writes \ sess'[c].writes
      PROVE  Head(chan[c]).trx \in Line(w)
  <2>0. chan[c] \in Seq(Request)
    BY <1>1 DEF IInv, TypeOK
  <2>1. Execute(c)
    <3>1. ~Disconnect(c)
      BY <1>1, LostQueues
    <3>2. PICK q, r : /\ q = chan[c] /\ r = chan'[c] /\ r = Tail(q)
                      /\ q \in Seq(Request) /\ q # <<>>
      BY <1>1, <2>0
    <3>3. Len(r) = Len(q) - 1 /\ Len(q) \in Nat
      BY <3>2, TailAt
    <3>4. ASSUME NEW m \in Request, r = Append(q, m)
          PROVE  FALSE
      <4>1. Len(r) = Len(q) + 1
        BY <3>2, <3>4, AppendAt
      <4> QED BY <3>3, <4>1
    <3>5. r # q
      BY <3>3
    <3> QED BY <1>1, <3>1, <3>2, <3>4, <3>5, QueueGrows
  <2>2. PICK m \in Request, ok \in BOOLEAN : Runs(c, m, ok)
    BY <1>1, <2>1, RunIs
  <2>3. m = Head(chan[c]) /\ m.kind = "rollbackTo" /\ Sent(c, m.trx, "rollbackTo")
    BY <1>1, <2>2 DEF Runs
  <2>4. ServerDoes(sess[c], sess'[c], m.kind, m.trx, ok)
    BY <1>1, <2>2, RunDoes
  <2>5. GoesBack(sess[c], sess'[c], m.kind, m.trx)
    BY <1>1, <2>3, <2>4 DEF ServerDoes, Stalls, KeepsData, Clears, Ending, Opened, Sets, Writes,
       Unsets
  <2>6. PICK n \in DOMAIN sess[c].marks :
          sess[c].marks[n].sp = m.trx /\ sess'[c].writes = sess[c].marks[n].before
    BY <2>5 DEF GoesBack
  <2>7. MarkSplits(c, sess[c].marks[n])
    BY <1>1 DEF ServerInv, Marks, Separated
  <2> QED BY <1>1, <2>3, <2>6, <2>7 DEF MarkSplits, Live
<1>2. ASSUME IInv, SessionInv, CarefulInv, ServerInv, [Next]_vars
      PROVE  \A c \in Conn \ dead' :
               chan[c] # <<>> /\ chan'[c] = Tail(chan[c]) /\ Head(chan[c]).kind = "rollbackTo"
               => \A w \in sess[c].writes \ sess'[c].writes : Head(chan[c]).trx \in Line(w)
  BY <1>1, <1>2
<1>3. IInv /\ SessionInv /\ CarefulInv /\ ServerInv /\ [Next]_vars =>
        [\A c \in Conn \ dead' :
           chan[c] # <<>> /\ chan'[c] = Tail(chan[c]) /\ Head(chan[c]).kind = "rollbackTo"
           => \A w \in sess[c].writes \ sess'[c].writes : Head(chan[c]).trx \in Line(w)]_vars
  BY <1>2
<1> QED BY CarefulInductive, ServerInductive, <1>3, PTL DEF Spec, RollbackIsLocal

-----------------------------------------------------------------------------
(* The inductive invariant: what is kept and what is lost *)

\* The transaction t did not, or will not, resolve by commit.
Failing(c, t) ==
  \/ exec[t] \in Unkept \/ timer[t] # "off"
  \/ Denied(c, t, "commit") \/ Denied(c, t, "release")

\* Its write failed, was acknowledged, as the answer says that is on its way.
Spoilt(c, t) == wrote[t] = "failed" \/ Denied(c, t, "query")
Acked(c, t)  == wrote[t] = "ok" \/ Granted(c, t, "query")

\* The commit of t succeeded.
Confirmed(c, t) == exec[t] = "committed" \/ Granted(c, t, "commit")

\* The transaction t has, or will come back to, its savepoint.
Needs(c, t) ==
  /\ IsNested(t)
  /\ \/ Running(t) /\ ~completed[t] /\ (Underway(t) \/ Granted(c, t, "savepoint"))
     \/ Sent(c, t, "release") \/ Sent(c, t, "rollbackTo")

\* Who needs a savepoint finds it.
HasNeeded(c) ==
  c \notin dead =>
    \A t \in Trx : Connected(t) /\ conn[t] = c /\ Needs(c, t) => HasMark(sess[c], t)

\* What was written inside a nested transaction that does not commit is undone
\* before the top-level transaction ends.
FailedGoes(c) ==
  sess[c].owner # NoTrx /\ Running(sess[c].owner) =>
    \A w \in sess[c].writes : \A a \in Line(w) :
      IsNested(a) /\ Failing(c, a) => Sent(c, a, "rollbackTo")

\* An aborted session that may still commit has somebody who rolls back.
AbortedGoes(c) ==
  LET r == sess[c].owner IN
  sess[c].aborted /\ r # NoTrx /\ Running(r) /\ (~completed[r] \/ Sent(c, r, "commit")) =>
    \E u \in Trx : Connected(u) /\ r \in Line(u) /\ Spoilt(c, u) /\ Live(c, u)

\* What was acknowledged, and nobody around gave up, is in the session until the
\* top-level transaction commits, and durable from then on.
AckedKept(c) ==
  \A t \in Trx :
    Connected(t) /\ conn[t] = c /\ Acked(c, t) /\ (\A a \in Line(t) : ~Failing(c, a)) =>
      \A r \in Line(t) : ~IsNested(r) =>
        /\ Confirmed(c, r) => t \in durable
        /\ ~Confirmed(c, r) /\ c \notin dead => t \in sess[c].writes

\* The transaction a committed; if it is a top-level one, it may not know yet, or
\* never because its answer got lost.
Commits(a) ==
  \/ exec[a] = "committed"
  \/ ~IsNested(a) /\ (faults # 0 \/ (Running(a) /\ Granted(conn[a], a, "commit")))

\* The line of what is durable was committed.
Permanent == \A w \in durable : Connected(w) /\ \A a \in Line(w) : Commits(a)

DurableInv ==
  Permanent /\ \A c \in Conn : HasNeeded(c) /\ FailedGoes(c) /\ AbortedGoes(c) /\ AckedKept(c)

-----------------------------------------------------------------------------
(* How a connected transaction changes *)

Same(t) ==
  /\ exec'[t] = exec[t] /\ completed'[t] = completed[t] /\ timer'[t] = timer[t]
  /\ wrote'[t] = wrote[t] /\ (Underway(t)' <=> Underway(t))

Alters(t) ==
  \/ Same(t) \/ Fails(t) \/ TimesOut(t)
  \/ Asks(t) /\ \E a \in Args : Posts(conn[t], t, "query", a)
  \/ \E k \in Finals, a \in Args : Finishes(t, k, a) /\ Posts(conn[t], t, k, a)
  \/ \E m \in Answer : m.trx = t /\ Only(t) /\ Gets(conn[t], m)

LEMMA AltersHow ==
  ASSUME IInv, SessionInv, CarefulInv, Disciplined, [Next]_vars, NEW t \in Trx, Connected(t)
  PROVE  Alters(t)
<1>0. LifeCycle /\ Flags /\ SettledIsCompleted /\ t \in Line(t)
  BY DEF IInv, CarefulInv, Line
<1>1. CASE Untouched(t)
  BY <1>1 DEF Untouched, Alters, Same, Underway
<1>2. CASE Only(t) /\ Says(t)
  <2>0. life[t] # "none" /\ life[t] # "queued"
    BY DEF Connected
  <2>1. ~Born(t) /\ ~Aborts(t) /\ ~Refused(t) /\ ~Starts(t)
    BY <2>0 DEF Born, Aborts, Refused, Starts
  <2>2. CASE Invokes(t)
    BY <2>2 DEF Invokes, Alters, Same, Underway
  <2>3. CASE Lags(t)
    <3>1. ~Running(t)
      <4>1. Running(t) /\ ~completed[t] => ~IsCompleted(t)
        <5>1. Running(t) => Alive(t)
          BY DEF Running, Alive
        <5>2. Alive(t) => \A a \in anc[t] : ~completed[a]
          BY Around
        <5> QED BY <5>1, <5>2 DEF IsCompleted, Line
      <4> QED BY <1>0, <2>3, <4>1, NotEnded DEF Lags
    <3>2. exec[t] # "pending"
      BY <1>0, <3>1 DEF LifeCycle, Running, Connected
    <3>3. completed[t] /\ completed'[t]
      BY <1>0, <2>3, <3>2 DEF SettledIsCompleted, Lags
    <3>4. completed'[t] = completed[t]
      BY <3>3, InvariantStep DEF IInv, TypeOK
    <3> QED BY <2>3, <3>2, <3>4 DEF Lags, Ends, Settles, Alters, Same, Underway
  <2>4. CASE Fails(t) \/ TimesOut(t)
    BY <2>4 DEF Alters
  <2>5. CASE Closes(t)
    BY <2>5 DEF Closes, Alters, Same, Underway
  <2>6. CASE Asks(t)
    <3>1. "undefined" \in Args
      BY DEF Args
    <3>2. Posts(conn[t], t, "query", "undefined")
      BY <1>2, <2>6 DEF Asks, Sends, Posts, Transacts
    <3> QED BY <2>6, <3>1, <3>2 DEF Alters
  <2>7. ASSUME NEW k \in Finals, NEW a \in Args, Finishes(t, k, a)
        PROVE  Alters(t)
    <3>1. Posts(conn[t], t, k, a)
      BY <1>2, <2>7 DEF Finishes, Sends, Posts, Transacts
    <3> QED BY <2>7, <3>1 DEF Alters
  <2> QED BY <1>2, <2>1, <2>2, <2>3, <2>4, <2>5, <2>6, <2>7 DEF Says, Meanwhile
<1>3. ASSUME NEW c \in Conn, NEW m \in Answer, t = m.trx, Only(t), Gets(c, m)
      PROVE  Alters(t)
  <2>1. c = conn[t]
    BY <1>3 DEF Gets, HearsInitFailed, HearsIsolation, HearsBegun, HearsFinished, HearsQueried, Hears
  <2> QED BY <1>3, <2>1 DEF Alters
<1> QED BY <1>1, <1>2, <1>3, StepIs DEF Outside, Only, CarefulInv

\* A transaction shares the connection of those around it.
LEMMA LineShares ==
  ASSUME IInv, CarefulInv, NEW t \in Trx, Connected(t), NEW a \in Line(t)
  PROVE  /\ a \in Trx /\ Connected(a) /\ conn[a] = conn[t]
         /\ \A r \in Line(t) : ~IsNested(r) => r \in Line(a)
<1>1. Line(t) \subseteq Trx
  BY DEF IInv, TypeOK, Line
<1>2. Connected(a) /\ Line(a) \subseteq Line(t)
  BY DEF CarefulInv, Tree, Line
<1>3. PICK r \in Line(t) : ~IsNested(r) /\ conn[t] = conn[r]
  BY DEF IInv, Rooted, IsRoot, IsNested, Connected
<1>4. PICK q \in Line(a) : ~IsNested(q) /\ conn[a] = conn[q]
  BY <1>1, <1>2 DEF IInv, Rooted, IsRoot, IsNested, Connected
<1>5. \A p \in Line(t) : ~IsNested(p) => p = q
  BY <1>1, <1>2, <1>4 DEF CarefulInv, Tree
<1> QED BY <1>1, <1>2, <1>3, <1>4, <1>5

\* Who is unsettled and not completed is not failing.
LEMMA NotFailing ==
  ASSUME IInv, SessionInv, CarefulInv, NEW c \in Conn, NEW t \in Trx, Connected(t), ~completed[t]
  PROVE  ~Failing(c, t)
<1>1. Running(t)
  BY Uncompleted
<1>2. timer[t] = "off" /\ exec[t] \notin Unkept
  BY <1>1 DEF IInv, LifeCycle, Running, Unkept
<1>3. \A k \in {"commit", "release"} : ~Denied(c, t, k)
  BY OnItsWay DEF Flies, Kinds
<1> QED BY <1>2, <1>3 DEF Failing

\* Nor is, or was its write refused, who is around an unsettled one.
LEMMA AroundSound ==
  ASSUME IInv, SessionInv, CarefulInv, NEW c \in Conn, NEW t \in Trx, Running(t), NEW a \in anc[t]
  PROVE  /\ a \in Trx /\ Running(a) /\ ~completed[a] /\ ~Failing(c, a) /\ ~Spoilt(c, a)
         /\ ~Granted(c, a, "commit") /\ exec[a] = "pending"
<1>1. Alive(t)
  BY DEF Alive, Running
<1>2. /\ a \in Trx /\ Running(a) /\ ~completed[a] /\ wrote[a] \in {"no", "ok"}
      /\ \A k \in Kinds : ~Carries(c, a, k)
  BY <1>1, Around
<1>3. ~Failing(c, a)
  BY <1>2, NotFailing DEF Running, Connected
<1>4. ~Denied(c, a, "query") /\ ~Granted(c, a, "commit")
  BY <1>2 DEF Denied, Granted, Tells, Carries, Lists, Kinds
<1> QED BY <1>2, <1>3, <1>4 DEF Spoilt, Running

\* Promises that settled and writes that were answered stay so.
LEMMA SettledStays ==
  ASSUME IInv, SessionInv, CarefulInv, Disciplined, [Next]_vars, NEW t \in Trx, Connected(t)
  PROVE  /\ exec[t] # "pending" => exec'[t] = exec[t]
         /\ wrote[t] \in {"ok", "failed"} => wrote'[t] = wrote[t]
         /\ timer[t] # "off" => timer'[t] # "off" \/ exec'[t] \in Unkept
<1>0. Alters(t)
  BY AltersHow
<1>1. timer[t] # "off" => exec[t] = "pending" /\ completed[t]
  BY DEF CarefulInv, Flags, IInv, LifeCycle
<1>2. CASE Same(t)
  BY <1>2 DEF Same
<1>3. CASE Fails(t)
  BY <1>3 DEF Fails
<1>4. CASE TimesOut(t)
  BY <1>1, <1>4 DEF TimesOut, Settles, Unkept
<1>5. CASE Asks(t)
  BY <1>5 DEF Asks
<1>6. ASSUME NEW k \in Finals, NEW a \in Args, Finishes(t, k, a)
      PROVE  /\ exec'[t] = exec[t] /\ wrote'[t] = wrote[t]
             /\ timer[t] # "off" => timer'[t] # "off"
  BY <1>6 DEF Finishes, Args
<1>7. ASSUME NEW m \in Answer, m.trx = t, Gets(conn[t], m)
      PROVE  /\ exec[t] # "pending" => exec'[t] = exec[t]
             /\ wrote[t] \in {"ok", "failed"} => wrote'[t] = wrote[t]
             /\ timer[t] # "off" => timer'[t] # "off" \/ exec'[t] \in Unkept
  <2>1. Flies(t, m.kind) /\ m.kind \in Kinds
    <3>1. Hears(conn[t], m)
      BY <1>7 DEF Gets, HearsInitFailed, HearsIsolation, HearsBegun, HearsFinished, HearsQueried
    <3> QED BY <1>7, <3>1, Heard
  <2>2. CASE HearsInitFailed(conn[t], m)
    BY <1>7, <2>2 DEF HearsInitFailed, Settles
  <2>3. CASE HearsIsolation(conn[t], m) \/ HearsBegun(conn[t], m)
    BY <1>7, <2>3 DEF HearsIsolation, HearsBegun
  <2>4. CASE HearsFinished(conn[t], m)
    <3>1. m.kind \in {"rollback", "rollbackTo"} => Outcome(m) \in Unkept
      BY DEF Outcome, Unkept
    <3>2. timer[t] # "off" => m.kind \in {"rollback", "rollbackTo"}
      BY <2>1, <2>4 DEF HearsFinished, Finals, Flies
    <3> QED BY <1>1, <1>7, <2>4, <3>1, <3>2 DEF HearsFinished, Settles
  <2>5. CASE HearsQueried(conn[t], m)
    BY <1>7, <2>1, <2>5 DEF HearsQueried, Flies
  <2> QED BY <1>7, <2>2, <2>3, <2>4, <2>5 DEF Gets
<1> QED BY <1>0, <1>2, <1>3, <1>4, <1>5, <1>6, <1>7 DEF Alters

\* How an answer settles the transaction it is for.
LEMMA AnswerSettles ==
  ASSUME IInv, SessionInv, CarefulInv, NEW t \in Trx, NEW c, NEW m \in Answer, m.trx = t, Gets(c, m)
  PROVE  /\ m.kind = "query" => wrote'[t] = IF m.ok THEN "ok" ELSE "failed"
         /\ m.kind \in {"commit", "release"} =>
              exec[t] = "pending" /\ exec'[t] = IF m.ok THEN "committed" ELSE "rejected"
<1>1. Hears(c, m)
  BY DEF Gets, HearsInitFailed, HearsIsolation, HearsBegun, HearsFinished, HearsQueried
<1>2. Flies(t, m.kind) /\ m.kind \in Kinds
  BY <1>1, Heard
<1>3. ASSUME m.kind = "query"
      PROVE  HearsQueried(c, m)
  BY <1>3 DEF Gets, HearsInitFailed, HearsIsolation, HearsBegun, HearsFinished, Finals
<1>4. ASSUME m.kind \in {"commit", "release"}
      PROVE  HearsFinished(c, m) /\ exec[t] = "pending"
  BY <1>2, <1>4 DEF Gets, HearsInitFailed, HearsIsolation, HearsBegun, HearsQueried, Flies, Running
<1> QED BY <1>3, <1>4 DEF HearsQueried, HearsFinished, Settles, Outcome

\* Who fails goes on failing.
LEMMA FailingKept ==
  ASSUME IInv, SessionInv, CarefulInv, Disciplined, [Next]_vars, NEW c \in Conn,
         NEW t \in Trx, Connected(t), Failing(c, t)
  PROVE  Failing(c, t)'
<1>0. {"commit", "release"} \subseteq Kinds
  BY DEF Kinds
<1>1. CASE exec[t] \in Unkept
  BY <1>1, SettledStays DEF Unkept, Failing
<1>2. CASE timer[t] # "off"
  BY <1>2, SettledStays DEF Failing
<1>3. ASSUME NEW k \in {"commit", "release"}, Denied(c, t, k)
      PROVE  Failing(c, t)'
  <2>1. CASE Denied(c, t, k)'
    BY <1>3, <2>1 DEF Failing
  <2>2. ASSUME NEW m \in Answer, m.trx = t, m.kind = k, ~m.ok, Gets(c, m)
        PROVE  Failing(c, t)'
    <3>1. exec'[t] = "rejected"
      BY <1>3, <2>2, AnswerSettles
    <3> QED BY <3>1 DEF Failing, Unkept
  <2> QED BY <1>0, <1>3, <2>1, <2>2, ToldAfter
<1> QED BY <1>1, <1>2, <1>3 DEF Failing

LEMMA SpoiltKept ==
  ASSUME IInv, SessionInv, CarefulInv, Disciplined, [Next]_vars, NEW c \in Conn,
         NEW t \in Trx, Connected(t), Spoilt(c, t)
  PROVE  Spoilt(c, t)'
<1>0. "query" \in Kinds
  BY DEF Kinds
<1>1. CASE wrote[t] = "failed"
  BY <1>1, SettledStays DEF Spoilt
<1>2. CASE Denied(c, t, "query")
  <2>1. CASE Denied(c, t, "query")'
    BY <2>1 DEF Spoilt
  <2>2. ASSUME NEW m \in Answer, m.trx = t, m.kind = "query", ~m.ok, Gets(c, m)
        PROVE  Spoilt(c, t)'
    BY <2>2, AnswerSettles DEF Spoilt
  <2> QED BY <1>0, <1>2, <2>1, <2>2, ToldAfter
<1> QED BY <1>1, <1>2 DEF Spoilt

LEMMA ConfirmedKept ==
  ASSUME IInv, SessionInv, CarefulInv, Disciplined, [Next]_vars, NEW c \in Conn,
         NEW t \in Trx, Connected(t), Confirmed(c, t), ~Disconnect(c)
  PROVE  Confirmed(c, t)'
<1>0. "commit" \in Kinds
  BY DEF Kinds
<1>1. CASE exec[t] = "committed"
  BY <1>1, SettledStays DEF Confirmed
<1>2. CASE Granted(c, t, "commit")
  <2>1. CASE Granted(c, t, "commit")'
    BY <2>1 DEF Confirmed
  <2>2. ASSUME NEW m \in Answer, m.trx = t, m.kind = "commit", m.ok, Gets(c, m)
        PROVE  Confirmed(c, t)'
    BY <2>2, AnswerSettles DEF Confirmed
  <2> QED BY <1>0, <1>2, <2>1, <2>2, ToldAfter
<1> QED BY <1>1, <1>2 DEF Confirmed

\* Only the server grants or denies what is still to be answered.
LEMMA GrantedStays ==
  ASSUME IInv, SessionInv, CarefulInv, Disciplined, [Next]_vars, NEW c \in Conn, ~Execute(c),
         NEW t \in Trx, NEW k \in Kinds
  PROVE  /\ Granted(c, t, k)' => Granted(c, t, k)
         /\ Denied(c, t, k)' =>
              \/ Denied(c, t, k) \/ (Quiet(c) /\ c \in dead)
              \/ Disconnect(c) /\ (Sent(c, t, k) \/ Granted(c, t, k))
BY GrantedBefore, DeniedBefore

\* A top-level transaction is confirmed by the COMMIT that succeeds.
LEMMA ConfirmedBefore ==
  ASSUME IInv, SessionInv, CarefulInv, Disciplined, [Next]_vars, NEW c \in Conn,
         ~Execute(c), NEW t \in Trx, Connected(t), conn[t] = c, ~IsNested(t), Confirmed(c, t)'
  PROVE  Confirmed(c, t)
<1>0. "commit" \in Kinds
  BY DEF Kinds
<1>1. CASE Granted(c, t, "commit")'
  BY <1>0, <1>1, GrantedStays DEF Confirmed
<1>2. CASE exec'[t] = "committed"
  <2>0. Alters(t)
    BY AltersHow
  <2>1. CASE Same(t) \/ Fails(t) \/ Asks(t)
    BY <1>2, <2>1 DEF Same, Fails, Asks, Confirmed
  <2>2. CASE TimesOut(t)
    BY <1>2, <2>2 DEF TimesOut, Settles, Confirmed
  <2>3. ASSUME NEW k \in Finals, NEW a \in Args, Finishes(t, k, a)
        PROVE  Confirmed(c, t)
    BY <1>2, <2>3 DEF Finishes, Confirmed
  <2>4. ASSUME NEW m \in Answer, m.trx = t, Gets(c, m)
        PROVE  Confirmed(c, t)
    <3>1. CASE HearsIsolation(c, m) \/ HearsBegun(c, m) \/ HearsQueried(c, m)
      BY <1>2, <2>4, <3>1 DEF HearsIsolation, HearsBegun, HearsQueried, Confirmed
    <3>2. CASE HearsInitFailed(c, m)
      BY <1>2, <2>4, <3>2 DEF HearsInitFailed, Settles, Confirmed
    <3>3. CASE HearsFinished(c, m)
      <4>1. CASE exec[t] = "committed"
        BY <4>1 DEF Confirmed
      <4>2. CASE exec[t] # "committed"
        <5>1. Outcome(m) = "committed" /\ Hears(c, m)
          BY <1>2, <2>4, <3>3, <4>2 DEF HearsFinished, Settles
        <5>2. m.ok /\ m.kind \in {"commit", "release"}
          BY <5>1 DEF Outcome
        <5>3. Granted(c, t, m.kind)
          BY <2>4, <5>1, <5>2, HeardWas
        <5>4. PICK i \in DOMAIN reply[c] : reply[c][i].trx = t /\ reply[c][i].kind = m.kind
          BY <5>3 DEF Granted, Tells
        <5>5. Sender(reply[c][i])
          BY <5>4 DEF SessionInv, Orderly, Senders
        <5>6. m.kind # "release"
          BY <5>4, <5>5 DEF Sender, Inner
        <5> QED BY <5>2, <5>3, <5>6 DEF Confirmed
      <4> QED BY <4>1, <4>2
    <3> QED BY <2>4, <3>1, <3>2, <3>3 DEF Gets
  <2> QED BY <2>0, <2>1, <2>2, <2>3, <2>4 DEF Alters
<1> QED BY <1>1, <1>2 DEF Confirmed

\* A write is acknowledged by the query that succeeds.
LEMMA AckedBefore ==
  ASSUME IInv, SessionInv, CarefulInv, Disciplined, [Next]_vars, NEW c \in Conn,
         ~Execute(c), NEW t \in Trx, Connected(t)', conn'[t] = c, Acked(c, t)'
  PROVE  Connected(t) /\ conn[t] = c /\ Acked(c, t)
<1>0. "query" \in Kinds
  BY DEF Kinds
<1>1. CASE Granted(c, t, "query")'
  <2>1. Granted(c, t, "query")
    BY <1>0, <1>1, GrantedStays
  <2> QED BY <1>0, <2>1, OnItsWay DEF Acked
<1>2. CASE wrote'[t] = "ok"
  <2>1. Connected(t) => conn[t] = c
    BY Stays
  <2>2. CASE Connected(t)
    <3>0. Alters(t)
      BY <2>2, AltersHow
    <3>1. CASE Same(t) \/ Fails(t) \/ TimesOut(t) \/ Asks(t)
      BY <1>2, <2>1, <2>2, <3>1 DEF Same, Fails, TimesOut, Asks, Acked
    <3>2. ASSUME NEW k \in Finals, NEW a \in Args, Finishes(t, k, a)
          PROVE  Acked(c, t)
      BY <1>2, <3>2 DEF Finishes, Acked
    <3>3. ASSUME NEW m \in Answer, m.trx = t, Gets(c, m)
          PROVE  Acked(c, t)
      <4>1. CASE HearsInitFailed(c, m) \/ HearsIsolation(c, m) \/ HearsBegun(c, m) \/ HearsFinished(c, m)
        BY <1>2, <3>3, <4>1 DEF HearsInitFailed, HearsIsolation, HearsBegun, HearsFinished, Acked
      <4>2. CASE HearsQueried(c, m)
        <5>1. m.ok /\ Hears(c, m) /\ m.kind = "query"
          BY <1>2, <3>3, <4>2 DEF HearsQueried
        <5> QED BY <3>3, <5>1, HeardWas DEF Acked
      <4> QED BY <3>3, <4>1, <4>2 DEF Gets
    <3> QED BY <2>1, <2>2, <3>0, <3>1, <3>2, <3>3 DEF Alters
  <2>3. CASE ~Connected(t)
    <3>1. wrote[t] = "no"
      BY <2>3 DEF CarefulInv, Flags
    <3>2. ~Underway(t)
      BY <2>3 DEF IInv, LifeCycle, Underway
    <3>3. ~Untouched(t)
      BY <1>2, <3>1 DEF Untouched
    <3>4. ASSUME NEW m \in Answer, m.trx = t, NEW d \in Conn, Gets(d, m)
          PROVE  FALSE
      BY <2>3, <3>4 DEF Gets, HearsInitFailed, HearsIsolation, HearsBegun, HearsFinished,
         HearsQueried, Hears
    <3>5. ~Says(t)
      BY <1>2, <3>1 DEF Says, Meanwhile, Born, Aborts, Refused, Invokes, Lags, Fails, TimesOut, Closes,
         Starts, Asks, Finishes
    <3>6. ASSUME NEW d, NEW m \in Answer, Gets(d, m)
          PROVE  d \in Conn
      BY <3>6 DEF Gets, HearsInitFailed, HearsIsolation, HearsBegun, HearsFinished,
         HearsQueried, Hears
    <3> QED BY <3>3, <3>4, <3>5, <3>6, StepIs DEF Outside, Only, CarefulInv
  <2> QED BY <2>2, <2>3
<1> QED BY <1>1, <1>2 DEF Acked

\* What is durable stays durable, and only the server makes it so.
LEMMA DurableGrows ==
  ASSUME IInv, SessionInv, CarefulInv, [Next]_vars
  PROVE  /\ durable \subseteq durable'
         /\ \/ durable' = durable
            \/ \E c \in Conn, m \in Request, ok \in BOOLEAN : Execute(c) /\ Runs(c, m, ok)
<1>1. CASE \E c \in Conn : Execute(c)
  <2>1. PICK c \in Conn, m \in Request, ok \in BOOLEAN : Execute(c) /\ Runs(c, m, ok)
    BY <1>1, RunIs
  <2>2. durable \subseteq durable'
    BY <2>1 DEF Runs
  <2> QED BY <2>1, <2>2
<1>2. CASE ~\E c \in Conn : Execute(c)
  <2>1. ASSUME NEW c \in Conn, Deliver(c) \/ Disconnect(c) \/ ReplaceConnection(c)
        PROVE  durable' = durable
    BY <2>1 DEF Deliver, Disconnect, ReplaceConnection, server
  <2>2. ASSUME NEW t \in Trx, User(t) \/ Runtime(t)
        PROVE  durable' = durable
    BY <2>2 DEF User, Runtime, NewTransaction, NewNested, ContainerSettles, UserFinishes,
       UserQuery, AcquireConnection, AcquireFail, InvokeContainer, RollbackTimeout, Release, server
  <2>3. UNCHANGED vars => durable' = durable
    BY DEF vars, server
  <2> QED BY <1>2, <2>1, <2>2, <2>3 DEF Next, Network
<1> QED BY <1>1, <1>2

-----------------------------------------------------------------------------
(* Who needs a savepoint finds it *)

\* A transaction past its init that newly fails was rolled back, or the
\* connection is lost.
LEMMA FailingBefore ==
  ASSUME IInv, SessionInv, CarefulInv, Disciplined, [Next]_vars, NEW c \in Conn, ~Execute(c),
         NEW t \in Trx, Connected(t), conn[t] = c, Underway(t), Failing(c, t)'
  PROVE  \/ Failing(c, t) \/ c \in dead \/ Disconnect(c)
         \/ \E k \in {"rollback", "rollbackTo"}, a \in Args : Finishes(t, k, a) /\ Posts(c, t, k, a)
<1>0. {"commit", "release"} \subseteq Kinds
  BY DEF Kinds
<1>1. ASSUME NEW k \in {"commit", "release"}, Denied(c, t, k)'
      PROVE  Failing(c, t) \/ c \in dead \/ Disconnect(c)
  BY <1>0, <1>1, GrantedStays DEF Failing
<1>2. ASSUME exec'[t] \in Unkept \/ timer'[t] # "off"
      PROVE  \/ Failing(c, t)
             \/ \E k \in {"rollback", "rollbackTo"}, a \in Args : Finishes(t, k, a) /\ Posts(c, t, k, a)
  <2>0. Alters(t)
    BY AltersHow
  <2>1. CASE Same(t) \/ Fails(t) \/ Asks(t)
    BY <1>2, <2>1 DEF Same, Fails, Asks, Failing
  <2>2. CASE TimesOut(t)
    BY <2>2 DEF TimesOut, Failing
  <2>3. ASSUME NEW k \in Finals, NEW a \in Args, Finishes(t, k, a), Posts(c, t, k, a)
        PROVE  \/ Failing(c, t)
               \/ k \in {"rollback", "rollbackTo"}
    BY <1>2, <2>3 DEF Finishes, Failing
  <2>4. ASSUME NEW m \in Answer, m.trx = t, Gets(c, m)
        PROVE  Failing(c, t)
    <3>1. CASE HearsIsolation(c, m) \/ HearsBegun(c, m) \/ HearsQueried(c, m)
      BY <1>2, <2>4, <3>1 DEF HearsIsolation, HearsBegun, HearsQueried, Failing
    <3>2. CASE HearsInitFailed(c, m)
      <4>1. Flies(t, m.kind) /\ m.kind \in {"isolation", "begin", "savepoint"}
        BY <2>4, <3>2, Heard DEF HearsInitFailed
      <4> QED BY <4>1 DEF Flies, Underway
    <3>3. CASE HearsFinished(c, m)
      <4>1. Hears(c, m) /\ m.kind \in Finals
        BY <3>3 DEF HearsFinished
      <4>2. CASE m.kind \in {"rollback", "rollbackTo"}
        <5>1. Flies(t, m.kind)
          BY <2>4, <4>1, Heard
        <5> QED BY <4>2, <5>1 DEF Flies, Failing
      <4>3. CASE m.kind \in {"commit", "release"}
        <5>1. CASE m.ok
          BY <1>2, <2>4, <3>3, <4>3, <5>1 DEF HearsFinished, Settles, Outcome, Failing, Unkept
        <5>2. CASE ~m.ok
          <6>1. Denied(c, t, m.kind)
            BY <2>4, <4>1, <5>2, HeardWas
          <6> QED BY <4>3, <6>1 DEF Failing
        <5> QED BY <5>1, <5>2
      <4> QED BY <4>1, <4>2, <4>3 DEF Finals
    <3> QED BY <2>4, <3>1, <3>2, <3>3 DEF Gets
  <2> QED BY <2>0, <2>1, <2>2, <2>3, <2>4 DEF Alters
<1> QED BY <1>1, <1>2 DEF Failing

\* Answers come to the right kind of transaction.
LEMMA GrantedSender ==
  ASSUME SessionInv, NEW c \in Conn, NEW t \in Trx, NEW k, Granted(c, t, k), k # "query"
  PROVE  IsNested(t) <=> k \in Inner
<1>1. PICK i \in DOMAIN reply[c] : reply[c][i].trx = t /\ reply[c][i].kind = k
  BY DEF Granted, Tells
<1>2. Sender(reply[c][i])
  BY <1>1 DEF SessionInv, Orderly, Senders
<1> QED BY <1>1, <1>2 DEF Sender

\* Who needs its savepoint needed it before, unless the server has just set it.
LEMMA NeedsBefore ==
  ASSUME IInv, SessionInv, CarefulInv, Disciplined, [Next]_vars, NEW c \in Conn, ~Execute(c),
         NEW t \in Trx, Connected(t)', conn'[t] = c, Needs(c, t)'
  PROVE  Connected(t) /\ conn[t] = c /\ Needs(c, t)
<1>0. {"savepoint", "release", "rollbackTo"} \subseteq Kinds /\ {"release", "rollbackTo"} \subseteq Finals
  BY DEF Kinds, Finals
<1>1. ASSUME NEW k \in {"release", "rollbackTo"}, Sent(c, t, k)'
      PROVE  Connected(t) /\ conn[t] = c /\ Needs(c, t)
  <2>1. CASE Sent(c, t, k)
    <3>1. Connected(t) /\ conn[t] = c
      BY <1>0, <2>1, OnItsWay
    <3>2. IsNested(t)
      BY <3>1, Stays DEF Needs
    <3> QED BY <1>1, <2>1, <3>1, <3>2 DEF Needs
  <2>2. ASSUME NEW a \in Args, Posts(c, t, k, a)
        PROVE  Connected(t) /\ conn[t] = c /\ Needs(c, t)
    <3>1. Finishes(t, k, a)
      BY <1>0, <2>2, SendsHow DEF Posts
    <3>2. Underway(t) /\ ~completed[t] /\ IsNested(t)
      BY <1>1, <3>1 DEF Finishes, Ends, Underway, IsCompleted, Line, Inner
    <3>3. Connected(t)
      BY <3>2 DEF IInv, LifeCycle, Underway
    <3>4. Running(t) /\ conn[t] = c
      BY <3>2, <3>3, Uncompleted, Stays
    <3> QED BY <3>2, <3>3, <3>4 DEF Needs
  <2> QED BY <1>0, <1>1, <2>1, <2>2, SentBefore
<1>2. ASSUME Running(t)', ~completed'[t], Underway(t)' \/ Granted(c, t, "savepoint")'
      PROVE  Connected(t) /\ conn[t] = c /\ Needs(c, t)
  <2>1. Granted(c, t, "savepoint")' => Granted(c, t, "savepoint")
    BY <1>0, GrantedStays
  <2>2. CASE Connected(t)
    <3>1. conn[t] = c /\ IsNested(t) /\ ~completed[t]
      BY <1>2, <2>2, Stays DEF Needs
    <3>2. Running(t)
      BY <1>2, <2>2, RunningOld
    <3>3. Underway(t)' => Underway(t) \/ Granted(c, t, "savepoint")
      <4>0. Alters(t)
        BY <2>2, AltersHow
      <4>1. CASE Same(t) \/ Fails(t) \/ TimesOut(t) \/ Asks(t)
        BY <4>1 DEF Same, Fails, TimesOut, Asks, Underway
      <4>2. ASSUME NEW k \in Finals, NEW a \in Args, Finishes(t, k, a)
            PROVE  Underway(t)
        BY <4>2 DEF Finishes, Ends, Underway
      <4>3. ASSUME NEW m \in Answer, m.trx = t, Gets(c, m)
            PROVE  Underway(t)' => Underway(t) \/ Granted(c, t, "savepoint")
        <5>1. CASE HearsInitFailed(c, m)
          BY <1>2, <4>3, <5>1 DEF HearsInitFailed
        <5>2. CASE HearsIsolation(c, m)
          BY <4>3, <5>2 DEF HearsIsolation, Underway
        <5>3. CASE HearsFinished(c, m) \/ HearsQueried(c, m)
          BY <4>3, <5>3 DEF HearsFinished, HearsQueried, Underway
        <5>4. CASE HearsBegun(c, m)
          <6>1. Hears(c, m) /\ m.ok /\ m.kind \in {"begin", "savepoint"}
            BY <5>4 DEF HearsBegun
          <6>2. Granted(c, t, m.kind)
            BY <4>3, <6>1, HeardWas
          <6>3. m.kind \in Inner
            BY <3>1, <6>1, <6>2, GrantedSender
          <6> QED BY <6>1, <6>2, <6>3 DEF Inner
        <5> QED BY <4>3, <5>1, <5>2, <5>3, <5>4 DEF Gets
      <4> QED BY <3>1, <4>0, <4>1, <4>2, <4>3 DEF Alters
    <3> QED BY <1>2, <2>1, <2>2, <3>1, <3>2, <3>3 DEF Needs
  <2>3. CASE ~Connected(t)
    <3>1. ~Running(t)
      BY <2>3 DEF Running, Connected
    <3>2. Starts(t)
      BY <1>2, <3>1, RunningBefore
    <3>3. ~Underway(t)'
      BY <3>2 DEF Starts, Underway
    <3>4. ~Granted(c, t, "savepoint")
      BY <1>0, <2>3, OnItsWay
    <3> QED BY <1>2, <2>1, <3>3, <3>4
  <2> QED BY <2>2, <2>3
<1> QED BY <1>1, <1>2 DEF Needs

\* A lost connection that is replaced was idle in the pool.
LEMMA RevivedIdle ==
  ASSUME IInv, SessionInv, [Next]_vars, NEW c \in Conn, Quiet(c), c \in dead, c \notin dead'
  PROVE  c \in free /\ chan[c] = <<>>
<1>1. chan[c] = <<>>
  BY DEF SessionInv, Orderly, DeadIsIdle
<1>2. CASE \E d \in Conn : ReplaceConnection(d)
  BY <1>1, <1>2 DEF ReplaceConnection
<1>3. CASE \E d \in Conn : Execute(d) \/ Deliver(d) \/ Disconnect(d)
  BY <1>3 DEF Execute, Deliver, Disconnect, server
<1>4. ASSUME NEW t \in Trx, User(t) \/ Runtime(t)
      PROVE  FALSE
  BY <1>4 DEF User, Runtime, NewTransaction, NewNested, ContainerSettles, UserFinishes,
     UserQuery, AcquireConnection, AcquireFail, InvokeContainer, RollbackTimeout, Release, server
<1>5. CASE UNCHANGED vars
  BY <1>5 DEF vars, server
<1> QED BY <1>2, <1>3, <1>4, <1>5 DEF Next, Network

\* A top-level transaction around an unsettled one, or itself, runs.
LEMMA RootRuns ==
  ASSUME IInv, SessionInv, CarefulInv, NEW t \in Trx, Running(t), NEW r \in Line(t)
  PROVE  Running(r)
<1>1. CASE r = t
  BY <1>1
<1>2. CASE r \in anc[t]
  BY <1>2, Around DEF Alive, Running
<1> QED BY <1>1, <1>2 DEF Line

\* What is needed on a connection without the server's doing was needed before.
LEMMA HasNeededQuiet ==
  ASSUME IInv, SessionInv, CarefulInv, Disciplined, [Next]_vars, NEW c \in Conn, Quiet(c),
         HasNeeded(c)
  PROVE  HasNeeded(c)'
<1>0. ~Execute(c)
  BY DEF Quiet
<1>1. SUFFICES ASSUME c \notin dead', NEW t \in Trx, Connected(t)', conn'[t] = c, Needs(c, t)'
               PROVE  HasMark(sess[c], t)'
  BY DEF HasNeeded
<1>2. Connected(t) /\ conn[t] = c /\ Needs(c, t)
  BY <1>0, <1>1, NeedsBefore
<1>3. sess'[c] = sess[c]
  BY QuietServer
<1>4. c \notin dead
  <2>1. SUFFICES ASSUME c \in dead PROVE FALSE
    OBVIOUS
  <2>2. c \in free /\ chan[c] = <<>>
    BY <1>1, <2>1, RevivedIdle
  <2>3. ~Sent(c, t, "release") /\ ~Sent(c, t, "rollbackTo")
    BY <2>2, ListsEmpty DEF Sent
  <2>4. Running(t)
    BY <1>2, <2>3 DEF Needs
  <2>5. PICK r \in Line(t) : IsRoot(r) /\ conn[t] = conn[r]
    BY <1>2 DEF IInv, Rooted, Connected
  <2>6. r \in Trx /\ Running(r)
    BY <1>2, <2>4, <2>5, RootRuns, LineShares DEF Running
  <2> QED BY <1>2, <2>2, <2>5, <2>6 DEF IInv, ConnectionOwnership, Running
<1> QED BY <1>2, <1>3, <1>4 DEF HasNeeded, HasMark

\* A session whose transaction ends has nobody inside that needs a savepoint.
LEMMA NobodyNeeds ==
  ASSUME IInv, SessionInv, CarefulInv, NEW c \in Conn,
         NEW m, NEW ok, Runs(c, m, ok), m.kind \in Ending, NEW t \in Trx, Connected(t), conn[t] = c
  PROVE  ~Needs(c, t)'
<1>0. {"release", "rollbackTo"} \subseteq Kinds \cap Inner /\ Ending \subseteq Boundary
  BY DEF Kinds, Inner, Ending, Boundary
<1>1. ~Sent(c, t, "release")' /\ ~Sent(c, t, "rollbackTo")'
  BY <1>0 DEF Runs
<1>2. SUFFICES ASSUME IsNested(t), Running(t) PROVE FALSE
  BY <1>1 DEF Runs, Needs, Untouched, SameTree, Running, IsNested
<1>3. PICK r \in Line(t) : IsRoot(r) /\ conn[t] = conn[r]
  BY DEF IInv, Rooted, Connected
<1>4. r \in anc[t] /\ r \in Trx
  BY <1>2, <1>3, LineShares DEF Line, IsRoot, IsNested
<1>5. Running(r) /\ ~completed[r]
  BY <1>2, <1>4, AroundSound
<1>6. Underway(r)
  BY <1>4 DEF SessionInv, AroundUnderway
<1>7. Active(r)
  BY <1>3, <1>5, <1>6 DEF Active, Running
<1>8. c \notin dead /\ chan[c] # <<>> /\ m = Head(chan[c])
  BY DEF Runs
<1>9. Steady(chan[c])
  BY <1>3, <1>4, <1>7, <1>8 DEF SessionInv, HolderOwns
<1>10. 1 \in DOMAIN chan[c] /\ Head(chan[c]) = chan[c][1]
  BY <1>8, OnTheWay, TailAt
<1> QED BY <1>0, <1>8, <1>9, <1>10 DEF Steady

\* A savepoint set later than that of p is not needed when p leaves its own.
LEMMA LaterUnneeded ==
  ASSUME IInv, SessionInv, CarefulInv, NEW c \in Conn, Marks(c),
         NEW m, NEW ok, Runs(c, m, ok), m.kind \in {"release", "rollbackTo"},
         NEW q, q = sess[c].marks, NEW n \in DOMAIN q, q[n].sp = m.trx,
         NEW i \in DOMAIN q, i > n, NEW t \in Trx, q[i].sp = t, Needs(c, t)'
  PROVE  FALSE
<1>0. {"release", "rollbackTo"} \subseteq Kinds /\ {"release", "rollbackTo"} \subseteq Finals
  BY DEF Kinds, Finals
<1>1. /\ m.trx \in Trx /\ completed[m.trx] /\ Live(c, m.trx)
  BY <1>0 DEF Runs, Sender, Live
<1>2. \A k \in {"release", "rollbackTo"} : Sent(c, t, k)' => Sent(c, t, k) /\ m.trx \notin Line(t)
  BY <1>0 DEF Runs
<1>3. Running(t)' /\ ~completed'[t] => Running(t) /\ ~completed[t]
  BY DEF Runs, Untouched, Running
<1>4. Live(c, t)
  BY <1>2, <1>3 DEF Needs, Live
<1>5. Earlier(c, q[n], q[i])
  <2>1. DOMAIN q \subseteq Nat
    BY DEF IInv, TypeOK, SessionState
  <2> QED BY <2>1 DEF Marks, Separated
<1>6. m.trx \in anc[t]
  BY <1>1, <1>4, <1>5 DEF Earlier
<1>7. Running(t)
  BY <1>2, <1>3, <1>6 DEF Needs, Line
<1>8. ~completed[m.trx]
  BY <1>6, <1>7, AroundSound
<1> QED BY <1>1, <1>8

\* Nor is that of p itself any more, once it is released.
LEMMA OwnUnneeded ==
  ASSUME NEW c \in Conn, NEW m, NEW ok, Runs(c, m, ok), m.kind = "release", Needs(c, m.trx)'
  PROVE  FALSE
<1>0. {"release", "rollbackTo"} \subseteq Kinds /\ {"release", "rollbackTo"} \subseteq Finals
  BY DEF Kinds, Finals
<1>1. completed[m.trx] /\ m.trx \in Trx
  BY <1>0 DEF Runs, Sender
<1>2. \A k \in {"release", "rollbackTo"} : ~Sent(c, m.trx, k)'
  BY <1>0, <1>1 DEF Runs, Line
<1>3. completed'[m.trx]
  BY <1>1 DEF Runs, Untouched
<1> QED BY <1>2, <1>3 DEF Needs

LEMMA HasNeededRuns ==
  ASSUME IInv, SessionInv, CarefulInv, Disciplined, [Next]_vars, NEW c \in Conn,
         Marks(c), HasNeeded(c), NEW m, NEW ok, Runs(c, m, ok)
  PROVE  HasNeeded(c)'
<1>0. {"savepoint", "release", "rollbackTo"} \subseteq Kinds
  BY DEF Kinds
<1>1. SUFFICES ASSUME NEW t \in Trx, Connected(t)', conn'[t] = c, Needs(c, t)'
               PROVE  HasMark(sess[c], t)'
  BY DEF HasNeeded
<1>2. Connected(t) /\ conn[t] = c
  BY <1>1 DEF Runs, Untouched, Connected
<1>3. Needs(c, t) \/ (m.trx = t /\ m.kind = "savepoint" /\ ok)
  <2>1. \A k \in {"release", "rollbackTo"} : Sent(c, t, k)' => Sent(c, t, k)
    BY <1>0 DEF Runs
  <2>2. Granted(c, t, "savepoint")' => Granted(c, t, "savepoint") \/ (m.trx = t /\ m.kind = "savepoint" /\ ok)
    BY <1>0 DEF Runs
  <2>3. Running(t)' /\ ~completed'[t] => Running(t) /\ ~completed[t]
    BY DEF Runs, Untouched, Running
  <2>4. Underway(t)' => Underway(t)
    BY DEF Runs, Untouched, Underway
  <2>5. IsNested(t)' => IsNested(t)
    BY DEF Runs, SameTree, IsNested
  <2> QED BY <1>1, <2>1, <2>2, <2>3, <2>4, <2>5 DEF Needs
<1>4. Needs(c, t) => HasMark(sess[c], t)
  BY <1>2 DEF HasNeeded, Runs
<1>5. PICK s \in SessionState : s = sess[c]
  BY DEF IInv, TypeOK
<1>6. PICK z \in SessionState : z = sess'[c]
  BY InvariantStep DEF IInv, TypeOK
<1>7. PICK q \in Seq(Mark) : q = s.marks
  BY DEF SessionState
<1>8. HasMark(s, t) \/ (m.trx = t /\ m.kind = "savepoint" /\ ok)
  BY <1>3, <1>4, <1>5
<1>9. ServerDoes(s, z, m.kind, m.trx, ok)
  BY <1>5, <1>6, RunDoes
<1>10. SUFFICES HasMark(z, t)
  BY <1>6 DEF HasMark
<1>11. CASE Stalls(s, z, m.kind, m.trx, ok)
  BY <1>8, <1>11 DEF Stalls, KeepsData, HasMark
<1>12. CASE Clears(s, z, m.kind, ok)
  <2>1. m.kind \in Ending
    BY <1>12 DEF Clears
  <2> QED BY <1>1, <1>2, <2>1, NobodyNeeds
<1>13. CASE Opened(s, z, m.kind, m.trx) \/ Writes(s, z, m.kind, m.trx)
  BY <1>8, <1>13 DEF Opened, Writes, HasMark
<1>14. CASE Sets(s, z, m.kind, m.trx)
  <2>1. PICK e \in Mark : e = [sp |-> m.trx, before |-> s.writes]
    BY DEF Mark, SessionState, Runs
  <2>2. z.marks = Append(q, e)
    BY <1>7, <1>14, <2>1 DEF Sets
  <2>3. /\ DOMAIN q = 1 .. Len(q) /\ Len(q) \in Nat /\ DOMAIN Append(q, e) = 1 .. Len(q) + 1
        /\ \A i \in 1 .. Len(q) : Append(q, e)[i] = q[i]
        /\ Append(q, e)[Len(q) + 1] = e
    BY AppendAt
  <2>4. CASE HasMark(s, t)
    <3>1. PICK i \in DOMAIN q : q[i].sp = t
      BY <1>7, <2>4 DEF HasMark
    <3>2. i \in DOMAIN z.marks /\ z.marks[i] = q[i]
      BY <2>2, <2>3, <3>1
    <3> QED BY <3>1, <3>2 DEF HasMark
  <2>5. CASE m.trx = t
    <3>1. Len(q) + 1 \in DOMAIN z.marks /\ z.marks[Len(q) + 1] = e
      BY <2>2, <2>3
    <3>2. e.sp = t
      BY <2>1, <2>5
    <3> QED BY <3>1, <3>2 DEF HasMark
  <2> QED BY <1>8, <2>4, <2>5
<1>15. ASSUME NEW n \in DOMAIN q, q[n].sp = m.trx, NEW l \in Nat, l <= Len(q),
              z.marks = SubSeq(q, 1, l), l = n \/ (l = n - 1 /\ m.kind = "release"),
              m.kind \in {"release", "rollbackTo"}
       PROVE  HasMark(z, t)
  <2>1. PICK i \in DOMAIN q : q[i].sp = t
    BY <1>7, <1>8, <1>15 DEF HasMark
  <2>2. DOMAIN q = 1 .. Len(q) /\ Len(q) \in Nat
    OBVIOUS
  <2>3. ~(i > n)
    BY <1>1, <1>5, <1>7, <1>15, <2>1, LaterUnneeded
  <2>4. i = n => m.kind # "release"
    BY <1>1, <1>15, <2>1, OwnUnneeded
  <2>5. i \in 1 .. l
    BY <1>15, <2>1, <2>2, <2>3, <2>4
  <2>6. DOMAIN SubSeq(q, 1, l) = 1 .. l /\ SubSeq(q, 1, l)[i] = q[i]
    BY <1>15, <2>5, FirstOnes
  <2> QED BY <1>15, <2>1, <2>5, <2>6 DEF HasMark
<1>16. CASE Unsets(s, z, m.kind, m.trx)
  <2>1. PICK n \in DOMAIN q : q[n].sp = m.trx /\ z.marks = SubSeq(q, 1, n - 1)
    BY <1>7, <1>16 DEF Unsets
  <2>2. n - 1 \in Nat /\ n - 1 <= Len(q)
    BY <2>1
  <2> QED BY <1>15, <1>16, <2>1, <2>2 DEF Unsets
<1>17. CASE GoesBack(s, z, m.kind, m.trx)
  <2>1. PICK n \in DOMAIN q : q[n].sp = m.trx /\ z.marks = SubSeq(q, 1, n)
    BY <1>7, <1>17 DEF GoesBack
  <2>2. n \in Nat /\ n <= Len(q)
    BY <2>1
  <2> QED BY <1>15, <1>17, <2>1, <2>2 DEF GoesBack
<1> QED BY <1>9, <1>11, <1>12, <1>13, <1>14, <1>16, <1>17 DEF ServerDoes

LEMMA HasNeededStep ==
  ASSUME IInv, SessionInv, CarefulInv, Disciplined, [Next]_vars, NEW c \in Conn,
         Marks(c), HasNeeded(c)
  PROVE  HasNeeded(c)'
<1>1. CASE Execute(c)
  <2>1. PICK m \in Request, ok \in BOOLEAN : Runs(c, m, ok)
    BY <1>1, RunIs
  <2> QED BY <2>1, HasNeededRuns
<1>2. CASE Disconnect(c)
  BY <1>2, LostQueues DEF HasNeeded
<1>3. CASE Quiet(c)
  BY <1>3, HasNeededQuiet
<1> QED BY <1>1, <1>2, <1>3 DEF Quiet

-----------------------------------------------------------------------------
(* What fails is undone *)

\* What is sent on a connection that is not lost waits for the server.
LEMMA PostedSent ==
  ASSUME IInv, NEW c \in Conn, NEW t \in Trx, NEW k \in Kinds, NEW a \in Args,
         Posts(c, t, k, a), c \notin dead
  PROVE  Sent(c, t, k)'
<1>1. PICK m \in Request : m = Message(t, k, a)
  BY MessageType
<1>2. m.trx = t /\ m.kind = k
  BY <1>1 DEF Message
<1>3. chan[c] \in Seq(Request) /\ reply[c] \in Seq(Answer) /\ TypeOK
  BY DEF IInv, TypeOK
<1>4. chan'[c] = Append(chan[c], m)
  BY <1>1, <1>3, PostIs DEF Posts
<1> QED BY <1>2, <1>3, <1>4, ListsAppend DEF Sent

\* Nobody commits or releases in an aborted session.
LEMMA CleanKeep ==
  ASSUME IInv, SessionInv, CarefulInv, NEW c \in Conn, OwnerIs(c), AbortedGoes(c),
         NEW m, NEW ok, Runs(c, m, ok), m.kind \in {"commit", "release"}
  PROVE  ~sess[c].aborted
<1>0. {"commit", "release", "rollbackTo", "query"} \subseteq Kinds /\ "release" \in Inner
  BY DEF Kinds, Inner
<1>1. SUFFICES ASSUME sess[c].aborted PROVE FALSE
  OBVIOUS
<1>2. /\ m.trx \in Trx /\ Connected(m.trx) /\ conn[m.trx] = c
      /\ Running(m.trx) /\ completed[m.trx] /\ chan'[c] = <<>>
  BY DEF Runs, Flies
<1>3. PICK r : r = sess[c].owner
  OBVIOUS
<1>4. r # NoTrx
  BY <1>1, <1>3 DEF OwnerIs, IdleSession
<1>5. r \in Trx /\ ~IsNested(r) /\ Connected(r) /\ conn[r] = c
  BY <1>3, <1>4 DEF OwnerIs, IInv, TypeOK, SessionState
<1>6. Running(r) /\ (~completed[r] \/ Sent(c, r, "commit"))
  <2>1. CASE m.kind = "commit"
    <3>1. Sent(c, m.trx, "commit")
      BY <2>1 DEF Runs
    <3>2. r = m.trx
      BY <1>2, <1>3, <3>1 DEF OwnerIs
    <3> QED BY <1>2, <3>1, <3>2
  <2>2. CASE m.kind = "release"
    <3>1. IsNested(m.trx) /\ r \in Line(m.trx)
      BY <1>0, <1>3, <2>2 DEF Runs, Sender
    <3>2. r \in anc[m.trx]
      BY <1>5, <3>1 DEF Line
    <3> QED BY <1>2, <3>2, AroundSound
  <2> QED BY <2>1, <2>2
<1>7. PICK u \in Trx : Connected(u) /\ r \in Line(u) /\ Spoilt(c, u) /\ Live(c, u)
  BY <1>1, <1>3, <1>4, <1>6 DEF AbortedGoes
<1>8. conn[u] = c
  BY <1>5, <1>7, LineShares
<1>9. CASE ~completed[u]
  <2>1. Running(u)
    BY <1>7, <1>9, Uncompleted
  <2>2. m.trx \in Line(u) \/ u \in Line(m.trx)
    BY <1>2, <1>8, <2>1 DEF CarefulInv, OneLine
  <2>3. CASE m.trx \in anc[u]
    BY <1>2, <2>1, <2>3, AroundSound
  <2>4. CASE u \in anc[m.trx]
    BY <1>2, <1>7, <2>4, AroundSound
  <2> QED BY <1>2, <1>9, <2>2, <2>3, <2>4 DEF Line
<1>10. CASE Sent(c, u, "release")
  <2>1. Flies(u, "release")
    BY <1>0, <1>10, OnItsWay
  <2>2. Denied(c, u, "query") => Flies(u, "query")
    BY <1>0, OnItsWay
  <2> QED BY <1>7, <2>1, <2>2 DEF Flies, Spoilt
<1>11. CASE Sent(c, u, "rollbackTo")
  <2>1. ~Sent(c, u, "rollbackTo")'
    BY <1>2, ListsEmpty DEF Sent
  <2> QED BY <1>0, <1>11, <2>1 DEF Runs
<1> QED BY <1>7, <1>9, <1>10, <1>11 DEF Live

\* Who needs a savepoint to leave it finds it.
LEMMA LeavesOwn ==
  ASSUME NEW c \in Conn, HasNeeded(c), NEW m, NEW ok, Runs(c, m, ok),
         m.kind \in {"release", "rollbackTo"}
  PROVE  IsNested(m.trx) /\ HasMark(sess[c], m.trx)
<1>1. IsNested(m.trx)
  BY DEF Runs, Sender, Inner
<1>2. Needs(c, m.trx)
  BY <1>1 DEF Runs, Needs
<1> QED BY <1>1, <1>2 DEF HasNeeded, Runs

LEMMA FailedGoesQuiet ==
  ASSUME IInv, SessionInv, CarefulInv, Disciplined, [Next]_vars, NEW c \in Conn, Quiet(c),
         OwnerIs(c), Writers(c), FailedGoes(c)
  PROVE  FailedGoes(c)'
<1>0. "rollbackTo" \in Kinds /\ ~Execute(c) /\ ~Disconnect(c)
  BY DEF Kinds, Quiet
<1>1. PICK s : s = sess[c]
  OBVIOUS
<1>2. sess'[c] = s
  BY <1>1, QuietServer
<1>3. SUFFICES ASSUME s.owner # NoTrx, Running(s.owner)', NEW w \in s.writes,
                      NEW a \in Line(w)', IsNested(a)', Failing(c, a)'
               PROVE  Sent(c, a, "rollbackTo")'
  BY <1>2 DEF FailedGoes
<1>4. s.owner \in Trx /\ Connected(s.owner) /\ w \in Trx
  BY <1>1, <1>3 DEF OwnerIs, IInv, TypeOK, SessionState
<1>5. Running(s.owner)
  BY <1>3, <1>4, RunningOld
<1>6. Connected(w) /\ conn[w] = c /\ Underway(w)
  BY <1>1, <1>3 DEF Writers
<1>7. a \in Line(w)
  BY <1>3, <1>4, <1>6, Stays
<1>8. a \in Trx /\ Connected(a) /\ conn[a] = c
  BY <1>4, <1>6, <1>7, LineShares
<1>9. Underway(a)
  BY <1>4, <1>6, <1>7 DEF Line, SessionInv, AroundUnderway
<1>10. IsNested(a)
  BY <1>3, <1>8, Stays
<1>11. CASE Failing(c, a)
  <2>1. Sent(c, a, "rollbackTo")
    BY <1>1, <1>3, <1>5, <1>7, <1>10, <1>11 DEF FailedGoes
  <2> QED BY <1>0, <1>8, <2>1, QuietQueues
<1>12. c \notin dead
  BY <1>1, <1>3 DEF SessionInv, Orderly, DeadIsIdle
<1>13. ASSUME NEW k \in {"rollback", "rollbackTo"}, NEW b \in Args,
              Finishes(a, k, b), Posts(c, a, k, b)
       PROVE  Sent(c, a, "rollbackTo")'
  <2>1. k = "rollbackTo"
    BY <1>10, <1>13 DEF Finishes, Inner
  <2> QED BY <1>0, <1>8, <1>12, <1>13, <2>1, PostedSent
<1> QED BY <1>0, <1>3, <1>8, <1>9, <1>11, <1>12, <1>13, FailingBefore

\* A nested transaction does not newly fail by what the server does.
LEMMA FailsNotNow ==
  ASSUME IInv, SessionInv, CarefulInv, NEW c \in Conn, OwnerIs(c), HasNeeded(c), AbortedGoes(c),
         NEW m, NEW ok, Runs(c, m, ok), NEW a \in Trx, IsNested(a), Failing(c, a)'
  PROVE  Failing(c, a)
<1>0. {"commit", "release"} \subseteq Kinds
  BY DEF Kinds
<1>1. exec'[a] = exec[a] /\ timer'[a] = timer[a]
  BY DEF Runs, Untouched
<1>2. \A k \in {"commit", "release"} :
        Denied(c, a, k)' => Denied(c, a, k) \/ (m.trx = a /\ m.kind = k /\ ~ok)
  BY <1>0 DEF Runs
<1>3. ASSUME m.trx = a, m.kind \in {"commit", "release"}, ~ok
      PROVE  FALSE
  <2>1. m.kind = "release"
    BY <1>3 DEF Runs, Sender, Inner
  <2>2. ~sess[c].aborted
    BY <2>1, CleanKeep
  <2>3. HasMark(sess[c], m.trx)
    BY <2>1, LeavesOwn
  <2>4. ServerDoes(sess[c], sess'[c], m.kind, m.trx, ok)
    BY RunDoes
  <2> QED BY <1>3, <2>1, <2>2, <2>3, <2>4 DEF ServerDoes, Stalls, Clears, Ending
<1> QED BY <1>1, <1>2, <1>3 DEF Failing

LEMMA FailedGoesRuns ==
  ASSUME IInv, SessionInv, CarefulInv, Disciplined, [Next]_vars, NEW c \in Conn,
         OwnerIs(c), Writers(c), Marks(c), HasNeeded(c), FailedGoes(c), AbortedGoes(c),
         NEW m, NEW ok, Runs(c, m, ok)
  PROVE  FailedGoes(c)'
<1>0. "rollbackTo" \in Kinds
  BY DEF Kinds
<1>1. PICK s \in SessionState : s = sess[c]
  BY DEF IInv, TypeOK
<1>2. PICK z \in SessionState : z = sess'[c]
  BY InvariantStep DEF IInv, TypeOK
<1>3. SUFFICES ASSUME z.owner # NoTrx, Running(z.owner)', NEW w \in z.writes,
                      NEW a \in Line(w)', IsNested(a)', Failing(c, a)'
               PROVE  Sent(c, a, "rollbackTo")'
  BY <1>2 DEF FailedGoes
<1>4. w \in Trx /\ z.owner \in Trx /\ Line(w)' = Line(w)
  BY <1>3 DEF SessionState, Runs, SameTree, Line
<1>5. ServerDoes(s, z, m.kind, m.trx, ok)
  BY <1>1, <1>2, RunDoes
<1>6. \A v \in z.writes \ s.writes :
        v = m.trx /\ m.kind = "query" /\ Underway(v) /\ s.owner \in Line(v)
  BY <1>1, <1>2, WritesAfter
<1>7. Running(z.owner)
  BY <1>3, <1>4 DEF Runs, Untouched, Running
<1>8. Connected(w)
  BY <1>1, <1>3, <1>6 DEF Writers, Runs
<1>9. a \in Line(w) /\ a \in Trx /\ Connected(a)
  BY <1>3, <1>4, <1>8, LineShares
<1>10. IsNested(a)
  BY <1>3 DEF Runs, SameTree, IsNested
<1>11. Failing(c, a)
  BY <1>3, <1>9, <1>10, FailsNotNow
<1>12. CASE w \notin s.writes
  <2>1. w = m.trx /\ m.kind = "query"
    BY <1>3, <1>6, <1>12
  <2>2. Running(w) /\ ~completed[w]
    BY <2>1 DEF Runs, Flies
  <2>3. CASE a = w
    BY <1>9, <1>11, <2>2, <2>3, NotFailing
  <2>4. CASE a \in anc[w]
    BY <1>4, <1>11, <2>2, <2>4, AroundSound
  <2> QED BY <1>9, <2>3, <2>4 DEF Line
<1>13. CASE w \in s.writes
  <2>1. s.owner = z.owner
    <3>1. s.owner # NoTrx
      BY <1>1, <1>13 DEF OwnerIs, IdleSession
    <3> QED BY <1>1, <1>2, <1>3, <3>1, OwnerRuns DEF IdleSession
  <2>2. Sent(c, a, "rollbackTo")
    BY <1>1, <1>3, <1>7, <1>9, <1>10, <1>11, <1>13, <2>1 DEF FailedGoes
  <2>3. SUFFICES ASSUME m.trx = a, m.kind = "rollbackTo" PROVE FALSE
    BY <1>0, <1>9, <2>2 DEF Runs
  <2>4. HasMark(s, a)
    BY <1>1, <2>3, LeavesOwn
  <2>5. GoesBack(s, z, m.kind, m.trx)
    BY <1>5, <2>3, <2>4 DEF ServerDoes, Stalls, Clears, Opened, Sets, Writes, Unsets, Ending
  <2>6. PICK n \in DOMAIN s.marks : s.marks[n].sp = a /\ z.writes = s.marks[n].before
    BY <2>3, <2>5 DEF GoesBack
  <2>7. MarkSplits(c, s.marks[n])
    BY <1>1, <2>6 DEF Marks, Separated
  <2> QED BY <1>3, <1>9, <2>6, <2>7 DEF MarkSplits
<1> QED BY <1>12, <1>13

LEMMA FailedGoesStep ==
  ASSUME IInv, SessionInv, CarefulInv, Disciplined, [Next]_vars, NEW c \in Conn,
         OwnerIs(c), Writers(c), Marks(c), HasNeeded(c), FailedGoes(c), AbortedGoes(c)
  PROVE  FailedGoes(c)'
<1>1. CASE Execute(c)
  <2>1. PICK m \in Request, ok \in BOOLEAN : Runs(c, m, ok)
    BY <1>1, RunIs
  <2> QED BY <2>1, FailedGoesRuns
<1>2. CASE Disconnect(c)
  BY <1>2, LostQueues DEF FailedGoes, IdleSession
<1>3. CASE Quiet(c)
  BY <1>3, FailedGoesQuiet
<1> QED BY <1>1, <1>2, <1>3 DEF Quiet

\* Somebody whose write failed ends only by rolling back.
LEMMA SpoiltEnds ==
  ASSUME IInv, SessionInv, CarefulInv, Disciplined, [Next]_vars, NEW c \in Conn,
         NEW u \in Trx, Connected(u), conn[u] = c, Spoilt(c, u), ~completed[u], completed'[u]
  PROVE  /\ wrote[u] = "failed"
         /\ \E k \in {"rollback", "rollbackTo"}, a \in Args : Finishes(u, k, a) /\ Posts(c, u, k, a)
<1>0. "query" \in Kinds
  BY DEF Kinds
<1>1. Denied(c, u, "query") => wrote[u] = "sent"
  BY <1>0, OnItsWay DEF Flies
<1>2. wrote[u] # "no"
  BY <1>1 DEF Spoilt
<1>3. Underway(u)
  BY <1>2 DEF CarefulInv, Flags
<1>4. Alters(u)
  BY AltersHow
<1>5. ~Same(u) /\ ~Fails(u) /\ ~TimesOut(u) /\ ~Asks(u)
  <2>1. completed'[u] = completed[u] => FALSE
    BY InvariantStep DEF IInv, TypeOK
  <2> QED BY <2>1 DEF Same, Fails, TimesOut, Asks
<1>6. ASSUME NEW k \in Finals, NEW a \in Args, Finishes(u, k, a)
      PROVE  wrote[u] = "failed" /\ k \in {"rollback", "rollbackTo"}
  BY <1>1, <1>6 DEF Finishes, Spoilt, Finals
<1>7. ASSUME NEW m \in Answer, m.trx = u, Gets(c, m)
      PROVE  FALSE
  <2>1. Hears(c, m)
    BY <1>7 DEF Gets, HearsInitFailed, HearsIsolation, HearsBegun, HearsFinished, HearsQueried
  <2>2. Flies(u, m.kind) /\ m.kind \in Kinds
    BY <1>7, <2>1, Heard
  <2>3. m.kind \notin {"isolation", "begin", "savepoint"}
    BY <1>3, <2>2 DEF Flies, Underway
  <2>4. m.kind \notin Finals
    BY <2>2 DEF Flies, Finals
  <2>5. HearsQueried(c, m)
    BY <1>7, <2>3, <2>4 DEF Gets, HearsInitFailed, HearsIsolation, HearsBegun, HearsFinished
  <2>6. completed'[u] = completed[u]
    BY <1>7, <2>5 DEF HearsQueried
  <2> QED BY <2>6
<1> QED BY <1>4, <1>5, <1>6, <1>7 DEF Alters

\* A top-level transaction that still may commit was so before.
LEMMA MayCommitBefore ==
  ASSUME IInv, SessionInv, CarefulInv, Disciplined, [Next]_vars, NEW c \in Conn,
         NEW r \in Trx, Connected(r), conn[r] = c,
         ~completed'[r] \/ Sent(c, r, "commit")'
  PROVE  \/ ~completed[r] /\ (completed'[r] => wrote[r] \in {"no", "ok"})
         \/ Sent(c, r, "commit")
<1>0. "commit" \in Kinds /\ "commit" \in Finals
  BY DEF Kinds, Finals
<1>1. CASE ~completed'[r]
  BY <1>1, Stays
<1>2. CASE Sent(c, r, "commit")'
  <2>1. ASSUME NEW a \in Args, Posts(c, r, "commit", a)
        PROVE  ~completed[r] /\ wrote[r] \in {"no", "ok"}
    <3>1. Finishes(r, "commit", a)
      BY <1>0, <2>1, SendsHow DEF Posts
    <3> QED BY <3>1 DEF Finishes, IsCompleted, Line
  <2> QED BY <1>0, <1>2, <2>1, SentBefore
<1> QED BY <1>1, <1>2

LEMMA AbortedGoesQuiet ==
  ASSUME IInv, SessionInv, CarefulInv, Disciplined, [Next]_vars, NEW c \in Conn, Quiet(c),
         OwnerIs(c), AbortedGoes(c)
  PROVE  AbortedGoes(c)'
<1>0. {"release", "rollbackTo", "commit", "query"} \subseteq Kinds
  BY DEF Kinds
<1>1. PICK s : s = sess[c]
  OBVIOUS
<1>2. sess'[c] = s
  BY <1>1, QuietServer
<1>3. PICK r : r = s.owner
  OBVIOUS
<1>4. SUFFICES ASSUME s.aborted, r # NoTrx, Running(r)', ~completed'[r] \/ Sent(c, r, "commit")'
               PROVE  \E u \in Trx : Connected(u)' /\ r \in Line(u)' /\ Spoilt(c, u)' /\ Live(c, u)'
  BY <1>2, <1>3 DEF AbortedGoes
<1>5. r \in Trx /\ Connected(r) /\ conn[r] = c /\ ~IsNested(r)
  BY <1>1, <1>3, <1>4 DEF OwnerIs, IInv, TypeOK, SessionState
<1>6. Running(r)
  BY <1>4, <1>5, RunningOld
<1>7. \/ ~completed[r] /\ (completed'[r] => wrote[r] \in {"no", "ok"})
      \/ Sent(c, r, "commit")
  BY <1>4, <1>5, MayCommitBefore
<1>8. PICK u \in Trx : Connected(u) /\ r \in Line(u) /\ Spoilt(c, u) /\ Live(c, u)
  BY <1>1, <1>3, <1>4, <1>6, <1>7 DEF AbortedGoes
<1>9. conn[u] = c
  BY <1>5, <1>8, LineShares
<1>10. Connected(u)' /\ r \in Line(u)' /\ Spoilt(c, u)'
  BY <1>8, Stays, SpoiltKept
<1>11. c \notin dead
  BY <1>1, <1>3, <1>4 DEF SessionInv, Orderly, DeadIsIdle
<1>12. CASE Sent(c, u, "release") \/ Sent(c, u, "rollbackTo")
  <2>1. Sent(c, u, "release")' \/ Sent(c, u, "rollbackTo")'
    BY <1>0, <1>12, QuietQueues
  <2> QED BY <1>10, <2>1 DEF Live
<1>13. CASE ~completed[u]
  <2>1. CASE ~completed'[u]
    BY <1>10, <2>1 DEF Live
  <2>2. CASE completed'[u]
    <3>1. wrote[u] = "failed"
      BY <1>8, <1>9, <1>13, <2>2, SpoiltEnds
    <3>2. PICK k \in {"rollback", "rollbackTo"}, a \in Args : Finishes(u, k, a) /\ Posts(c, u, k, a)
      BY <1>8, <1>9, <1>13, <2>2, SpoiltEnds
    <3>3. k # "rollback"
      <4>1. SUFFICES ASSUME k = "rollback" PROVE FALSE
        OBVIOUS
      <4>2. ~IsNested(u)
        BY <3>2, <4>1 DEF Finishes, Inner
      <4>3. u = r
        BY <1>5, <1>8, <4>2 DEF CarefulInv, Tree, Line
      <4>4. Sent(c, r, "commit")
        BY <1>7, <2>2, <3>1, <4>3
      <4>5. completed[r]
        BY <1>0, <1>5, <4>4, OnItsWay DEF Flies
      <4> QED BY <1>13, <4>3, <4>5
    <3>4. Sent(c, u, "rollbackTo")'
      BY <1>0, <1>11, <3>2, <3>3, PostedSent
    <3> QED BY <1>10, <3>4 DEF Live
  <2> QED BY <2>1, <2>2
<1> QED BY <1>8, <1>12, <1>13 DEF Live

\* Which failure aborts a session that may still commit: a write's.
LEMMA NewlyAborted ==
  ASSUME IInv, SessionInv, CarefulInv, NEW c \in Conn, OwnerIs(c), HasNeeded(c), AbortedGoes(c),
         NEW m, NEW ok, Runs(c, m, ok),
         Stalls(sess[c], sess'[c], m.kind, m.trx, ok), ~sess[c].aborted, sess'[c].aborted,
         NEW r \in Trx, r = sess[c].owner, Running(r), ~completed[r] \/ Sent(c, r, "commit")'
  PROVE  m.kind = "query"
<1>0. Opening \subseteq Kinds /\ "commit" \in Kinds
  BY DEF Kinds, Opening
<1>1. m.trx \in Trx /\ Connected(m.trx) /\ conn[m.trx] = c /\ m.kind \in Kinds /\ ok = FALSE
  BY DEF Runs, Stalls
<1>2. r # NoTrx /\ ~IsNested(r) /\ conn[r] = c
  BY SessionAssumption DEF OwnerIs
<1>3. ASSUME m.kind \in Opening
      PROVE  FALSE
  <2>1. Running(m.trx) /\ ~completed[m.trx] /\ Sent(c, m.trx, m.kind)
    BY <1>3 DEF Runs, Flies, Opening
  <2>2. ~IsNested(m.trx)
    BY <1>3 DEF Runs, Sender, Opening, Inner
  <2>3. m.trx # r
    BY <1>1, <1>3, <2>1 DEF OwnerIs, Opening
  <2>4. m.trx \in Line(r) \/ r \in Line(m.trx)
    BY <1>1, <1>2, <2>1 DEF CarefulInv, OneLine
  <2> QED BY <1>1, <1>2, <2>2, <2>3, <2>4 DEF CarefulInv, RootsAlone, Line
<1>4. m.kind # "savepoint"
  BY <1>2 DEF Stalls
<1>5. ASSUME m.kind = "commit"
      PROVE  FALSE
  <2>1. r = m.trx /\ Running(m.trx) /\ completed[m.trx]
    BY <1>1, <1>5 DEF OwnerIs, Runs, Flies
  <2>2. chan'[c] = <<>>
    BY <2>1 DEF Runs
  <2>3. ~Sent(c, r, "commit")'
    BY <2>2, ListsEmpty DEF Sent
  <2> QED BY <2>1, <2>3
<1>6. m.kind \notin {"release", "rollbackTo"}
  BY LeavesOwn DEF Stalls
<1>7. m.kind # "rollback"
  BY DEF Stalls
<1> QED BY <1>1, <1>3, <1>4, <1>5, <1>6, <1>7 DEF Kinds, Opening

LEMMA AbortedGoesRuns ==
  ASSUME IInv, SessionInv, CarefulInv, Disciplined, [Next]_vars, NEW c \in Conn,
         OwnerIs(c), HasNeeded(c), AbortedGoes(c), NEW m, NEW ok, Runs(c, m, ok)
  PROVE  AbortedGoes(c)'
<1>0. {"release", "rollbackTo", "commit", "query"} \subseteq Kinds
  BY DEF Kinds
<1>1. PICK s \in SessionState : s = sess[c]
  BY DEF IInv, TypeOK
<1>2. PICK z \in SessionState : z = sess'[c]
  BY InvariantStep DEF IInv, TypeOK
<1>3. PICK r : r = z.owner
  OBVIOUS
<1>4. SUFFICES ASSUME z.aborted, r # NoTrx, Running(r)', ~completed'[r] \/ Sent(c, r, "commit")'
               PROVE  \E u \in Trx : Connected(u)' /\ r \in Line(u)' /\ Spoilt(c, u)' /\ Live(c, u)'
  BY <1>2, <1>3 DEF AbortedGoes
<1>5. ServerDoes(s, z, m.kind, m.trx, ok)
  BY <1>1, <1>2, RunDoes
<1>6. s.owner = NoTrx => ~s.aborted
  BY <1>1 DEF OwnerIs, IdleSession
<1>7. Stalls(s, z, m.kind, m.trx, ok)
  <2>1. ~Clears(s, z, m.kind, ok)
    BY <1>4 DEF Clears, IdleSession
  <2>2. ~Opened(s, z, m.kind, m.trx)
    BY <1>4, <1>6 DEF Opened
  <2>3. z.aborted # FALSE
    BY <1>4
  <2>4. ~Sets(s, z, m.kind, m.trx) /\ ~Writes(s, z, m.kind, m.trx)
    BY <2>3 DEF Sets, Writes
  <2>5. ~Unsets(s, z, m.kind, m.trx) /\ ~GoesBack(s, z, m.kind, m.trx)
    BY <2>3 DEF Unsets, GoesBack
  <2> QED BY <1>5, <2>1, <2>2, <2>4, <2>5 DEF ServerDoes
<1>8. r = s.owner /\ r \in Trx
  BY <1>3, <1>4, <1>7 DEF Stalls, KeepsData, SessionState
<1>9. Running(r) /\ (~completed[r] \/ Sent(c, r, "commit")')
  BY <1>4, <1>8 DEF Runs, Untouched, Running
<1>10. \A u \in Trx : /\ Connected(u) => Connected(u)'
                      /\ Line(u)' = Line(u) /\ completed'[u] = completed[u]
                      /\ Spoilt(c, u) => Spoilt(c, u)'
  <2>1. \A u \in Trx : Denied(c, u, "query") => Denied(c, u, "query")'
    BY <1>0 DEF Runs
  <2> QED BY <2>1 DEF Runs, Untouched, SameTree, Connected, Line, Spoilt
<1>11. CASE s.aborted
  <2>1. ~completed[r] \/ Sent(c, r, "commit")
    BY <1>0, <1>8, <1>9 DEF Runs
  <2>2. PICK u \in Trx : Connected(u) /\ r \in Line(u) /\ Spoilt(c, u) /\ Live(c, u)
    BY <1>1, <1>4, <1>8, <1>9, <1>11, <2>1 DEF AbortedGoes
  <2>3. m.kind \notin {"release", "rollbackTo"}
    <3>1. m.kind # "release"
      BY <1>1, <1>11, CleanKeep
    <3>2. m.kind # "rollbackTo"
      BY <1>1, <1>7, LeavesOwn DEF Stalls
    <3> QED BY <3>1, <3>2
  <2>4. \A k \in {"release", "rollbackTo"} : Sent(c, u, k) => Sent(c, u, k)'
    BY <1>0, <2>3 DEF Runs
  <2>5. Live(c, u)'
    BY <1>10, <2>2, <2>4 DEF Live
  <2> QED BY <1>10, <2>2, <2>5
<1>12. CASE ~s.aborted
  <2>1. m.kind = "query"
    BY <1>1, <1>2, <1>4, <1>7, <1>8, <1>9, <1>12, NewlyAborted
  <2>2. m.trx \in Trx /\ Connected(m.trx) /\ ~completed[m.trx] /\ r \in Line(m.trx)
    BY <1>1, <1>8, <2>1 DEF Runs, Flies, Inner
  <2>3. ok = FALSE
    BY <1>4, <1>7, <1>12 DEF Stalls
  <2>4. Denied(c, m.trx, "query")'
    BY <1>0, <2>1, <2>2, <2>3 DEF Runs
  <2> QED BY <1>10, <2>2, <2>4 DEF Spoilt, Live
<1> QED BY <1>11, <1>12

LEMMA AbortedGoesStep ==
  ASSUME IInv, SessionInv, CarefulInv, Disciplined, [Next]_vars, NEW c \in Conn,
         OwnerIs(c), HasNeeded(c), AbortedGoes(c)
  PROVE  AbortedGoes(c)'
<1>1. CASE Execute(c)
  <2>1. PICK m \in Request, ok \in BOOLEAN : Runs(c, m, ok)
    BY <1>1, RunIs
  <2> QED BY <2>1, AbortedGoesRuns
<1>2. CASE Disconnect(c)
  BY <1>2, LostQueues DEF AbortedGoes, IdleSession
<1>3. CASE Quiet(c)
  BY <1>3, AbortedGoesQuiet
<1> QED BY <1>1, <1>2, <1>3 DEF Quiet

-----------------------------------------------------------------------------
(* What was acknowledged is kept *)

\* A top-level transaction whose connection was lost and is replaced is over.
LEMMA RevivedOver ==
  ASSUME IInv, SessionInv, CarefulInv, [Next]_vars, NEW c \in Conn, Quiet(c),
         c \in dead, c \notin dead', NEW r \in Trx, ~IsNested(r), Connected(r), conn[r] = c
  PROVE  exec[r] \in Unkept \cup {"committed"}
<1>1. c \in free
  BY RevivedIdle
<1>2. life[r] # "open"
  BY <1>1 DEF IInv, ConnectionOwnership, IsRoot, IsNested, Connected
<1>3. exec[r] # "pending" /\ exec[r] # "none" /\ exec[r] \in Outcomes
  BY <1>2 DEF IInv, LifeCycle, Connected, TypeOK
<1> QED BY <1>3 DEF Outcomes, Unkept

LEMMA AckedKeptQuiet ==
  ASSUME IInv, SessionInv, CarefulInv, Disciplined, [Next]_vars, NEW c \in Conn, ~Execute(c),
         AckedKept(c)
  PROVE  AckedKept(c)'
<1>1. SUFFICES ASSUME NEW t \in Trx, Connected(t)', conn'[t] = c, Acked(c, t)',
                      \A a \in Line(t)' : ~Failing(c, a)',
                      NEW r \in Line(t)', ~IsNested(r)'
               PROVE  /\ Confirmed(c, r)' => t \in durable'
                      /\ ~Confirmed(c, r)' /\ c \notin dead' => t \in sess'[c].writes
  BY DEF AckedKept
<1>2. Connected(t) /\ conn[t] = c /\ Acked(c, t)
  BY <1>1, AckedBefore
<1>3. Line(t)' = Line(t)
  BY <1>2, Stays
<1>4. \A a \in Line(t) : a \in Trx /\ Connected(a) /\ conn[a] = c
  BY <1>2, LineShares
<1>5. \A a \in Line(t) : ~Failing(c, a)
  BY <1>1, <1>3, <1>4, FailingKept
<1>6. r \in Line(t) /\ r \in Trx /\ Connected(r) /\ conn[r] = c
  BY <1>1, <1>3, <1>4
<1>7. ~IsNested(r)
  BY <1>1, <1>6, Stays
<1>8. /\ Confirmed(c, r) => t \in durable
      /\ ~Confirmed(c, r) /\ c \notin dead => t \in sess[c].writes
  BY <1>2, <1>5, <1>6, <1>7 DEF AckedKept
<1>9. Confirmed(c, r)' => Confirmed(c, r)
  BY <1>6, <1>7, ConfirmedBefore
<1>10. durable \subseteq durable'
  BY DurableGrows
<1>11. ASSUME ~Confirmed(c, r)', c \notin dead'
       PROVE  t \in sess'[c].writes
  <2>1. ~Disconnect(c) /\ Quiet(c)
    BY <1>11, LostQueues DEF Quiet
  <2>2. ~Confirmed(c, r)
    BY <1>6, <1>11, <2>1, ConfirmedKept
  <2>3. c \notin dead
    BY <1>5, <1>6, <1>7, <1>11, <2>1, <2>2, RevivedOver DEF Failing, Confirmed
  <2> QED BY <1>8, <2>1, <2>2, <2>3, QuietServer
<1> QED BY <1>8, <1>9, <1>10, <1>11

\* What is in a session stays there or becomes durable, until somebody around
\* gives up.
LEMMA WriteKept ==
  ASSUME IInv, SessionInv, CarefulInv, NEW c \in Conn,
         OwnerIs(c), Writers(c), Marks(c), NEW m, NEW ok, Runs(c, m, ok),
         NEW t \in sess[c].writes, t \in Trx,
         NEW r \in Line(t), ~IsNested(r), ~Confirmed(c, r)',
         \A a \in Line(t) : ~Failing(c, a) /\ ~Failing(c, a)'
  PROVE  t \in sess'[c].writes
<1>0. {"commit", "rollback", "rollbackTo"} \subseteq Kinds
  BY DEF Kinds
<1>1. PICK s \in SessionState : s = sess[c]
  BY DEF IInv, TypeOK
<1>2. PICK z : z = sess'[c]
  OBVIOUS
<1>3. ServerDoes(s, z, m.kind, m.trx, ok)
  BY <1>1, <1>2, RunDoes
<1>4. t \in s.writes
  BY <1>1
<1>5. s.owner # NoTrx
  BY <1>1, <1>4 DEF OwnerIs, IdleSession
<1>6. ~Clears(s, z, m.kind, ok)
  <2>1. SUFFICES ASSUME Clears(s, z, m.kind, ok) PROVE FALSE
    OBVIOUS
  <2>2. m.kind \in {"commit", "rollback"} /\ Sent(c, m.trx, m.kind) /\ m.trx \in Trx
    BY <2>1 DEF Clears, Ending, Runs
  <2>3. s.owner = m.trx
    BY <1>1, <2>2 DEF OwnerIs
  <2>4. ~IsNested(m.trx) /\ m.trx \in Line(t)
    BY <1>1, <1>5, <2>3 DEF OwnerIs, Writers
  <2>5. m.trx = r
    BY <2>4 DEF CarefulInv, Tree
  <2>6. CASE m.kind = "rollback"
    <3>1. Flies(r, "rollback")
      BY <2>5, <2>6 DEF Runs
    <3> QED BY <3>1 DEF Flies, Failing
  <2>7. CASE m.kind = "commit"
    <3>1. /\ Granted(c, r, "commit")' <=> Granted(c, r, "commit") \/ ok
          /\ Denied(c, r, "commit")' <=> Denied(c, r, "commit") \/ ~ok
      BY <1>0, <2>2, <2>5, <2>7 DEF Runs
    <3>2. Granted(c, r, "commit")' \/ Denied(c, r, "commit")'
      BY <3>1
    <3> QED BY <3>2 DEF Confirmed, Failing
  <2> QED BY <2>2, <2>6, <2>7
<1>7. CASE Stalls(s, z, m.kind, m.trx, ok)
  BY <1>2, <1>4, <1>7 DEF Stalls, KeepsData
<1>8. CASE Opened(s, z, m.kind, m.trx)
  BY <1>5, <1>8 DEF Opened
<1>9. CASE Sets(s, z, m.kind, m.trx)
  BY <1>2, <1>4, <1>9 DEF Sets
<1>10. CASE Writes(s, z, m.kind, m.trx)
  BY <1>2, <1>4, <1>5, <1>10 DEF Writes
<1>11. CASE Unsets(s, z, m.kind, m.trx)
  BY <1>2, <1>4, <1>11 DEF Unsets
<1>12. CASE GoesBack(s, z, m.kind, m.trx)
  <2>1. PICK n \in DOMAIN s.marks : s.marks[n].sp = m.trx /\ z.writes = s.marks[n].before
    BY <1>12 DEF GoesBack
  <2>2. MarkSplits(c, s.marks[n])
    BY <1>1, <2>1 DEF Marks, Separated
  <2>3. m.kind = "rollbackTo" /\ Sent(c, m.trx, "rollbackTo") /\ Flies(m.trx, "rollbackTo")
    BY <1>12 DEF GoesBack, Runs
  <2>4. Failing(c, m.trx)
    BY <2>3 DEF Flies, Failing
  <2>5. m.trx \notin Line(t)
    BY <2>4
  <2>6. t \in s.marks[n].before
    BY <1>1, <1>4, <2>1, <2>2, <2>3, <2>5 DEF MarkSplits, Live
  <2> QED BY <1>2, <2>1, <2>6
<1> QED BY <1>3, <1>6, <1>7, <1>8, <1>9, <1>10, <1>11, <1>12 DEF ServerDoes

\* A write that is answered now is in the session, and its transaction is not
\* committed yet.
LEMMA WriteNew ==
  ASSUME IInv, SessionInv, CarefulInv, NEW c \in Conn, OwnerIs(c),
         NEW m, NEW ok, Runs(c, m, ok), m.kind = "query", ok,
         NEW r \in Line(m.trx), ~IsNested(r)
  PROVE  ~Confirmed(c, r)' /\ m.trx \in sess'[c].writes
<1>0. {"commit", "query"} \subseteq Kinds
  BY DEF Kinds
<1>1. m.trx \in Trx /\ Connected(m.trx) /\ Running(m.trx) /\ ~completed[m.trx]
  BY DEF Runs, Flies
<1>2. exec[r] = "pending" /\ ~Granted(c, r, "commit")
  <2>1. CASE r = m.trx
    <3>1. Granted(c, r, "commit") => completed[r]
      BY <1>0, <1>1, <2>1, OnItsWay DEF Flies
    <3> QED BY <1>1, <2>1, <3>1 DEF Running
  <2>2. CASE r \in anc[m.trx]
    BY <1>1, <2>2, AroundSound
  <2> QED BY <2>1, <2>2 DEF Line
<1>3. r \in Trx
  BY <1>1, LineShares
<1>4. ~Confirmed(c, r)'
  <2>1. Granted(c, r, "commit")' => Granted(c, r, "commit")
    BY <1>0, <1>3 DEF Runs
  <2>2. exec'[r] = exec[r]
    BY <1>3 DEF Runs, Untouched
  <2> QED BY <1>2, <2>1, <2>2 DEF Confirmed
<1>5. PICK s : s = sess[c]
  OBVIOUS
<1>6. PICK z : z = sess'[c]
  OBVIOUS
<1>7. ServerDoes(s, z, m.kind, m.trx, ok)
  BY <1>5, <1>6, RunDoes
<1>8. s.owner # NoTrx
  <2>1. s.owner \in Line(m.trx)
    BY <1>5 DEF Runs, Inner
  <2>2. s.owner \in Trx
    BY <1>1, <2>1, LineShares
  <2> QED BY <2>2, SessionAssumption
<1>9. Writes(s, z, m.kind, m.trx)
  BY <1>7 DEF ServerDoes, Stalls, Clears, Ending, Opened, Sets, Unsets, GoesBack
<1> QED BY <1>4, <1>6, <1>8, <1>9 DEF Writes

LEMMA AckedKeptRuns ==
  ASSUME IInv, SessionInv, CarefulInv, Disciplined, [Next]_vars, NEW c \in Conn,
         OwnerIs(c), Writers(c), Marks(c), AbortedGoes(c), AckedKept(c),
         NEW m, NEW ok, Runs(c, m, ok)
  PROVE  AckedKept(c)'
<1>0. {"commit", "query"} \subseteq Kinds
  BY DEF Kinds
<1>1. SUFFICES ASSUME NEW t \in Trx, Connected(t)', conn'[t] = c, Acked(c, t)',
                      \A a \in Line(t)' : ~Failing(c, a)',
                      NEW r \in Line(t)', ~IsNested(r)'
               PROVE  /\ Confirmed(c, r)' => t \in durable'
                      /\ ~Confirmed(c, r)' /\ c \notin dead' => t \in sess'[c].writes
  BY DEF AckedKept
<1>2. Connected(t) /\ conn[t] = c /\ Line(t)' = Line(t)
  BY <1>1 DEF Runs, Untouched, SameTree, Connected, Line
<1>3. \A a \in Line(t) : a \in Trx /\ Connected(a) /\ conn[a] = c
  BY <1>2, LineShares
<1>4. \A a \in Line(t) : ~Failing(c, a) /\ ~Failing(c, a)'
  BY <1>1, <1>2, <1>3, FailingKept
<1>5. r \in Line(t) /\ r \in Trx /\ ~IsNested(r)
  BY <1>1, <1>2, <1>3 DEF Runs, SameTree, IsNested
<1>6. Acked(c, t) \/ (m.trx = t /\ m.kind = "query" /\ ok)
  <2>1. Granted(c, t, "query")' => Granted(c, t, "query") \/ (m.trx = t /\ m.kind = "query" /\ ok)
    BY <1>0 DEF Runs
  <2>2. wrote'[t] = wrote[t]
    BY DEF Runs, Untouched
  <2> QED BY <1>1, <2>1, <2>2 DEF Acked
<1>7. CASE m.trx = t /\ m.kind = "query" /\ ok
  BY <1>5, <1>7, WriteNew
<1>8. CASE Acked(c, t)
  <2>1. /\ Confirmed(c, r) => t \in durable
        /\ ~Confirmed(c, r) => t \in sess[c].writes
    BY <1>2, <1>4, <1>5, <1>8 DEF AckedKept, Runs
  <2>2. Confirmed(c, r) => Confirmed(c, r)'
    BY <1>3, <1>5, ConfirmedKept DEF Runs, Disconnect
  <2>3. durable \subseteq durable'
    BY DurableGrows
  <2>4. ASSUME ~Confirmed(c, r)'
        PROVE  t \in sess'[c].writes
    BY <1>4, <1>5, <2>1, <2>2, <2>4, WriteKept
  <2>5. ASSUME Confirmed(c, r)', ~Confirmed(c, r)
        PROVE  t \in durable'
    <3>1. m.trx = r /\ m.kind = "commit" /\ ok
      <4>1. Granted(c, r, "commit")' => Granted(c, r, "commit") \/ (m.trx = r /\ m.kind = "commit" /\ ok)
        BY <1>0, <1>5 DEF Runs
      <4>2. exec'[r] = exec[r]
        BY <1>5 DEF Runs, Untouched
      <4> QED BY <2>5, <4>1, <4>2 DEF Confirmed
    <3>2. ~sess[c].aborted
      BY <3>1, CleanKeep
    <3>3. MadeDurable(sess[c], m.kind, m.trx) = sess[c].writes
      BY <3>1, <3>2 DEF MadeDurable
    <3>4. durable' = durable \cup MadeDurable(sess[c], m.kind, m.trx)
      BY <3>1 DEF Runs
    <3> QED BY <2>1, <2>5, <3>3, <3>4
  <2> QED BY <2>1, <2>2, <2>3, <2>4, <2>5
<1> QED BY <1>6, <1>7, <1>8

LEMMA AckedKeptStep ==
  ASSUME IInv, SessionInv, CarefulInv, Disciplined, [Next]_vars, NEW c \in Conn,
         OwnerIs(c), Writers(c), Marks(c), AbortedGoes(c), AckedKept(c)
  PROVE  AckedKept(c)'
<1>1. CASE Execute(c)
  <2>1. PICK m \in Request, ok \in BOOLEAN : Runs(c, m, ok)
    BY <1>1, RunIs
  <2> QED BY <2>1, AckedKeptRuns
<1>2. CASE ~Execute(c)
  BY <1>2, AckedKeptQuiet
<1> QED BY <1>1, <1>2

-----------------------------------------------------------------------------
(* What is durable was committed *)

\* Faults are counted and not forgotten.
LEMMA FaultsGrow ==
  ASSUME IInv, [Next]_vars
  PROVE  faults' = faults \/ faults' = faults + 1
<1>1. ASSUME NEW t \in Trx, User(t) \/ Runtime(t)
      PROVE  faults' = faults
  BY <1>1 DEF User, Runtime, NewTransaction, NewNested, ContainerSettles, UserFinishes,
     UserQuery, AcquireConnection, AcquireFail, InvokeContainer, RollbackTimeout, Release, server
<1>2. ASSUME NEW c \in Conn, Network(c)
      PROVE  faults' = faults \/ faults' = faults + 1
  BY <1>2 DEF Network, Execute, Deliver, Disconnect, ReplaceConnection, server
<1>3. CASE UNCHANGED vars
  BY <1>3 DEF vars, server
<1> QED BY <1>1, <1>2, <1>3 DEF Next

\* What is durable stays so, as do the commits around it.
LEMMA PermanentOld ==
  ASSUME IInv, SessionInv, CarefulInv, CarefulInv', Disciplined, [Next]_vars, Permanent,
         NEW w \in durable
  PROVE  Connected(w)' /\ \A a \in Line(w)' : Commits(a)'
<1>0. "commit" \in Kinds
  BY DEF Kinds
<1>1. w \in Trx /\ Connected(w)
  BY DEF IInv, TypeOK, Permanent
<1>2. Connected(w)' /\ Line(w)' = Line(w)
  BY <1>1, Stays
<1>3. SUFFICES ASSUME NEW a \in Line(w)
               PROVE  Commits(a)'
  BY <1>2
<1>4. a \in Trx /\ Connected(a) /\ conn[a] \in Conn
  BY <1>1, LineShares DEF IInv, ConnectionSource
<1>5. IsNested(a)' = IsNested(a) /\ conn'[a] = conn[a]
  BY <1>4, Stays
<1>6. CASE exec[a] = "committed"
  BY <1>4, <1>6, SettledStays DEF Commits
<1>7. CASE ~IsNested(a) /\ (faults # 0 \/ \E c \in Conn : Disconnect(c))
  <2>1. faults' # 0
    <3>1. faults \in Nat
      BY DEF IInv, TypeOK
    <3>2. faults' = faults \/ faults' = faults + 1
      BY FaultsGrow
    <3>3. (\E c \in Conn : Disconnect(c)) => faults' = faults + 1
      BY DEF Disconnect
    <3> QED BY <1>7, <3>1, <3>2, <3>3
  <2> QED BY <1>5, <1>7, <2>1 DEF Commits
<1>8. CASE /\ ~IsNested(a) /\ Granted(conn[a], a, "commit")
           /\ ~\E c \in Conn : Disconnect(c)
  <2>1. PICK c \in Conn : c = conn[a]
    BY <1>4
  <2>2. CASE Granted(c, a, "commit")'
    <3>1. Carries(c, a, "commit")'
      BY <2>2 DEF Granted, Carries, Tells, Lists
    <3>2. InFlight(c)'
      BY <2>1 DEF CarefulInv, Queue
    <3>3. Flies(a, "commit")'
      BY <1>0, <1>4, <3>1, <3>2 DEF InFlight
    <3>4. Running(a)'
      BY <3>3 DEF Flies
    <3>5. ~IsNested(a)' /\ conn'[a] = c
      BY <1>5, <1>8, <2>1
    <3> QED BY <2>2, <3>4, <3>5 DEF Commits, Granted
  <2>3. ASSUME NEW m \in Answer, m.trx = a, m.kind = "commit", m.ok, Gets(c, m)
        PROVE  Commits(a)'
    BY <1>4, <2>3, AnswerSettles DEF Commits
  <2> QED BY <1>0, <1>4, <1>8, <2>1, <2>2, <2>3, ToldAfter
<1> QED BY <1>1, <1>6, <1>7, <1>8 DEF Permanent, Commits

\* What a COMMIT makes durable was written inside transactions that committed.
LEMMA PermanentNew ==
  ASSUME IInv, SessionInv, CarefulInv, Disciplined, [Next]_vars, NEW c \in Conn,
         OwnerIs(c), Writers(c), FailedGoes(c),
         NEW m, NEW ok, Runs(c, m, ok), NEW w \in durable' \ durable
  PROVE  Connected(w)' /\ \A a \in Line(w)' : Commits(a)'
<1>0. {"commit", "rollbackTo"} \subseteq Kinds
  BY DEF Kinds
<1>1. ok /\ w \in MadeDurable(sess[c], m.kind, m.trx)
  BY DEF Runs
<1>2. m.kind = "commit" /\ w \in sess[c].writes
  <2>1. m.kind = "query" => sess[c].owner # NoTrx
    <3>1. SUFFICES ASSUME m.kind = "query" PROVE sess[c].owner # NoTrx
      OBVIOUS
    <3>2. sess[c].owner \in Line(m.trx) /\ m.trx \in Trx /\ Connected(m.trx)
      BY <3>1 DEF Runs, Inner
    <3>3. sess[c].owner \in Trx
      BY <3>2, LineShares
    <3> QED BY <3>3, SessionAssumption
  <2>2. CASE m.kind = "commit" /\ ~sess[c].aborted
    BY <1>1, <2>2 DEF MadeDurable
  <2>3. CASE ~(m.kind = "commit" /\ ~sess[c].aborted)
    BY <1>1, <2>1, <2>3 DEF MadeDurable
  <2> QED BY <2>2, <2>3
<1>3. PICK r \in Trx : r = m.trx
  BY DEF Runs
<1>4. Running(r) /\ completed[r] /\ sess[c].owner = r /\ conn[r] = c /\ chan'[c] = <<>>
  BY <1>2, <1>3 DEF Runs, Flies, OwnerIs
<1>5. ~IsNested(r)
  BY <1>2, <1>3 DEF Runs, Sender, Inner
<1>6. w \in Trx /\ Connected(w) /\ conn[w] = c /\ r \in Line(w)
  BY <1>2, <1>4 DEF Writers, IInv, TypeOK, SessionState
<1>7. Connected(w)' /\ Line(w)' = Line(w)
  BY <1>6, Stays
<1>8. SUFFICES ASSUME NEW a \in Line(w)
               PROVE  Commits(a)'
  BY <1>7
<1>9. a \in Trx /\ Connected(a) /\ r \in Line(a)
  BY <1>5, <1>6, LineShares
<1>10. exec'[a] = exec[a] /\ conn'[a] = conn[a] /\ IsNested(a)' = IsNested(a) /\ Running(a)' = Running(a)
  BY <1>9 DEF Runs, Untouched, SameTree, Running, IsNested
<1>11. CASE ~IsNested(a)
  <2>1. a = r
    BY <1>5, <1>9, <1>11 DEF CarefulInv, RootsAlone, Line
  <2>2. Granted(c, r, "commit")'
    BY <1>0, <1>1, <1>2, <1>3 DEF Runs
  <2>3. conn'[a] = c /\ Running(a)' /\ ~IsNested(a)'
    BY <1>4, <1>10, <1>11, <2>1
  <2> QED BY <2>1, <2>2, <2>3 DEF Commits, Granted
<1>12. CASE IsNested(a)
  <2>1. ~Running(a)
    <3>1. r \in anc[a]
      BY <1>5, <1>9, <1>12 DEF Line
    <3> QED BY <1>4, <1>9, <3>1, AroundSound
  <2>2. exec[a] # "pending" /\ exec[a] # "none" /\ exec[a] \in Outcomes
    BY <1>9, <2>1 DEF IInv, LifeCycle, TypeOK, Connected, Running
  <2>3. exec[a] \notin Unkept
    <3>1. SUFFICES ASSUME exec[a] \in Unkept PROVE FALSE
      OBVIOUS
    <3>2. Failing(c, a)
      BY <3>1 DEF Failing
    <3>3. sess[c].owner # NoTrx
      BY <1>4, SessionAssumption
    <3>4. Sent(c, a, "rollbackTo")
      BY <1>2, <1>4, <1>12, <3>2, <3>3 DEF FailedGoes
    <3>5. Sent(c, a, "rollbackTo")'
      BY <1>0, <1>2, <1>9, <3>4 DEF Runs
    <3> QED BY <1>4, <3>5, ListsEmpty DEF Sent
  <2> QED BY <1>10, <2>2, <2>3 DEF Outcomes, Unkept, Commits
<1> QED BY <1>11, <1>12

LEMMA PermanentStep ==
  ASSUME IInv, SessionInv, CarefulInv, CarefulInv', ServerInv, Disciplined, [Next]_vars,
         DurableInv
  PROVE  Permanent'
<1>1. SUFFICES ASSUME NEW w \in durable'
               PROVE  Connected(w)' /\ \A a \in Line(w)' : Commits(a)'
  BY DEF Permanent
<1>2. CASE w \in durable
  BY <1>2, PermanentOld DEF DurableInv
<1>3. CASE w \notin durable
  <2>1. PICK c \in Conn, m \in Request, ok \in BOOLEAN : Runs(c, m, ok)
    BY <1>1, <1>3, DurableGrows
  <2> QED BY <1>1, <1>3, <2>1, PermanentNew DEF DurableInv, ServerInv
<1> QED BY <1>2, <1>3

-----------------------------------------------------------------------------
(* The theorems *)

LEMMA DurableInvStep ==
  ASSUME IInv, SessionInv, CarefulInv, CarefulInv', ServerInv, Disciplined, [Next]_vars,
         DurableInv
  PROVE  DurableInv'
<1>1. \A c \in Conn : HasNeeded(c)'
  BY HasNeededStep DEF DurableInv, ServerInv
<1>2. \A c \in Conn : FailedGoes(c)'
  BY FailedGoesStep DEF DurableInv, ServerInv
<1>3. \A c \in Conn : AbortedGoes(c)'
  BY AbortedGoesStep DEF DurableInv, ServerInv
<1>4. \A c \in Conn : AckedKept(c)'
  BY AckedKeptStep DEF DurableInv, ServerInv
<1> QED BY <1>1, <1>2, <1>3, <1>4, PermanentStep DEF DurableInv

LEMMA InitDurable == Init => DurableInv
<1> SUFFICES ASSUME Init PROVE DurableInv
  OBVIOUS
<1>1. \A t \in Trx : ~Connected(t)
  BY DEF Init, Connected
<1>2. Permanent
  BY DEF Init, Permanent
<1>3. ASSUME NEW c \in Conn
      PROVE  sess[c].owner = NoTrx
  BY DEF Init, IdleSession
<1>4. ASSUME NEW c \in Conn
      PROVE  HasNeeded(c) /\ AckedKept(c)
  BY <1>1 DEF HasNeeded, AckedKept
<1>5. ASSUME NEW c \in Conn
      PROVE  FailedGoes(c) /\ AbortedGoes(c)
  BY <1>3 DEF FailedGoes, AbortedGoes
<1> QED BY <1>2, <1>4, <1>5 DEF DurableInv

\* Of careful callers: who needs a savepoint finds it; what fails is undone
\* before the top-level transaction commits; what was acknowledged is kept; and
\* what is durable was committed all the way up.
THEOREM DurableInductive ==
  ASSUME Disciplined
  PROVE  Spec => []DurableInv
<1>1. Init => DurableInv
  BY InitDurable
<1>2. /\ IInv /\ SessionInv /\ CarefulInv /\ CarefulInv' /\ ServerInv
      /\ DurableInv /\ [Next]_vars
      => DurableInv'
  BY DurableInvStep
<1> QED BY CarefulInductive, ServerInductive, <1>1, <1>2, PTL DEF Spec

\* A write that was acknowledged, of a transaction that resolved by commit
\* inside transactions that all did, is durable.
THEOREM CommitsAreDurable ==
  ASSUME Disciplined
  PROVE  Spec => []CommittedIsDurable
<1>1. ASSUME IInv, CarefulInv, DurableInv, NEW t \in Trx, wrote[t] = "ok",
             \A a \in Line(t) : exec[a] = "committed"
      PROVE  t \in durable
  <2>0. {"commit", "release"} \subseteq Kinds
    BY DEF Kinds
  <2>1. Connected(t)
    BY <1>1 DEF CarefulInv, Flags
  <2>2. PICK c \in Conn : c = conn[t]
    BY <1>1, <2>1 DEF IInv, ConnectionSource
  <2>3. Acked(c, t)
    BY <1>1 DEF Acked
  <2>4. ASSUME NEW a \in Line(t)
        PROVE  ~Failing(c, a)
    <3>1. a \in Trx /\ exec[a] = "committed"
      BY <1>1, <2>1, LineShares
    <3>2. timer[a] = "off"
      BY <1>1, <3>1 DEF CarefulInv, Flags
    <3>3. \A k \in {"commit", "release"} : ~Denied(c, a, k)
      BY <1>1, <2>0, <3>1, OnItsWay DEF Flies, Running
    <3> QED BY <3>1, <3>2, <3>3 DEF Failing, Unkept
  <2>5. PICK r \in Line(t) : ~IsNested(r)
    BY <1>1, <2>1 DEF IInv, Rooted, IsRoot, IsNested, Connected
  <2>6. Confirmed(c, r)
    BY <1>1 DEF Confirmed
  <2> QED BY <1>1, <2>1, <2>2, <2>3, <2>4, <2>5, <2>6 DEF DurableInv, AckedKept
<1>2. IInv /\ CarefulInv /\ DurableInv => CommittedIsDurable
  BY <1>1 DEF CommittedIsDurable
<1> QED BY CarefulInductive, DurableInductive, <1>2, PTL

\* A durable write belongs to a transaction that resolved by commit, like all
\* those around it; only the top-level one may still wait for the answer, or
\* have rejected because the answer got lost with the connection.
THEOREM DurablesAreCommitted ==
  ASSUME Disciplined
  PROVE  Spec => []DurableIsCommitted
<1>1. ASSUME IInv, CarefulInv, DurableInv, NEW t \in durable, NEW a \in Line(t)
      PROVE  exec[a] = "committed" \/ (IsRoot(a) /\ (exec[a] = "pending" \/ faults # 0))
  <2>1. t \in Trx /\ Connected(t) /\ Commits(a)
    BY <1>1 DEF IInv, TypeOK, DurableInv, Permanent
  <2>2. Connected(a)
    BY <1>1, <2>1, LineShares
  <2> QED BY <2>1, <2>2 DEF Commits, Running, IsRoot, IsNested, Connected
<1>2. IInv /\ CarefulInv /\ DurableInv => DurableIsCommitted
  BY <1>1 DEF DurableIsCommitted
<1> QED BY CarefulInductive, DurableInductive, <1>2, PTL

=============================================================================
