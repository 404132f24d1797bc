---------------------------- MODULE SessionProofs ----------------------------
(***************************************************************************)
(* What the transactions of module Transaction may rely on at the server:  *)
(* whose database transaction a statement runs in, and what is left on a   *)
(* connection that goes back to the pool.  For any number of transactions  *)
(* and connections, any options, callers and faults.                       *)
(***************************************************************************)
EXTENDS TransactionProofs

-----------------------------------------------------------------------------
(* The inductive invariant *)

Boundary == {"begin", "commit", "rollback"}
Inner    == {"savepoint", "query", "release", "rollbackTo"}
Opening  == {"isolation", "begin"}
Ending   == {"commit", "rollback"}

\* What init has left behind.
Underway(t) == stage[t] \in {"invoke", "pending", "detached", "settled"}

\* No statement in q begins or ends a transaction of the server.
Steady(q) == \A i \in DOMAIN q : q[i].kind \notin Boundary

\* Top-level transactions begin and end, nested ones set and leave savepoints.
\* A statement that finishes a transaction was sent by a completed one.
Sender(m) ==
  /\ m.kind # "query" => (IsNested(m.trx) <=> m.kind \in Inner)
  /\ m.kind \in Finals => completed[m.trx]

Senders(c) ==
  /\ \A i \in DOMAIN chan[c] : Sender(chan[c][i])
  /\ \A i \in DOMAIN reply[c] : Sender(reply[c][i])

\* The transactions around a nested one have come past their init.
AroundUnderway == \A t \in Trx : \A a \in anc[t] : Underway(a)

\* A lost connection has nothing under way at the server.
DeadIsIdle(c) == c \in dead => chan[c] = <<>> /\ sess[c].owner = NoTrx

\* The transaction m.trx waits for the answer to its first statements.
Opens(m) == life[m.trx] = "open" /\ stage[m.trx] = m.kind /\ ~completed[m.trx]

\* An opening statement is the last one sent on its connection, and its answer
\* the last one to come.
OpeningIsLast(c) ==
  /\ \A i \in DOMAIN chan[c] :
       chan[c][i].kind \in Opening => i = Len(chan[c]) /\ Opens(chan[c][i])
  /\ \A i \in DOMAIN reply[c] :
       reply[c][i].kind \in Opening =>
         /\ i = Len(reply[c]) /\ chan[c] = <<>> /\ Opens(reply[c][i])
         /\ reply[c][i].kind = "begin" /\ reply[c][i].ok /\ c \notin dead
              => sess[c].owner = reply[c][i].trx

\* A top-level transaction that is past its init and not completed.
Active(t) == IsRoot(t) /\ life[t] = "open" /\ Underway(t) /\ ~completed[t]

\* An open top-level transaction that has begun and is not completed owns the
\* session, and nothing on its way changes that.
HolderOwns ==
  \A r \in Trx : Active(r) /\ conn[r] \notin dead =>
    sess[conn[r]].owner = r /\ Steady(chan[conn[r]])

\* Statements inside a transaction reach the server while the session belongs
\* to it.
InnerInOwn(c) ==
  \A i \in DOMAIN chan[c] : chan[c][i].kind \in Inner =>
    /\ sess[c].owner \in Line(chan[c][i].trx)
    /\ \A j \in DOMAIN chan[c] : j < i => chan[c][j].kind \notin Boundary

Orderly(c) == Senders(c) /\ DeadIsIdle(c) /\ OpeningIsLast(c) /\ InnerInOwn(c)

SessionInv == AroundUnderway /\ HolderOwns /\ \A c \in Conn : Orderly(c)

\* A top-level transaction that waits for the answer to its first statements.
Waits(t) == ~IsNested(t) /\ life[t] = "open" /\ stage[t] \in Opening /\ ~completed[t]

\* A statement that ends the transaction of the server is on its way.
EndUnderway(c) == \E i \in DOMAIN chan[c] : chan[c][i].kind \in Ending

\* The session belongs to a top-level transaction of the connection, and once
\* that is completed, to nobody as soon as what was sent has been run.
Owned(c) ==
  LET r == sess[c].owner IN
  r # NoTrx => /\ IsRoot(r) /\ Connected(r) /\ conn[r] = c
               /\ completed[r] => EndUnderway(c)

\* The answer that BEGIN was run for t is on its way.
BeginAnswered(t) ==
  \E i \in DOMAIN reply[conn[t]] :
    /\ reply[conn[t]][i].trx = t
    /\ reply[conn[t]][i].kind = "begin" /\ reply[conn[t]][i].ok

\* Nobody owns a session before its BEGIN was run, or after it failed.
NotYetOwned(t) == Waits(t) /\ sess[conn[t]].owner = t => BeginAnswered(t)

\* Top-level transactions have nothing around them.
RootsAlone == \A t \in Trx : ~IsNested(t) => anc[t] = {}

OwnerInv ==
  RootsAlone /\ (\A c \in Conn : Owned(c)) /\ (\A t \in Trx : NotYetOwned(t))

-----------------------------------------------------------------------------
(* Sequences, position by position *)

LEMMA AppendAt ==
  ASSUME NEW S, NEW q \in Seq(S), NEW m \in S
  PROVE  /\ DOMAIN q = 1 .. Len(q) /\ Len(q) \in Nat
         /\ DOMAIN Append(q, m) = 1 .. Len(q) + 1
         /\ Len(Append(q, m)) = Len(q) + 1
         /\ \A i \in 1 .. Len(q) : Append(q, m)[i] = q[i]
         /\ Append(q, m)[Len(q) + 1] = m
BY AppendProperties, LenProperties

LEMMA TailAt ==
  ASSUME NEW S, NEW q \in Seq(S), q # <<>>
  PROVE  /\ DOMAIN q = 1 .. Len(q) /\ Len(q) \in Nat /\ Len(q) >= 1
         /\ Head(q) = q[1] /\ Head(q) \in S /\ 1 \in DOMAIN q
         /\ Tail(q) \in Seq(S)
         /\ DOMAIN Tail(q) = 1 .. Len(q) - 1
         /\ Len(Tail(q)) = Len(q) - 1
         /\ \A i \in 1 .. Len(q) - 1 : i + 1 \in DOMAIN q /\ Tail(q)[i] = q[i + 1]
<1>1. /\ DOMAIN q = 1 .. Len(q) /\ Len(q) \in Nat /\ Len(q) >= 1
  BY LenProperties, EmptySeq
<1>2. Head(q) = q[1] /\ Head(q) \in S
  BY HeadTailProperties
<1>3. /\ Tail(q) \in Seq(S) /\ Len(Tail(q)) = Len(q) - 1
      /\ \A i \in 1 .. Len(Tail(q)) : Tail(q)[i] = q[i + 1]
  BY HeadTailProperties
<1>4. DOMAIN Tail(q) = 1 .. Len(Tail(q))
  BY <1>3, LenProperties
<1> QED BY <1>1, <1>2, <1>3, <1>4

LEMMA ConcatAt ==
  ASSUME NEW S, NEW q \in Seq(S), NEW r \in Seq(S)
  PROVE  /\ DOMAIN (q \o r) = 1 .. Len(q) + Len(r) /\ Len(q \o r) = Len(q) + Len(r)
         /\ \A i \in 1 .. Len(q) : (q \o r)[i] = q[i]
         /\ \A i \in 1 .. Len(r) : (q \o r)[Len(q) + i] = r[i]
<1>1. /\ q \o r \in Seq(S) /\ Len(q \o r) = Len(q) + Len(r)
      /\ \A i \in 1 .. Len(q) + Len(r) :
           (q \o r)[i] = IF i <= Len(q) THEN q[i] ELSE r[i - Len(q)]
  BY ConcatProperties
<1>2. Len(q) \in Nat /\ Len(r) \in Nat /\ DOMAIN (q \o r) = 1 .. Len(q \o r)
  BY <1>1, LenProperties
<1>3. ASSUME NEW i \in 1 .. Len(r)
      PROVE  (q \o r)[Len(q) + i] = r[i]
  <2>1. Len(q) + i \in 1 .. Len(q) + Len(r) /\ ~(Len(q) + i <= Len(q))
        /\ (Len(q) + i) - Len(q) = i
    BY <1>2
  <2> QED BY <1>1, <2>1
<1>4. \A i \in 1 .. Len(q) : i \in 1 .. Len(q) + Len(r) /\ i <= Len(q)
  BY <1>2
<1> QED BY <1>1, <1>2, <1>3, <1>4

\* A sequence of one is its head.
LEMMA OnlyOne ==
  ASSUME NEW S, NEW q \in Seq(S), Len(q) = 1
  PROVE  Tail(q) = <<>>
<1>1. q # <<>>
  BY EmptySeq
<1>2. Tail(q) \in Seq(S) /\ Len(Tail(q)) = 0
  BY <1>1, TailAt
<1> QED BY <1>2, EmptySeq

\* What is known of the messages on a connection.
LEMMA OnTheWay ==
  ASSUME IInv, NEW c \in Conn
  PROVE  /\ chan[c] \in Seq(OnConnection(c, Request))
         /\ reply[c] \in Seq(OnConnection(c, Answer))
         /\ \A i \in DOMAIN chan[c] :
              /\ chan[c][i] \in Request /\ chan[c][i].trx \in Trx
              /\ Connected(chan[c][i].trx) /\ conn[chan[c][i].trx] = c
         /\ \A i \in DOMAIN reply[c] :
              /\ reply[c][i] \in Answer /\ reply[c][i].trx \in Trx
              /\ Connected(reply[c][i].trx) /\ conn[reply[c][i].trx] = c
<1>1. /\ chan[c] \in Seq(OnConnection(c, Request))
      /\ reply[c] \in Seq(OnConnection(c, Answer))
  BY DEF IInv, Traffic
<1>2. \A i \in DOMAIN chan[c] : chan[c][i] \in OnConnection(c, Request)
  BY <1>1, ElementOfSeq, LenProperties
<1>3. \A i \in DOMAIN reply[c] : reply[c][i] \in OnConnection(c, Answer)
  BY <1>1, ElementOfSeq, LenProperties
<1> QED BY <1>1, <1>2, <1>3 DEF OnConnection, Request, Answer

LEMMA InvariantStep == IInv /\ [Next]_vars => IInv'
BY TypeStep, LifeCycleStep, NestingStep, RootedStep, ConnectionSourceStep,
   ExternalOnceStep, TrafficStep, SettledIsCompletedStep, ConnectionOwnershipStep
   DEF IInv

-----------------------------------------------------------------------------
(* What a step leaves alone *)

\* What no step takes back: connections, the place in the tree, completion and
\* the progress of init.
Lasting ==
  \A t \in Trx : Connected(t) =>
    /\ Connected(t)' /\ conn'[t] = conn[t]
    /\ outer'[t] = outer[t] /\ anc'[t] = anc[t]
    /\ completed[t] => completed'[t]
    /\ Underway(t) => Underway(t)'

StillWaits(t) == life'[t] = "open" /\ stage'[t] = stage[t] /\ ~completed'[t]

\* A step that is no answer.
Undelivered ==
  \/ UNCHANGED vars \/ (\E t \in Trx : User(t) \/ Runtime(t))
  \/ \E c \in Conn : Execute(c) \/ Disconnect(c) \/ ReplaceConnection(c)

LEMMA StepsAre == [Next]_vars <=> Undelivered \/ \E c \in Conn : Deliver(c)
BY DEF Undelivered, Next, Network

LEMMA LastingStep ==
  ASSUME IInv, \A c \in Conn : OpeningIsLast(c), [Next]_vars
  PROVE  Lasting
<1>0. TypeOK /\ LifeCycle
  BY DEF IInv
<1>1. \A t \in Trx : Connected(t) => Connected(t)' /\ conn'[t] = conn[t]
  BY LifeMonotonic
<1>2. \A t \in Trx : Connected(t) => outer'[t] = outer[t] /\ anc'[t] = anc[t]
  <2>1. CASE UNCHANGED <<life, tree, conn, free>>
    BY <2>1 DEF tree
  <2>2. ASSUME NEW u \in Trx, NEW p \in Trx, NewNested(p, u)
        PROVE  \A t \in Trx : Connected(t) => outer'[t] = outer[t] /\ anc'[t] = anc[t]
    BY <1>0, <2>2 DEF NewNested, TypeOK, Connected
  <2>3. ASSUME NEW u \in Trx, \/ NewTransaction(u) \/ AcquireConnection(u)
                              \/ AcquireFail(u) \/ Release(u)
        PROVE  UNCHANGED <<anc, outer>>
    BY <2>3 DEF NewTransaction, AcquireConnection, AcquireFail, Release, tree
  <2> QED BY <2>1, <2>2, <2>3, LifeSteps
<1>3. \A t \in Trx : Connected(t) => /\ completed[t] => completed'[t]
                                     /\ Underway(t) => Underway(t)'
  <2> DEFINE Kept == \A t \in Trx : Connected(t) => /\ completed[t] => completed'[t]
                                                    /\ Underway(t) => Underway(t)'
  <2>1. CASE UNCHANGED <<completed, stage>>
    BY <2>1 DEF Underway
  <2>2. ASSUME NEW t \in Trx, AcquireConnection(t)
        PROVE  Kept
    BY <1>0, <2>2 DEF AcquireConnection, TypeOK, Connected, Underway
  <2>3. ASSUME NEW t \in Trx, InvokeContainer(t)
        PROVE  Kept
    BY <1>0, <2>3 DEF InvokeContainer, TypeOK, Underway
  <2>4. ASSUME NEW t \in Trx, ContainerSettles(t)
        PROVE  Kept
    <3>1. completed' = [completed EXCEPT ![t] = TRUE]
      BY <1>0, <2>4, FinishesAre, FinishEffect DEF ContainerSettles
    <3>2. stage' = [stage EXCEPT ![t] = "settled"]
      BY <2>4 DEF ContainerSettles
    <3> QED BY <1>0, <3>1, <3>2 DEF TypeOK, Underway
  <2>5. ASSUME NEW t \in Trx, UserFinishes(t)
        PROVE  Kept
    <3>1. completed' = [completed EXCEPT ![t] = TRUE]
      BY <1>0, <2>5, FinishesAre, FinishEffect DEF UserFinishes
    <3>2. stage' = stage
      BY <2>5 DEF UserFinishes
    <3> QED BY <1>0, <3>1, <3>2 DEF TypeOK, Underway
  <2>6. ASSUME NEW c \in Conn, Deliver(c)
        PROVE  Kept
    <3> DEFINE m == Head(reply[c])
               rest == Tail(reply[c])
    <3>1. /\ m = reply[c][1] /\ 1 \in DOMAIN reply[c] /\ m.trx \in Trx
      BY <2>6, OnTheWay, TailAt DEF Deliver
    <3>2. \/ InitFailed(c, m, rest) \/ IsolationSet(c, m, rest)
          \/ Begun(c, m, rest) \/ Finished(c, m, rest) \/ Queried(c, m, rest)
      BY <2>6 DEF Deliver
    <3>3. m.kind = "isolation" => stage[m.trx] = "isolation"
      BY <3>1 DEF OpeningIsLast, Opening, Opens
    <3> HIDE DEF m, rest
    <3>4. CASE InitFailed(c, m, rest)
      BY <1>0, <3>1, <3>4 DEF InitFailed, Rejected, TypeOK, Underway
    <3>5. CASE IsolationSet(c, m, rest)
      <4>1. stage[m.trx] = "isolation" /\ completed' = completed
            /\ stage' = [stage EXCEPT ![m.trx] = "begin"]
        BY <3>3, <3>5 DEF IsolationSet
      <4> QED BY <1>0, <4>1 DEF TypeOK, Underway
    <3>6. CASE Begun(c, m, rest)
      BY <1>0, <3>1, <3>6 DEF Begun, TypeOK, Underway
    <3>7. CASE Finished(c, m, rest) \/ Queried(c, m, rest)
      BY <1>0, <3>1, <3>7 DEF Finished, Queried, TypeOK, Underway
    <3> QED BY <3>2, <3>4, <3>5, <3>6, <3>7
  <2>7. \/ UNCHANGED <<completed, stage>>
        \/ \E t \in Trx : \/ AcquireConnection(t) \/ InvokeContainer(t)
                          \/ ContainerSettles(t) \/ UserFinishes(t)
        \/ \E c \in Conn : Deliver(c)
    BY DEF Next, User, Runtime, Network, NewTransaction, NewNested, UserQuery, AcquireFail,
       RollbackTimeout, Release, Execute, Disconnect, ReplaceConnection, vars
  <2> QED BY <2>1, <2>2, <2>3, <2>4, <2>5, <2>6, <2>7
<1> QED BY <1>1, <1>2, <1>3 DEF Lasting

\* Only the answer to its first statements, or time, changes one that waits.
LEMMA WaitsStep ==
  ASSUME IInv, [Next]_vars, NEW t \in Trx, Waits(t)
  PROVE  /\ \A c \in Conn : Deliver(c) => StillWaits(t) \/ Head(reply[c]).trx = t
         /\ Undelivered => StillWaits(t)
<1>0. TypeOK /\ LifeCycle /\ SettledIsCompleted
  BY DEF IInv
<1>1. life[t] = "open" /\ stage[t] \in {"isolation", "begin"} /\ ~completed[t] /\ Connected(t)
      /\ exec[t] = "pending"
  <2>1. life[t] = "open" /\ stage[t] \in {"isolation", "begin"} /\ ~completed[t]
    BY DEF Waits, Opening
  <2> QED BY <1>0, <2>1 DEF SettledIsCompleted, Connected
<1>2. CASE UNCHANGED <<life, stage, completed>>
  BY <1>1, <1>2 DEF StillWaits
<1>3. ASSUME NEW u \in Trx, NewTransaction(u) \/ \E p \in Trx : NewNested(p, u)
      PROVE  StillWaits(t)
  BY <1>0, <1>1, <1>3 DEF NewTransaction, NewNested, TypeOK, StillWaits
<1>4. ASSUME NEW u \in Trx, ContainerSettles(u)
      PROVE  StillWaits(t)
  <2>1. u # t /\ life' = life /\ stage' = [stage EXCEPT ![u] = "settled"]
    BY <1>1, <1>4 DEF ContainerSettles
  <2>2. completed' = [completed EXCEPT ![u] = TRUE]
    BY <1>0, <1>4, FinishesAre, FinishEffect DEF ContainerSettles
  <2> QED BY <1>0, <1>1, <2>1, <2>2 DEF TypeOK, StillWaits
<1>5. ASSUME NEW u \in Trx, UserFinishes(u)
      PROVE  StillWaits(t)
  <2>1. u # t /\ life' = life /\ stage' = stage
    BY <1>1, <1>5 DEF UserFinishes, HasTransactor
  <2>2. completed' = [completed EXCEPT ![u] = TRUE]
    BY <1>0, <1>5, FinishesAre, FinishEffect DEF UserFinishes
  <2> QED BY <1>0, <1>1, <2>1, <2>2 DEF TypeOK, StillWaits
<1>6. ASSUME NEW u \in Trx, AcquireConnection(u) \/ AcquireFail(u) \/ InvokeContainer(u)
                            \/ Release(u)
      PROVE  StillWaits(t)
  <2>1. u # t
    BY <1>1, <1>6 DEF AcquireConnection, AcquireFail, InvokeContainer, Release
  <2>2. /\ life'[t] = life[t] /\ stage'[t] = stage[t] /\ completed'[t] = completed[t]
    BY <1>0, <1>6, <2>1 DEF AcquireConnection, AcquireFail, InvokeContainer, Release, TypeOK
  <2> QED BY <1>1, <2>2 DEF StillWaits
<1>7. ASSUME NEW c \in Conn, Deliver(c)
      PROVE  StillWaits(t) \/ Head(reply[c]).trx = t
  <2> DEFINE m == Head(reply[c])
             rest == Tail(reply[c])
  <2>1. \/ InitFailed(c, m, rest) \/ IsolationSet(c, m, rest)
        \/ Begun(c, m, rest) \/ Finished(c, m, rest) \/ Queried(c, m, rest)
    BY <1>7 DEF Deliver
  <2>2. life' = life
    BY <1>7 DEF Deliver
  <2> HIDE DEF m, rest
  <2>3. ASSUME m.trx # t
        PROVE  stage'[t] = stage[t] /\ completed'[t] = completed[t]
    BY <1>0, <2>1, <2>3 DEF InitFailed, Rejected, IsolationSet, Begun, Finished, Queried, TypeOK
  <2> QED BY <1>1, <2>2, <2>3 DEF StillWaits, m
<1>8. ASSUME Undelivered
      PROVE  \/ UNCHANGED <<life, stage, completed>>
             \/ \E u \in Trx : \/ NewTransaction(u) \/ (\E p \in Trx : NewNested(p, u))
                               \/ ContainerSettles(u) \/ UserFinishes(u) \/ AcquireConnection(u)
                               \/ AcquireFail(u) \/ InvokeContainer(u) \/ Release(u)
  BY <1>8 DEF Undelivered, User, Runtime, UserQuery, RollbackTimeout,
     Execute, Disconnect, ReplaceConnection, vars
<1> QED BY <1>2, <1>3, <1>4, <1>5, <1>6, <1>7, <1>8

\* Only the answer to BEGIN makes a transaction active.
LEMMA ActiveStep ==
  ASSUME IInv, [Next]_vars, NEW t \in Trx, Active(t)'
  PROVE  /\ \A c \in Conn : Deliver(c) =>
              (Active(t) /\ conn'[t] = conn[t]) \/ Head(reply[c]).trx = t
         /\ Undelivered => Active(t) /\ conn'[t] = conn[t]
<1>0. TypeOK /\ LifeCycle
  BY DEF IInv
<1>1. /\ outer'[t] = NoTrx /\ life'[t] = "open" /\ Underway(t)' /\ ~completed'[t]
  BY DEF Active, IsRoot
<1>2. ASSUME life[t] = "open", outer[t] = NoTrx, Underway(t), ~completed[t]
      PROVE  Active(t) /\ conn'[t] = conn[t]
  BY <1>2, LifeMonotonic DEF Active, IsRoot, Connected
<1>3. CASE UNCHANGED <<life, tree, stage, completed>>
  BY <1>1, <1>2, <1>3 DEF tree, Underway
<1>4. ASSUME NEW u \in Trx, NewTransaction(u) \/ \E p \in Trx : NewNested(p, u)
      PROVE  Active(t) /\ conn'[t] = conn[t]
  <2>1. life'[u] = "queued" /\ UNCHANGED <<stage, completed>>
        /\ \A v \in Trx \ {u} : life'[v] = life[v] /\ outer'[v] = outer[v]
    BY <1>0, <1>4 DEF NewTransaction, NewNested, TypeOK
  <2> QED BY <1>1, <1>2, <2>1 DEF Underway
<1>5. ASSUME NEW u \in Trx, ContainerSettles(u) \/ UserFinishes(u)
      PROVE  Active(t) /\ conn'[t] = conn[t]
  <2>1. completed' = [completed EXCEPT ![u] = TRUE]
    BY <1>0, <1>5, FinishesAre, FinishEffect DEF ContainerSettles, UserFinishes
  <2>2. u # t /\ completed[t] = completed'[t]
    BY <1>0, <1>1, <2>1 DEF TypeOK
  <2>3. UNCHANGED <<life, tree>> /\ stage'[t] = stage[t]
    BY <1>0, <1>5, <2>2 DEF ContainerSettles, UserFinishes, TypeOK
  <2> QED BY <1>1, <1>2, <2>2, <2>3 DEF tree, Underway
<1>6. ASSUME NEW u \in Trx, AcquireConnection(u)
      PROVE  Active(t) /\ conn'[t] = conn[t]
  <2>1. /\ life' = [life EXCEPT ![u] = "open"] /\ UNCHANGED tree
        /\ completed' = [completed EXCEPT ![u] = IsCompleted(u)]
        /\ stage' = [stage EXCEPT ![u] =
                       IF IsCompleted(u) THEN "invoke"
                       ELSE IF InitKind(u) = "isolation" THEN "isolation" ELSE "begin"]
    BY <1>6 DEF AcquireConnection
  <2>2. u # t
    BY <1>0, <1>1, <2>1 DEF TypeOK, Underway
  <2>3. life'[t] = life[t] /\ stage'[t] = stage[t] /\ completed'[t] = completed[t]
    BY <1>0, <2>1, <2>2 DEF TypeOK
  <2> QED BY <1>1, <1>2, <2>1, <2>3 DEF tree, Underway
<1>7. ASSUME NEW u \in Trx, AcquireFail(u) \/ InvokeContainer(u) \/ Release(u)
      PROVE  Active(t) /\ conn'[t] = conn[t]
  <2>1. UNCHANGED <<tree, completed>> /\ (life'[t] = "open" => life[t] = "open")
    BY <1>0, <1>7 DEF AcquireFail, InvokeContainer, Release, TypeOK
  <2>2. Underway(t)
    BY <1>0, <1>1, <1>7 DEF AcquireFail, InvokeContainer, Release, TypeOK, Underway
  <2> QED BY <1>1, <1>2, <2>1, <2>2 DEF tree
<1>8. ASSUME NEW c \in Conn, Deliver(c), Head(reply[c]).trx # t
      PROVE  Active(t) /\ conn'[t] = conn[t]
  <2> DEFINE m == Head(reply[c])
             rest == Tail(reply[c])
  <2>1. \/ InitFailed(c, m, rest) \/ IsolationSet(c, m, rest)
        \/ Begun(c, m, rest) \/ Finished(c, m, rest) \/ Queried(c, m, rest)
    BY <1>8 DEF Deliver
  <2>2. life' = life /\ UNCHANGED tree /\ m.trx # t
    BY <1>8 DEF Deliver
  <2> HIDE DEF m, rest
  <2>3. stage'[t] = stage[t] /\ completed'[t] = completed[t]
    BY <1>0, <2>1, <2>2 DEF InitFailed, Rejected, IsolationSet, Begun, Finished, Queried, TypeOK
  <2> QED BY <1>1, <1>2, <2>2, <2>3 DEF tree, Underway
<1>9. ASSUME Undelivered
      PROVE  \/ UNCHANGED <<life, tree, stage, completed>>
             \/ \E u \in Trx : \/ NewTransaction(u) \/ (\E p \in Trx : NewNested(p, u))
                               \/ ContainerSettles(u) \/ UserFinishes(u) \/ AcquireConnection(u)
                               \/ AcquireFail(u) \/ InvokeContainer(u) \/ Release(u)
  BY <1>9 DEF Undelivered, User, Runtime, UserQuery, RollbackTimeout,
     Execute, Disconnect, ReplaceConnection, vars
<1> QED BY <1>3, <1>4, <1>5, <1>6, <1>7, <1>8, <1>9

-----------------------------------------------------------------------------
(* One connection *)

\* An opening statement comes from a transaction that waits.
LEMMA OpenerWaits ==
  ASSUME NEW m, m.trx \in Trx, m.kind \in Opening, Sender(m), Opens(m)
  PROVE  Waits(m.trx)
BY DEF Sender, Opens, Waits, Opening, Inner

\* A connection that a step does not touch stays orderly.
LEMMA Elsewhere ==
  ASSUME IInv, Lasting, NEW c \in Conn, Orderly(c),
         chan'[c] = chan[c], reply'[c] = reply[c], sess'[c].owner = sess[c].owner,
         c \in dead' <=> c \in dead,
         \A t \in Trx : Waits(t) /\ conn[t] = c => StillWaits(t)
  PROVE  Orderly(c)'
<1>1. /\ \A i \in DOMAIN chan[c] : /\ chan[c][i].trx \in Trx /\ Connected(chan[c][i].trx)
                                   /\ conn[chan[c][i].trx] = c
      /\ \A i \in DOMAIN reply[c] : /\ reply[c][i].trx \in Trx /\ Connected(reply[c][i].trx)
                                    /\ conn[reply[c][i].trx] = c
  BY OnTheWay
<1>2. Senders(c)'
  BY <1>1 DEF Orderly, Senders, Sender, Lasting, IsNested
<1>3. DeadIsIdle(c)'
  BY DEF Orderly, DeadIsIdle
<1>4. InnerInOwn(c)'
  BY <1>1 DEF Orderly, InnerInOwn, Lasting, Line
<1>5. /\ \A i \in DOMAIN chan[c] : chan[c][i].kind \in Opening =>
           Waits(chan[c][i].trx) /\ stage[chan[c][i].trx] = chan[c][i].kind
      /\ \A i \in DOMAIN reply[c] : reply[c][i].kind \in Opening =>
           Waits(reply[c][i].trx) /\ stage[reply[c][i].trx] = reply[c][i].kind
  BY <1>1, OpenerWaits DEF Orderly, Senders, OpeningIsLast, Opens
<1>6. OpeningIsLast(c)'
  <2>1. /\ \A i \in DOMAIN chan[c] : chan[c][i].kind \in Opening =>
           StillWaits(chan[c][i].trx) /\ stage[chan[c][i].trx] = chan[c][i].kind
        /\ \A i \in DOMAIN reply[c] : reply[c][i].kind \in Opening =>
           StillWaits(reply[c][i].trx) /\ stage[reply[c][i].trx] = reply[c][i].kind
    BY <1>1, <1>5
  <2> QED BY <2>1 DEF Orderly, OpeningIsLast, Opens, StillWaits
<1> QED BY <1>2, <1>3, <1>4, <1>6 DEF Orderly

\* Neither does handing over a statement where nothing opens disturb it.
LEMMA PostOrderly ==
  ASSUME IInv, Lasting, NEW c \in Conn, Orderly(c),
         NEW m \in Request, Sender(m)', NEW b \in Seq(Answer), Post(c, m, b),
         sess' = sess, dead' = dead,
         \A i \in DOMAIN b : Sender(b[i])' /\ b[i].kind \notin Opening,
         \A i \in DOMAIN chan[c] : chan[c][i].kind \notin Opening,
         m.kind \in Opening => Opens(m)',
         c \notin dead /\ m.kind \in Inner =>
           sess[c].owner \in Line(m.trx)' /\ Steady(chan[c])
  PROVE  Orderly(c)'
<1>0. chan \in [Conn -> Seq(Request)] /\ reply \in [Conn -> Seq(Answer)]
  BY DEF IInv, TypeOK
<1>1. \A i \in DOMAIN chan[c] : /\ chan[c][i].trx \in Trx /\ Connected(chan[c][i].trx)
                                /\ Sender(chan[c][i])
  BY OnTheWay DEF Orderly, Senders
<1>2. CASE c \in dead
  <2> DEFINE r == Reply(m, FALSE)
  <2>1. chan'[c] = <<>> /\ reply'[c] = Append(b, r) /\ chan[c] = <<>>
    BY <1>0, <1>2 DEF Post, Orderly, DeadIsIdle
  <2>2. r \in Answer /\ r.trx = m.trx /\ r.kind = m.kind /\ r.ok = FALSE
    BY MessageType DEF Reply
  <2> HIDE DEF r
  <2>3. /\ DOMAIN reply'[c] = 1 .. Len(b) + 1 /\ Len(reply'[c]) = Len(b) + 1
        /\ DOMAIN b = 1 .. Len(b) /\ Len(b) \in Nat
        /\ \A i \in 1 .. Len(b) : reply'[c][i] = b[i]
        /\ reply'[c][Len(b) + 1] = r
    BY <2>1, <2>2, AppendAt
  <2>4. \A i \in DOMAIN reply'[c] : i \in DOMAIN b \/ i = Len(b) + 1
    BY <2>3
  <2>6. Senders(c)'
    BY <2>1, <2>2, <2>3, <2>4 DEF Senders, Sender, IsNested
  <2>7. OpeningIsLast(c)'
    BY <1>2, <2>1, <2>2, <2>3, <2>4 DEF OpeningIsLast, Opens
  <2>8. DeadIsIdle(c)' /\ InnerInOwn(c)'
    BY <2>1 DEF Orderly, DeadIsIdle, InnerInOwn
  <2> QED BY <2>6, <2>7, <2>8 DEF Orderly
<1>3. CASE c \notin dead
  <2> DEFINE n == Len(chan[c])
  <2>1. chan'[c] = Append(chan[c], m) /\ reply'[c] = b
    BY <1>0, <1>3 DEF Post
  <2>2. /\ DOMAIN chan'[c] = 1 .. n + 1 /\ Len(chan'[c]) = n + 1
        /\ DOMAIN chan[c] = 1 .. n /\ n \in Nat
        /\ \A i \in 1 .. n : chan'[c][i] = chan[c][i]
        /\ chan'[c][n + 1] = m
    BY <1>0, <2>1, AppendAt
  <2> HIDE DEF n
  <2>3. \A i \in DOMAIN chan'[c] : i \in DOMAIN chan[c] \/ i = n + 1
    BY <2>2
  <2>4. Senders(c)'
    BY <1>1, <2>1, <2>2, <2>3 DEF Senders, Sender, IsNested, Lasting
  <2>5. OpeningIsLast(c)'
    BY <2>1, <2>2, <2>3 DEF OpeningIsLast, Opens
  <2>6. DeadIsIdle(c)'
    BY <1>3 DEF DeadIsIdle
  <2>7. ASSUME NEW i \in DOMAIN chan'[c], chan'[c][i].kind \in Inner
        PROVE  /\ sess'[c].owner \in {chan'[c][i].trx} \cup anc'[chan'[c][i].trx]
               /\ \A j \in DOMAIN chan'[c] : j < i => chan'[c][j].kind \notin Boundary
    <3>1. CASE i \in DOMAIN chan[c]
      <4>1. chan'[c][i] = chan[c][i]
        BY <2>2, <3>1
      <4>2. /\ sess[c].owner \in {chan[c][i].trx} \cup anc[chan[c][i].trx]
            /\ \A j \in DOMAIN chan[c] : j < i => chan[c][j].kind \notin Boundary
        BY <2>7, <3>1, <4>1 DEF Orderly, InnerInOwn, Line
      <4>3. anc'[chan[c][i].trx] = anc[chan[c][i].trx]
        BY <1>1, <3>1 DEF Lasting
      <4>4. \A j \in DOMAIN chan'[c] : j < i => j \in DOMAIN chan[c] /\ chan'[c][j] = chan[c][j]
        BY <2>2, <3>1
      <4> QED BY <4>1, <4>2, <4>3, <4>4
    <3>2. CASE i = n + 1
      <4>1. chan'[c][i] = m
        BY <2>2, <3>2
      <4>2. \A j \in DOMAIN chan'[c] : j < i => j \in DOMAIN chan[c] /\ chan'[c][j] = chan[c][j]
        BY <2>2, <3>2
      <4>3. sess[c].owner \in {m.trx} \cup anc'[m.trx] /\ Steady(chan[c])
        BY <1>3, <2>7, <4>1 DEF Line
      <4> QED BY <4>1, <4>2, <4>3 DEF Steady
    <3> QED BY <2>3, <2>7, <3>1, <3>2
  <2>8. InnerInOwn(c)'
    BY <2>7 DEF InnerInOwn, Line
  <2> QED BY <2>4, <2>5, <2>6, <2>8 DEF Orderly
<1> QED BY <1>2, <1>3

\* Whom the session belongs to after a statement.
LEMMA OwnerAfter ==
  ASSUME NEW s \in SessionState, NEW k \in Kinds, NEW t \in Trx
  PROVE  /\ AfterSuccess(s, k, t).owner =
              IF k = "begin" THEN t ELSE IF k \in Ending THEN NoTrx ELSE s.owner
         /\ k # "commit" => AfterFailure(s, k).owner = s.owner
         /\ AfterFailure(s, k).owner \in {NoTrx, s.owner}
         /\ ~CommitFailureKeepsOpen /\ k = "commit" => AfterFailure(s, k).owner = NoTrx
<1>1. /\ Began(s, t).owner = t /\ Marked(s, t).owner = s.owner
      /\ Unmarked(s, t).owner = s.owner /\ RolledBackTo(s, t).owner = s.owner
      /\ Written(s, t).owner = s.owner /\ IdleSession.owner = NoTrx
  BY DEF Began, Marked, Unmarked, RolledBackTo, Written, IdleSession, SessionState
<1>2. AfterSuccess(s, k, t).owner =
        IF k = "begin" THEN t ELSE IF k \in Ending THEN NoTrx ELSE s.owner
  <2>1. CASE k \in {"begin", "savepoint", "query", "release", "rollbackTo"}
    BY <1>1, <2>1 DEF AfterSuccess, Ending
  <2>2. CASE k \in {"commit", "rollback"}
    BY <1>1, <2>2 DEF AfterSuccess, Ending
  <2>3. CASE k = "isolation"
    BY <2>3 DEF AfterSuccess, Ending
  <2> QED BY <2>1, <2>2, <2>3 DEF Kinds
<1>3. [s EXCEPT !.aborted = @ \/ (AbortOnError /\ s.owner # NoTrx)].owner = s.owner
  BY DEF SessionState
<1> QED BY <1>1, <1>2, <1>3 DEF AfterFailure

\* What running the oldest statement does to the queues and the session.
LEMMA Executed ==
  ASSUME IInv, NEW c \in Conn, Execute(c)
  PROVE  \E m \in Request, ok \in BOOLEAN :
           /\ chan[c] # <<>> /\ m = chan[c][1]
           /\ chan' = [chan EXCEPT ![c] = Tail(chan[c])]
           /\ reply' = [reply EXCEPT ![c] = Append(reply[c], Reply(m, ok))]
           /\ \A d \in Conn \ {c} : sess'[d] = sess[d]
           /\ dead' = dead
           /\ m.kind \notin Boundary => sess'[c].owner = sess[c].owner
           /\ m.kind = "begin" => sess'[c].owner = IF ok THEN m.trx ELSE sess[c].owner
           /\ m.kind \in Ending => sess'[c].owner \in {NoTrx, sess[c].owner}
           /\ m.kind \in Ending /\ ~CommitFailureKeepsOpen => sess'[c].owner = NoTrx
<1>0. chan \in [Conn -> Seq(Request)] /\ sess \in [Conn -> SessionState]
  BY DEF IInv, TypeOK
<1>1. PICK m \in Request : m = Head(chan[c])
  BY <1>0, HeadTailProperties DEF Execute
<1>2. chan[c] # <<>> /\ m = chan[c][1]
  BY <1>0, <1>1, TailAt DEF Execute
<1>3. m.kind \in Kinds /\ m.trx \in Trx
  BY DEF Request
<1>4. /\ chan' = [chan EXCEPT ![c] = Tail(chan[c])] /\ dead' = dead
      /\ \/ /\ CanRun(sess[c], m.kind, m.trx)
            /\ sess' = [sess EXCEPT ![c] = AfterSuccess(sess[c], m.kind, m.trx)]
            /\ reply' = [reply EXCEPT ![c] = Append(reply[c], Reply(m, TRUE))]
         \/ /\ CanRun(sess[c], m.kind, m.trx) => MayFail(m.kind)
            /\ sess' = [sess EXCEPT ![c] = AfterFailure(sess[c], m.kind)]
            /\ reply' = [reply EXCEPT ![c] = Append(reply[c], Reply(m, FALSE))]
  BY <1>1 DEF Execute
<1>5. \A d \in Conn \ {c} : sess'[d] = sess[d]
  BY <1>0, <1>4
<1>6. sess[c] \in SessionState
  BY <1>0
<1>7. CASE /\ sess' = [sess EXCEPT ![c] = AfterSuccess(sess[c], m.kind, m.trx)]
           /\ reply' = [reply EXCEPT ![c] = Append(reply[c], Reply(m, TRUE))]
  <2>1. sess'[c] = AfterSuccess(sess[c], m.kind, m.trx)
    BY <1>0, <1>7
  <2>2. sess'[c].owner = IF m.kind = "begin" THEN m.trx
                         ELSE IF m.kind \in Ending THEN NoTrx ELSE sess[c].owner
    BY <1>3, <1>6, <2>1, OwnerAfter
  <2> QED BY <1>2, <1>4, <1>5, <1>7, <2>2 DEF Boundary, Ending
<1>8. CASE /\ CanRun(sess[c], m.kind, m.trx) => MayFail(m.kind)
           /\ sess' = [sess EXCEPT ![c] = AfterFailure(sess[c], m.kind)]
           /\ reply' = [reply EXCEPT ![c] = Append(reply[c], Reply(m, FALSE))]
  <2>1. sess'[c] = AfterFailure(sess[c], m.kind)
    BY <1>0, <1>8
  <2>2. /\ m.kind # "commit" => sess'[c].owner = sess[c].owner
        /\ sess'[c].owner \in {NoTrx, sess[c].owner}
        /\ ~CommitFailureKeepsOpen /\ m.kind = "commit" => sess'[c].owner = NoTrx
    BY <1>3, <1>6, <2>1, OwnerAfter
  <2>3. m.kind # "rollback"
    <3>1. m.kind = "rollback" => CanRun(sess[c], m.kind, m.trx) /\ ~MayFail(m.kind)
      BY DEF CanRun, MayFail
    <3> QED BY <1>8, <3>1
  <2> QED BY <1>2, <1>4, <1>5, <1>8, <2>2, <2>3 DEF Boundary, Ending
<1> QED BY <1>4, <1>7, <1>8

\* Running a statement keeps its connection orderly,
LEMMA ExecuteOrderly ==
  ASSUME IInv, Lasting, NEW c \in Conn, Orderly(c), Execute(c),
         \A t \in Trx : Waits(t) /\ conn[t] = c => StillWaits(t)
  PROVE  Orderly(c)'
<1>0. /\ chan \in [Conn -> Seq(Request)] /\ reply \in [Conn -> Seq(Answer)]
  BY DEF IInv, TypeOK
<1>1. PICK m \in Request, ok \in BOOLEAN :
        /\ chan[c] # <<>> /\ m = chan[c][1]
        /\ chan' = [chan EXCEPT ![c] = Tail(chan[c])]
        /\ reply' = [reply EXCEPT ![c] = Append(reply[c], Reply(m, ok))]
        /\ dead' = dead
        /\ m.kind \notin Boundary => sess'[c].owner = sess[c].owner
        /\ m.kind = "begin" => sess'[c].owner = IF ok THEN m.trx ELSE sess[c].owner
  BY Executed
<1>2. PICK r \in Answer : r = Reply(m, ok)
  BY MessageType
<1>3. r.trx = m.trx /\ r.kind = m.kind /\ r.ok = ok
  BY <1>2 DEF Reply
<1>4. /\ \A i \in DOMAIN chan[c] : /\ chan[c][i].trx \in Trx /\ Connected(chan[c][i].trx)
                                   /\ conn[chan[c][i].trx] = c /\ Sender(chan[c][i])
      /\ \A i \in DOMAIN reply[c] : /\ reply[c][i].trx \in Trx /\ Connected(reply[c][i].trx)
                                    /\ Sender(reply[c][i])
  BY OnTheWay DEF Orderly, Senders
<1> DEFINE n == Len(chan[c])
           k == Len(reply[c])
<1>5. /\ DOMAIN chan[c] = 1 .. n /\ n \in Nat /\ n >= 1 /\ 1 \in DOMAIN chan[c]
      /\ DOMAIN chan'[c] = 1 .. n - 1 /\ Len(chan'[c]) = n - 1
      /\ \A i \in 1 .. n - 1 : i + 1 \in DOMAIN chan[c] /\ chan'[c][i] = chan[c][i + 1]
      /\ n = 1 => chan'[c] = <<>>
  <2>1. chan'[c] = Tail(chan[c]) /\ chan[c] \in Seq(Request)
    BY <1>0, <1>1
  <2> QED BY <1>1, <2>1, TailAt, OnlyOne
<1>6. /\ DOMAIN reply[c] = 1 .. k /\ k \in Nat
      /\ DOMAIN reply'[c] = 1 .. k + 1 /\ Len(reply'[c]) = k + 1
      /\ \A i \in 1 .. k : reply'[c][i] = reply[c][i]
      /\ reply'[c][k + 1] = r
  <2>1. reply'[c] = Append(reply[c], r) /\ reply[c] \in Seq(Answer)
    BY <1>0, <1>1, <1>2
  <2> QED BY <2>1, AppendAt
<1> HIDE DEF n, k
<1>7. \A i \in DOMAIN reply'[c] : i \in DOMAIN reply[c] \/ i = k + 1
  BY <1>6
<1>8. Senders(c)'
  <2>1. \A i \in DOMAIN chan'[c] : i + 1 \in DOMAIN chan[c] /\ chan'[c][i] = chan[c][i + 1]
    BY <1>5
  <2>2. Sender(m) /\ Connected(m.trx) /\ m.trx \in Trx
    BY <1>1, <1>4, <1>5
  <2>3. \A i \in DOMAIN chan'[c] : /\ chan'[c][i].kind # "query" =>
                                        (outer'[chan'[c][i].trx] # NoTrx <=> chan'[c][i].kind \in Inner)
                                   /\ chan'[c][i].kind \in Finals => completed'[chan'[c][i].trx]
    BY <1>4, <2>1 DEF Sender, Lasting, IsNested
  <2>4. \A i \in DOMAIN reply'[c] : /\ reply'[c][i].kind # "query" =>
                                        (outer'[reply'[c][i].trx] # NoTrx <=> reply'[c][i].kind \in Inner)
                                    /\ reply'[c][i].kind \in Finals => completed'[reply'[c][i].trx]
    BY <1>3, <1>4, <1>6, <1>7, <2>2 DEF Sender, Lasting, IsNested
  <2> QED BY <2>3, <2>4 DEF Senders, Sender, IsNested
<1>9. DeadIsIdle(c)'
  BY <1>1 DEF Orderly, DeadIsIdle
<1>10. \A i \in DOMAIN chan[c] : chan[c][i].kind \in Opening =>
         i = n /\ stage[chan[c][i].trx] = chan[c][i].kind /\ StillWaits(chan[c][i].trx)
  <2>1. \A i \in DOMAIN chan[c] : chan[c][i].kind \in Opening =>
          i = n /\ stage[chan[c][i].trx] = chan[c][i].kind /\ Waits(chan[c][i].trx)
    BY <1>4, OpenerWaits DEF Orderly, OpeningIsLast, Opens, n
  <2> QED BY <1>4, <2>1
<1>11. OpeningIsLast(c)'
  <2>1. \A i \in DOMAIN reply[c] : reply[c][i].kind \notin Opening
    BY <1>1 DEF Orderly, OpeningIsLast
  <2>2. ASSUME NEW i \in DOMAIN chan'[c], chan'[c][i].kind \in Opening
        PROVE  /\ i = Len(chan'[c]) /\ life'[chan'[c][i].trx] = "open"
               /\ stage'[chan'[c][i].trx] = chan'[c][i].kind /\ ~completed'[chan'[c][i].trx]
    <3>1. i + 1 \in DOMAIN chan[c] /\ chan'[c][i] = chan[c][i + 1] /\ i \in 1 .. n - 1
      BY <1>5
    <3>2. i + 1 = n /\ stage[chan[c][i + 1].trx] = chan[c][i + 1].kind
          /\ StillWaits(chan[c][i + 1].trx)
      BY <1>10, <2>2, <3>1
    <3> QED BY <1>5, <3>1, <3>2 DEF StillWaits
  <2>3. ASSUME NEW i \in DOMAIN reply'[c], reply'[c][i].kind \in Opening
        PROVE  /\ i = Len(reply'[c]) /\ chan'[c] = <<>>
               /\ life'[reply'[c][i].trx] = "open"
               /\ stage'[reply'[c][i].trx] = reply'[c][i].kind /\ ~completed'[reply'[c][i].trx]
               /\ reply'[c][i].kind = "begin" /\ reply'[c][i].ok
                    => sess'[c].owner = reply'[c][i].trx
    <3>1. i = k + 1 /\ reply'[c][i] = r
      BY <1>6, <1>7, <2>1, <2>3
    <3>2. n = 1 /\ stage[m.trx] = m.kind /\ StillWaits(m.trx)
      BY <1>1, <1>3, <1>5, <1>10, <2>3, <3>1
    <3> QED BY <1>1, <1>3, <1>5, <1>6, <3>1, <3>2 DEF StillWaits
  <2> QED BY <2>2, <2>3 DEF OpeningIsLast, Opens
<1>12. InnerInOwn(c)'
  <2>1. ASSUME NEW i \in DOMAIN chan'[c], chan'[c][i].kind \in Inner
        PROVE  /\ sess'[c].owner \in {chan'[c][i].trx} \cup anc'[chan'[c][i].trx]
               /\ \A j \in DOMAIN chan'[c] : j < i => chan'[c][j].kind \notin Boundary
    <3>1. i + 1 \in DOMAIN chan[c] /\ chan'[c][i] = chan[c][i + 1] /\ i \in 1 .. n - 1
      BY <1>5
    <3>2. /\ sess[c].owner \in {chan[c][i + 1].trx} \cup anc[chan[c][i + 1].trx]
          /\ \A j \in DOMAIN chan[c] : j < i + 1 => chan[c][j].kind \notin Boundary
      BY <2>1, <3>1 DEF Orderly, InnerInOwn, Line
    <3>3. m.kind \notin Boundary
      <4>1. 1 < i + 1
        BY <3>1
      <4> QED BY <1>1, <1>5, <3>2, <4>1
    <3>4. anc'[chan[c][i + 1].trx] = anc[chan[c][i + 1].trx]
      BY <1>4, <3>1 DEF Lasting
    <3>5. ASSUME NEW j \in DOMAIN chan'[c], j < i
          PROVE  chan'[c][j].kind \notin Boundary
      <4>1. j + 1 \in DOMAIN chan[c] /\ chan'[c][j] = chan[c][j + 1] /\ j + 1 < i + 1
        BY <1>5, <3>1, <3>5
      <4> QED BY <3>2, <4>1
    <3> QED BY <1>1, <3>1, <3>2, <3>3, <3>4, <3>5
  <2> QED BY <2>1 DEF InnerInOwn, Line
<1> QED BY <1>8, <1>9, <1>11, <1>12 DEF Orderly

\* and so do taking an answer off it,
LEMMA ConsumeOrderly ==
  ASSUME IInv, Lasting, NEW c \in Conn, Orderly(c), reply[c] # <<>>,
         chan' = chan, reply' = [reply EXCEPT ![c] = Tail(reply[c])],
         sess' = sess, dead' = dead,
         \/ reply[c][1].kind \in Opening
         \/ \A t \in Trx : Waits(t) /\ conn[t] = c => StillWaits(t)
  PROVE  Orderly(c)'
<1>1. /\ \A i \in DOMAIN chan[c] : /\ chan[c][i].trx \in Trx /\ Connected(chan[c][i].trx)
                                   /\ conn[chan[c][i].trx] = c /\ Sender(chan[c][i])
      /\ \A i \in DOMAIN reply[c] : /\ reply[c][i].trx \in Trx /\ Connected(reply[c][i].trx)
                                    /\ conn[reply[c][i].trx] = c /\ Sender(reply[c][i])
  BY OnTheWay DEF Orderly, Senders
<1> DEFINE k == Len(reply[c])
<1>2. /\ DOMAIN reply[c] = 1 .. k /\ k \in Nat /\ k >= 1 /\ 1 \in DOMAIN reply[c]
      /\ DOMAIN reply'[c] = 1 .. k - 1 /\ Len(reply'[c]) = k - 1
      /\ \A i \in 1 .. k - 1 : i + 1 \in DOMAIN reply[c] /\ reply'[c][i] = reply[c][i + 1]
  <2>1. reply'[c] = Tail(reply[c]) /\ reply[c] \in Seq(Answer)
    BY DEF IInv, TypeOK
  <2> QED BY <2>1, TailAt
<1>3. \A i \in DOMAIN reply'[c] : /\ i + 1 \in DOMAIN reply[c] /\ i \in 1 .. k - 1
                                  /\ reply'[c][i] = reply[c][i + 1]
  BY <1>2
<1> HIDE DEF k
<1>4. Senders(c)'
  BY <1>1, <1>3 DEF Senders, Sender, Lasting, IsNested
<1>5. DeadIsIdle(c)'
  BY DEF Orderly, DeadIsIdle
<1>6. InnerInOwn(c)'
  BY <1>1 DEF Orderly, InnerInOwn, Lasting, Line
<1>7. /\ \A i \in DOMAIN chan[c] : chan[c][i].kind \in Opening =>
           /\ i = Len(chan[c]) /\ Waits(chan[c][i].trx)
           /\ stage[chan[c][i].trx] = chan[c][i].kind
      /\ \A i \in DOMAIN reply[c] : reply[c][i].kind \in Opening =>
           /\ i = k /\ chan[c] = <<>>
           /\ Waits(reply[c][i].trx) /\ stage[reply[c][i].trx] = reply[c][i].kind
           /\ reply[c][i].kind = "begin" /\ reply[c][i].ok /\ c \notin dead
                => sess[c].owner = reply[c][i].trx
  BY <1>1, OpenerWaits DEF Orderly, OpeningIsLast, Opens, k
<1>8. CASE reply[c][1].kind \in Opening
  <2>1. k = 1 /\ chan[c] = <<>>
    BY <1>2, <1>7, <1>8
  <2>2. DOMAIN chan'[c] = {} /\ DOMAIN reply'[c] = {}
    BY <1>2, <2>1
  <2>3. OpeningIsLast(c)'
    BY <2>2 DEF OpeningIsLast
  <2> QED BY <1>4, <1>5, <1>6, <2>3 DEF Orderly
<1>9. CASE \A t \in Trx : Waits(t) /\ conn[t] = c => StillWaits(t)
  <2>1. /\ \A i \in DOMAIN chan[c] : chan[c][i].kind \in Opening =>
             StillWaits(chan[c][i].trx)
        /\ \A i \in DOMAIN reply[c] : reply[c][i].kind \in Opening =>
             StillWaits(reply[c][i].trx)
    BY <1>1, <1>7, <1>9
  <2>2. ASSUME NEW i \in DOMAIN reply'[c], reply'[c][i].kind \in Opening
        PROVE  /\ i = Len(reply'[c]) /\ chan'[c] = <<>>
               /\ life'[reply'[c][i].trx] = "open"
               /\ stage'[reply'[c][i].trx] = reply'[c][i].kind /\ ~completed'[reply'[c][i].trx]
               /\ reply'[c][i].kind = "begin" /\ reply'[c][i].ok /\ c \notin dead'
                    => sess'[c].owner = reply'[c][i].trx
    <3>1. i + 1 \in DOMAIN reply[c] /\ reply'[c][i] = reply[c][i + 1] /\ i \in 1 .. k - 1
      BY <1>3
    <3>2. i + 1 = k
      BY <1>7, <2>2, <3>1
    <3>3. i = Len(reply'[c])
      BY <1>2, <3>1, <3>2
    <3> QED BY <1>7, <2>1, <2>2, <3>1, <3>3 DEF StillWaits
  <2>3. \A i \in DOMAIN chan'[c] : chan'[c][i].kind \in Opening =>
          /\ i = Len(chan'[c]) /\ life'[chan'[c][i].trx] = "open"
          /\ stage'[chan'[c][i].trx] = chan'[c][i].kind /\ ~completed'[chan'[c][i].trx]
    BY <1>7, <2>1 DEF StillWaits
  <2>4. OpeningIsLast(c)'
    BY <2>2, <2>3 DEF OpeningIsLast, Opens
  <2> QED BY <1>4, <1>5, <1>6, <2>4 DEF Orderly
<1> QED BY <1>8, <1>9

\* What fails with a connection.
LEMMA FailuresAt ==
  ASSUME NEW S \in {Request, Answer}, NEW q \in Seq(S)
  PROVE  /\ Failures(q) \in Seq(Answer) /\ Len(Failures(q)) = Len(q)
         /\ DOMAIN Failures(q) = DOMAIN q
         /\ \A i \in DOMAIN q : Failures(q)[i] = Reply(q[i], FALSE)
<1>1. DOMAIN q = 1 .. Len(q) /\ Len(q) \in Nat /\ \A i \in DOMAIN q : q[i] \in S
  BY LenProperties, ElementOfSeq
<1>2. \A i \in DOMAIN q : Reply(q[i], FALSE) \in Answer
  BY <1>1, MessageType
<1>3. Failures(q) \in [1 .. Len(q) -> Answer]
  BY <1>1, <1>2 DEF Failures
<1>4. Failures(q) \in Seq(Answer)
  BY <1>1, <1>3, FunctionIsSeq
<1>5. DOMAIN Failures(q) = 1 .. Len(q)
  BY <1>3
<1>6. DOMAIN Failures(q) = 1 .. Len(Failures(q)) /\ Len(Failures(q)) \in Nat
  BY <1>4, LenProperties
<1>7. Len(Failures(q)) = Len(q)
  BY <1>1, <1>5, <1>6
<1> QED BY <1>1, <1>4, <1>5, <1>7 DEF Failures

\* losing it
LEMMA DisconnectOrderly ==
  ASSUME IInv, Lasting, NEW c \in Conn, Orderly(c), Disconnect(c),
         \A t \in Trx : Waits(t) /\ conn[t] = c => StillWaits(t)
  PROVE  Orderly(c)'
<1>0. /\ chan \in [Conn -> Seq(Request)] /\ reply \in [Conn -> Seq(Answer)]
      /\ sess \in [Conn -> SessionState]
  BY DEF IInv, TypeOK
<1>1. /\ dead' = dead \cup {c} /\ sess' = [sess EXCEPT ![c] = IdleSession]
      /\ chan' = [chan EXCEPT ![c] = <<>>]
      /\ reply' = [reply EXCEPT ![c] = Failures(reply[c]) \o Failures(chan[c])]
  BY DEF Disconnect
<1>2. /\ \A i \in DOMAIN chan[c] : /\ chan[c][i].trx \in Trx /\ Connected(chan[c][i].trx)
                                   /\ conn[chan[c][i].trx] = c /\ Sender(chan[c][i])
      /\ \A i \in DOMAIN reply[c] : /\ reply[c][i].trx \in Trx /\ Connected(reply[c][i].trx)
                                    /\ conn[reply[c][i].trx] = c /\ Sender(reply[c][i])
  BY OnTheWay DEF Orderly, Senders
<1> DEFINE n == Len(chan[c])
           k == Len(reply[c])
<1>3. /\ DOMAIN chan[c] = 1 .. n /\ n \in Nat /\ DOMAIN reply[c] = 1 .. k /\ k \in Nat
      /\ n = 0 <=> chan[c] = <<>>
  <2>1. chan[c] \in Seq(Request) /\ reply[c] \in Seq(Answer)
    BY <1>0
  <2> QED BY <2>1, LenProperties, EmptySeq
<1>4. /\ DOMAIN reply'[c] = 1 .. k + n /\ Len(reply'[c]) = k + n
      /\ \A i \in 1 .. k : reply'[c][i] = Reply(reply[c][i], FALSE)
      /\ \A i \in 1 .. n : reply'[c][k + i] = Reply(chan[c][i], FALSE)
  <2>1. PICK f, g : f = Failures(reply[c]) /\ g = Failures(chan[c])
    OBVIOUS
  <2>2. /\ f \in Seq(Answer) /\ Len(f) = k /\ \A i \in 1 .. k : f[i] = Reply(reply[c][i], FALSE)
        /\ g \in Seq(Answer) /\ Len(g) = n /\ \A i \in 1 .. n : g[i] = Reply(chan[c][i], FALSE)
    <3>1. chan[c] \in Seq(Request) /\ reply[c] \in Seq(Answer)
      BY <1>0
    <3> QED BY <1>3, <2>1, <3>1, FailuresAt
  <2>3. reply'[c] = f \o g
    BY <1>0, <1>1, <2>1
  <2>4. /\ DOMAIN (f \o g) = 1 .. Len(f) + Len(g) /\ Len(f \o g) = Len(f) + Len(g)
        /\ \A i \in 1 .. Len(f) : (f \o g)[i] = f[i]
        /\ \A i \in 1 .. Len(g) : (f \o g)[Len(f) + i] = g[i]
    <3>1. f \in Seq(Answer) /\ g \in Seq(Answer)
      BY <2>2
    <3> QED BY <3>1, ConcatAt
  <2> QED BY <2>2, <2>3, <2>4
<1> HIDE DEF n, k
<1>5. \A i \in DOMAIN reply'[c] :
        \/ i \in DOMAIN reply[c] /\ reply'[c][i] = Reply(reply[c][i], FALSE)
        \/ \E j \in DOMAIN chan[c] : /\ i = k + j /\ reply'[c][i].trx = chan[c][j].trx
                                     /\ reply'[c][i].kind = chan[c][j].kind
                                     /\ reply'[c][i].ok = FALSE
  <2>1. ASSUME NEW i \in DOMAIN reply'[c], i \notin 1 .. k
        PROVE  i - k \in 1 .. n /\ i = k + (i - k)
    BY <1>3, <1>4, <2>1
  <2>2. ASSUME NEW i \in DOMAIN reply'[c], i \notin 1 .. k
        PROVE  \E j \in DOMAIN chan[c] : /\ i = k + j /\ reply'[c][i].trx = chan[c][j].trx
                                         /\ reply'[c][i].kind = chan[c][j].kind
                                         /\ reply'[c][i].ok = FALSE
    <3>1. PICK j \in 1 .. n : i = k + j
      BY <2>1, <2>2
    <3>2. reply'[c][i] = Reply(chan[c][j], FALSE)
      BY <1>4, <3>1
    <3> QED BY <1>3, <3>1, <3>2 DEF Reply
  <2> QED BY <1>3, <1>4, <2>2
<1>6. chan'[c] = <<>> /\ DOMAIN chan'[c] = {} /\ sess'[c].owner = NoTrx /\ c \in dead'
  BY <1>0, <1>1 DEF IdleSession
<1>7. Senders(c)'
  <2>1. ASSUME NEW i \in DOMAIN reply'[c]
        PROVE  /\ reply'[c][i].kind # "query" =>
                    (outer'[reply'[c][i].trx] # NoTrx <=> reply'[c][i].kind \in Inner)
               /\ reply'[c][i].kind \in Finals => completed'[reply'[c][i].trx]
    <3>1. CASE i \in DOMAIN reply[c] /\ reply'[c][i] = Reply(reply[c][i], FALSE)
      <4>1. PICK j \in DOMAIN reply[c] : /\ reply'[c][i].trx = reply[c][j].trx
                                         /\ reply'[c][i].kind = reply[c][j].kind
        BY <3>1 DEF Reply
      <4> QED BY <1>2, <4>1 DEF Sender, Lasting, IsNested
    <3>2. ASSUME NEW j \in DOMAIN chan[c], reply'[c][i].trx = chan[c][j].trx,
                 reply'[c][i].kind = chan[c][j].kind
          PROVE  /\ reply'[c][i].kind # "query" =>
                      (outer'[reply'[c][i].trx] # NoTrx <=> reply'[c][i].kind \in Inner)
                 /\ reply'[c][i].kind \in Finals => completed'[reply'[c][i].trx]
      BY <1>2, <3>2 DEF Sender, Lasting, IsNested
    <3> QED BY <1>5, <3>1, <3>2
  <2> QED BY <1>6, <2>1 DEF Senders, Sender, IsNested
<1>8. DeadIsIdle(c)' /\ InnerInOwn(c)'
  BY <1>6 DEF DeadIsIdle, InnerInOwn
<1>9. /\ \A i \in DOMAIN chan[c] : chan[c][i].kind \in Opening =>
           /\ i = n /\ StillWaits(chan[c][i].trx)
           /\ stage[chan[c][i].trx] = chan[c][i].kind
      /\ \A i \in DOMAIN reply[c] : reply[c][i].kind \in Opening =>
           /\ i = k /\ chan[c] = <<>>
           /\ StillWaits(reply[c][i].trx) /\ stage[reply[c][i].trx] = reply[c][i].kind
  BY <1>2, OpenerWaits DEF Orderly, OpeningIsLast, Opens, k, n
<1>10. ASSUME NEW i \in DOMAIN reply'[c], reply'[c][i].kind \in Opening
       PROVE  /\ i = Len(reply'[c])
              /\ life'[reply'[c][i].trx] = "open"
              /\ stage'[reply'[c][i].trx] = reply'[c][i].kind /\ ~completed'[reply'[c][i].trx]
  <2>1. CASE i \in DOMAIN reply[c] /\ reply'[c][i] = Reply(reply[c][i], FALSE)
    <3>0. reply'[c][i].trx = reply[c][i].trx /\ reply'[c][i].kind = reply[c][i].kind
      BY <2>1 DEF Reply
    <3>1. i = k /\ n = 0
      BY <1>3, <1>9, <1>10, <2>1, <3>0
    <3>2. i = Len(reply'[c])
      BY <1>3, <1>4, <3>1
    <3> QED BY <1>9, <1>10, <2>1, <3>0, <3>2 DEF StillWaits
  <2>2. ASSUME NEW j \in DOMAIN chan[c], i = k + j, reply'[c][i].trx = chan[c][j].trx,
               reply'[c][i].kind = chan[c][j].kind
        PROVE  /\ i = Len(reply'[c])
               /\ life'[reply'[c][i].trx] = "open"
               /\ stage'[reply'[c][i].trx] = reply'[c][i].kind
               /\ ~completed'[reply'[c][i].trx]
    <3>1. j = n /\ StillWaits(chan[c][j].trx) /\ stage[chan[c][j].trx] = chan[c][j].kind
      BY <1>9, <1>10, <2>2
    <3> QED BY <1>4, <2>2, <3>1 DEF StillWaits
  <2> QED BY <1>5, <2>1, <2>2
<1>11. OpeningIsLast(c)'
  BY <1>6, <1>10 DEF OpeningIsLast, Opens
<1> QED BY <1>7, <1>8, <1>11 DEF Orderly

\* and opening another in its place.
LEMMA ReplaceOrderly ==
  ASSUME IInv, Lasting, NEW c \in Conn, Orderly(c), ReplaceConnection(c)
  PROVE  Orderly(c)'
<1>1. /\ chan'[c] = <<>> /\ reply'[c] = <<>> /\ c \notin dead'
  BY DEF ReplaceConnection, Orderly, DeadIsIdle
<1>2. DOMAIN chan'[c] = {} /\ DOMAIN reply'[c] = {}
  BY <1>1
<1> QED BY <1>1, <1>2 DEF Orderly, Senders, DeadIsIdle, OpeningIsLast, InnerInOwn

-----------------------------------------------------------------------------
(* Every connection *)

\* On the connection of an active transaction nothing opens.
LEMMA NobodyOpens ==
  ASSUME IInv, NEW c \in Conn, Orderly(c), NEW r \in Trx, Active(r), conn[r] = c
  PROVE  /\ \A i \in DOMAIN chan[c] : chan[c][i].kind \notin Opening
         /\ \A i \in DOMAIN reply[c] : reply[c][i].kind \notin Opening
<1>1. ASSUME NEW s \in Trx, Waits(s), conn[s] = c
      PROVE  FALSE
  <2>1. IsRoot(s) /\ life[s] = "open" /\ stage[s] \in Opening
    BY <1>1 DEF Waits, IsRoot, IsNested
  <2>2. IsRoot(r) /\ life[r] = "open" /\ Underway(r)
    BY DEF Active
  <2>3. s = r
    BY <1>1, <2>1, <2>2 DEF IInv, ConnectionOwnership
  <2> QED BY <2>1, <2>2, <2>3 DEF Underway, Opening
<1> QED BY <1>1, OnTheWay, OpenerWaits DEF Orderly, Senders, OpeningIsLast

\* Nor on a connection nobody holds.
LEMMA NobodyOpensUnheld ==
  ASSUME IInv, NEW c \in Conn, Orderly(c),
         \A r \in Trx : IsRoot(r) /\ life[r] = "open" => conn[r] # c
  PROVE  /\ \A i \in DOMAIN chan[c] : chan[c][i].kind \notin Opening
         /\ \A i \in DOMAIN reply[c] : reply[c][i].kind \notin Opening
<1>1. \A s \in Trx : Waits(s) => conn[s] # c
  BY DEF Waits, IsRoot, IsNested
<1> QED BY <1>1, OnTheWay, OpenerWaits DEF Orderly, Senders, OpeningIsLast

\* Nobody holds the connection a top-level transaction is about to get.
LEMMA CandidateUnheld ==
  ASSUME IInv, NEW t \in Trx, life[t] = "queued", ~IsNested(t), NEW c \in Candidates(t)
  PROVE  \A r \in Trx : IsRoot(r) /\ life[r] = "open" => conn[r] # c
<1>0. TypeOK /\ ConnectionSource /\ ExternalOnce /\ ConnectionOwnership
  BY DEF IInv
<1>1. CASE FromPool(t)
  BY <1>0, <1>1 DEF Candidates, ConnectionOwnership
<1>2. CASE ~FromPool(t)
  <2>1. c = cfg[t].conn /\ c # NoConn /\ c \in ExtConn
    BY <1>0, <1>2 DEF Candidates, FromPool, TypeOK, Config
  <2>2. ASSUME NEW r \in Trx, IsRoot(r), life[r] = "open", conn[r] = c
        PROVE  FALSE
    <3>1. ~IsNested(r) /\ Connected(r) /\ r # t
      BY <2>2 DEF IsRoot, IsNested, Connected
    <3>2. ~FromPool(r)
      BY <1>0, <2>1, <2>2, <3>1, TransactionAssumption DEF ConnectionSource
    <3>3. cfg[r].conn = c
      BY <1>0, <2>2, <3>1, <3>2 DEF ConnectionSource
    <3> QED BY <1>0, <2>1, <2>2, <3>1, <3>3 DEF ExternalOnce
  <2> QED BY <2>2
<1> QED BY <1>1, <1>2

\* Around a transaction that may still send statements there is an active one
\* on its connection.
LEMMA ActiveAround ==
  ASSUME IInv, AroundUnderway, NEW t \in Trx, Connected(t), Underway(t), ~IsCompleted(t)
  PROVE  \E r \in Line(t) : r \in Trx /\ Active(r) /\ conn[r] = conn[t]
<1>1. PICK r \in Line(t) : IsRoot(r) /\ life[r] = "open" /\ conn[r] = conn[t]
  BY HolderOfActive DEF HeldFor
<1>2. r \in Trx /\ ~completed[r] /\ Underway(r)
  BY DEF IInv, TypeOK, Line, IsCompleted, AroundUnderway
<1> QED BY <1>1, <1>2 DEF Active

\* A transaction that nests another has come past its init.
LEMMA TransactorUnderway ==
  ASSUME NEW t \in Trx, stage[t] = "pending" \/ HasTransactor(t)
  PROVE  Underway(t)
BY DEF HasTransactor, Underway

\* A statement sent through a transactor keeps every connection orderly.
LEMMA TransactorOrderly ==
  ASSUME IInv, SessionInv, Lasting, NEW t \in Trx, Connected(t), Underway(t),
         ~IsCompleted(t), NEW k \in Kinds \ Opening, NEW a \in Args,
         Post(conn[t], Message(t, k, a), reply[conn[t]]),
         UNCHANGED <<sess, dead, outer>>,
         k # "query" => (IsNested(t) <=> k \in Inner),
         k \in Finals => completed'[t],
         \A u \in Trx : Waits(u) => StillWaits(u),
         NEW c \in Conn
  PROVE  Orderly(c)'
<1>0. chan \in [Conn -> Seq(Request)] /\ reply \in [Conn -> Seq(Answer)] /\ conn[t] \in Conn
  BY DEF IInv, TypeOK, ConnectionSource
<1>1. PICK m \in Request : m = Message(t, k, a)
  BY MessageType
<1>2. m.trx = t /\ m.kind = k
  BY <1>1 DEF Message
<1>3. PICK d \in Conn : d = conn[t]
  BY <1>0
<1>4. PICK b \in Seq(Answer) : b = reply[d]
  BY <1>0
<1>5. Post(d, m, b)
  BY <1>1, <1>3, <1>4
<1>6. Orderly(c) /\ Orderly(d)
  BY DEF SessionInv
<1>7. CASE c # d
  <2>1. chan'[c] = chan[c] /\ reply'[c] = reply[c]
    BY <1>0, <1>5, <1>7 DEF Post
  <2> QED BY <1>6, <2>1, Elsewhere
<1>8. CASE c = d
  <2>1. PICK r \in Line(t) : r \in Trx /\ Active(r) /\ conn[r] = d
    BY <1>3, ActiveAround DEF SessionInv
  <2>2. /\ \A i \in DOMAIN chan[d] : chan[d][i].kind \notin Opening
        /\ \A i \in DOMAIN reply[d] : reply[d][i].kind \notin Opening
    BY <1>6, <2>1, NobodyOpens
  <2>3. d \notin dead => sess[d].owner \in Line(t) /\ Steady(chan[d])
    BY <2>1 DEF SessionInv, HolderOwns
  <2>4. Sender(m)'
    BY <1>2 DEF Sender, IsNested
  <2>5. \A i \in DOMAIN b : Sender(b[i])'
    <3>1. \A i \in DOMAIN reply[d] : /\ reply[d][i].trx \in Trx /\ Connected(reply[d][i].trx)
                                     /\ Sender(reply[d][i])
      BY <1>6, OnTheWay DEF Orderly, Senders
    <3>2. \A i \in DOMAIN b : b[i].trx \in Trx /\ Connected(b[i].trx) /\ Sender(b[i])
      BY <1>4, <3>1
    <3> QED BY <3>2 DEF Sender, Lasting, IsNested
  <2>6. Line(t)' = Line(t)
    BY DEF Lasting, Line
  <2>7. m.kind \notin Opening
    BY <1>2
  <2>8. \A i \in DOMAIN b : Sender(b[i])' /\ b[i].kind \notin Opening
    BY <1>4, <2>2, <2>5
  <2>9. d \notin dead /\ m.kind \in Inner => sess[d].owner \in Line(m.trx)' /\ Steady(chan[d])
    BY <1>2, <2>3, <2>6
  <2> QED BY <1>5, <1>6, <1>8, <2>2, <2>4, <2>7, <2>8, <2>9, PostOrderly
<1> QED BY <1>7, <1>8

\* A connection acquired, with the first statement sent on it or not.
LEMMA AcquireOrderly ==
  ASSUME IInv, SessionInv, Lasting, NEW t \in Trx, AcquireConnection(t),
         \A u \in Trx : Waits(u) => StillWaits(u),
         NEW c \in Conn
  PROVE  Orderly(c)'
<1>0. /\ TypeOK /\ chan \in [Conn -> Seq(Request)] /\ reply \in [Conn -> Seq(Answer)]
  BY DEF IInv, TypeOK
<1>1. PICK d \in Candidates(t) :
        /\ conn' = [conn EXCEPT ![t] = d]
        /\ IF IsCompleted(t) THEN UNCHANGED <<chan, reply>>
           ELSE Post(d, Message(t, InitKind(t), "undefined"), reply[d])
  BY DEF AcquireConnection
<1>2. d \in Conn
  BY <1>1, CandidatesAreConnections
<1>3. /\ life[t] = "queued" /\ life' = [life EXCEPT ![t] = "open"]
      /\ completed' = [completed EXCEPT ![t] = IsCompleted(t)]
      /\ UNCHANGED <<tree, sess, dead>>
  BY DEF AcquireConnection, server
<1>4. Orderly(c) /\ Orderly(d)
  BY <1>2 DEF SessionInv
<1>5. CASE chan'[c] = chan[c] /\ reply'[c] = reply[c]
  BY <1>3, <1>4, <1>5, Elsewhere
<1>6. CASE IsCompleted(t)
  BY <1>1, <1>5, <1>6
<1>7. CASE ~IsCompleted(t) /\ c # d
  <2>1. chan'[c] = chan[c] /\ reply'[c] = reply[c]
    BY <1>0, <1>1, <1>7 DEF Post
  <2> QED BY <1>5, <2>1
<1>8. CASE ~IsCompleted(t) /\ c = d
  <2>1. PICK m \in Request : m = Message(t, InitKind(t), "undefined")
    BY MessageType DEF InitKind, Kinds, Args
  <2>2. m.trx = t /\ m.kind = InitKind(t)
    BY <2>1 DEF Message
  <2>3. PICK b \in Seq(Answer) : b = reply[c]
    BY <1>0
  <2>4. Post(c, m, b)
    BY <1>1, <1>8, <2>1, <2>3
  <2>5. Sender(m)'
    BY <1>3, <2>2 DEF Sender, IsNested, InitKind, Inner, Finals, tree
  <2>6. \A i \in DOMAIN b : Sender(b[i])'
    <3>1. \A i \in DOMAIN reply[c] : /\ reply[c][i].trx \in Trx /\ Connected(reply[c][i].trx)
                                     /\ Sender(reply[c][i])
      BY <1>4, OnTheWay DEF Orderly, Senders
    <3>2. \A i \in DOMAIN b : b[i].trx \in Trx /\ Connected(b[i].trx) /\ Sender(b[i])
      BY <2>3, <3>1
    <3> QED BY <3>2 DEF Sender, Lasting, IsNested
  <2>7. CASE IsNested(t)
    <3> DEFINE p == outer[t]
    <3>1. p \in Trx /\ Connected(p) /\ anc[t] = Line(p) /\ c = conn[p]
      BY <1>0, <1>1, <1>8, <2>7 DEF IInv, Nesting, TypeOK, IsNested, Candidates
    <3>2. ~IsCompleted(p) /\ Underway(p)
      BY <1>8, <3>1 DEF IsCompleted, Line, SessionInv, AroundUnderway
    <3>3. PICK r \in Line(p) : r \in Trx /\ Active(r) /\ conn[r] = c
      BY <3>1, <3>2, ActiveAround DEF SessionInv
    <3>4. /\ \A i \in DOMAIN chan[c] : chan[c][i].kind \notin Opening
          /\ \A i \in DOMAIN reply[c] : reply[c][i].kind \notin Opening
      BY <1>4, <3>3, NobodyOpens
    <3>5. c \notin dead => sess[c].owner \in Line(t) /\ Steady(chan[c])
      BY <3>1, <3>3 DEF SessionInv, HolderOwns, Line
    <3>6. Line(t)' = Line(t)
      BY <1>3 DEF Line, tree
    <3>7. m.kind \notin Opening
      BY <2>2, <2>7 DEF InitKind, Opening
    <3>8. \A i \in DOMAIN b : Sender(b[i])' /\ b[i].kind \notin Opening
      BY <2>3, <2>6, <3>4
    <3>9. c \notin dead /\ m.kind \in Inner => sess[c].owner \in Line(m.trx)' /\ Steady(chan[c])
      BY <2>2, <3>5, <3>6
    <3> QED BY <1>3, <1>4, <2>4, <2>5, <3>4, <3>7, <3>8, <3>9, PostOrderly
  <2>8. CASE ~IsNested(t)
    <3>1. \A r \in Trx : IsRoot(r) /\ life[r] = "open" => conn[r] # c
      BY <1>1, <1>3, <1>8, <2>8, CandidateUnheld
    <3>2. /\ \A i \in DOMAIN chan[c] : chan[c][i].kind \notin Opening
          /\ \A i \in DOMAIN reply[c] : reply[c][i].kind \notin Opening
      BY <1>4, <3>1, NobodyOpensUnheld
    <3>3. m.kind \in Opening /\ m.kind \notin Inner
      BY <2>2, <2>8 DEF InitKind, Opening, Inner
    <3>4. Opens(m)'
      <4>1. stage'[t] = InitKind(t)
        BY <1>0, <1>8, <2>8 DEF AcquireConnection, InitKind, TypeOK
      <4>2. life'[t] = "open" /\ ~completed'[t]
        BY <1>0, <1>3, <1>8 DEF TypeOK
      <4> QED BY <2>2, <4>1, <4>2 DEF Opens
    <3>5. \A i \in DOMAIN b : Sender(b[i])' /\ b[i].kind \notin Opening
      BY <2>3, <2>6, <3>2
    <3> QED BY <1>3, <1>4, <2>4, <2>5, <3>2, <3>3, <3>4, <3>5, PostOrderly
  <2> QED BY <2>7, <2>8
<1> QED BY <1>6, <1>7, <1>8

\* What delivering an answer means for the queues: it is taken off, or BEGIN
\* follows the isolation level.
LEMMA Delivered ==
  ASSUME IInv, SessionInv, NEW d \in Conn, Deliver(d)
  PROVE  \E m \in Answer :
           /\ reply[d] # <<>> /\ m = Head(reply[d]) /\ m = reply[d][1] /\ 1 \in DOMAIN reply[d]
           /\ m.trx \in Trx /\ Connected(m.trx) /\ conn[m.trx] = d /\ Sender(m)
           /\ m.kind \in Opening =>
                /\ Waits(m.trx) /\ stage[m.trx] = m.kind /\ chan[d] = <<>>
                /\ Len(reply[d]) = 1 /\ Tail(reply[d]) = <<>>
                /\ m.kind = "begin" /\ m.ok /\ d \notin dead => sess[d].owner = m.trx
           /\ UNCHANGED <<life, tree, conn, sess, dead>>
           /\ \/ /\ m.kind = "isolation" /\ m.ok
                 /\ Post(d, Message(m.trx, "begin", "undefined"), Tail(reply[d]))
                 /\ stage' = [stage EXCEPT ![m.trx] = "begin"] /\ completed' = completed
              \/ /\ chan' = chan /\ reply' = [reply EXCEPT ![d] = Tail(reply[d])]
                 /\ m.kind \in Opening /\ stage' = [stage EXCEPT ![m.trx] = "invoke"]
                 /\ \/ /\ completed' = [completed EXCEPT ![m.trx] = TRUE]
                       /\ m.ok => m.kind = "isolation"
                    \/ completed' = completed /\ m.kind = "begin" /\ m.ok
              \/ /\ chan' = chan /\ reply' = [reply EXCEPT ![d] = Tail(reply[d])]
                 /\ m.kind = "savepoint" /\ stage' = [stage EXCEPT ![m.trx] = "invoke"]
                 /\ completed' \in {completed, [completed EXCEPT ![m.trx] = TRUE]}
              \/ /\ chan' = chan /\ reply' = [reply EXCEPT ![d] = Tail(reply[d])]
                 /\ m.kind \in Finals \cup {"query"} /\ stage' = stage
                 /\ completed' = completed
<1>0. TypeOK /\ reply \in [Conn -> Seq(Answer)] /\ Orderly(d)
  BY DEF IInv, TypeOK, SessionInv
<1>1. PICK m \in Answer : m = Head(reply[d]) /\ m = reply[d][1] /\ 1 \in DOMAIN reply[d]
                          /\ reply[d] # <<>>
  BY <1>0, TailAt DEF Deliver
<1>2. m.trx \in Trx /\ Connected(m.trx) /\ conn[m.trx] = d /\ Sender(m)
  BY <1>0, <1>1, OnTheWay DEF Orderly, Senders
<1>3. m.kind \in Opening =>
        /\ Waits(m.trx) /\ stage[m.trx] = m.kind /\ chan[d] = <<>> /\ Len(reply[d]) = 1
        /\ m.kind = "begin" /\ m.ok /\ d \notin dead => sess[d].owner = m.trx
  <2>1. SUFFICES ASSUME m.kind \in Opening
                 PROVE  /\ Waits(m.trx) /\ stage[m.trx] = m.kind /\ chan[d] = <<>>
                        /\ Len(reply[d]) = 1
                        /\ m.kind = "begin" /\ m.ok /\ d \notin dead => sess[d].owner = m.trx
    OBVIOUS
  <2>2. /\ 1 = Len(reply[d]) /\ chan[d] = <<>> /\ Opens(reply[d][1])
        /\ reply[d][1].kind = "begin" /\ reply[d][1].ok /\ d \notin dead
             => sess[d].owner = reply[d][1].trx
    <3>1. OpeningIsLast(d) /\ 1 \in DOMAIN reply[d] /\ reply[d][1].kind \in Opening
      BY <1>0, <1>1, <2>1 DEF Orderly
    <3> QED BY <3>1, Zenon DEF OpeningIsLast
  <2>3. Opens(m)
    BY <1>1, <2>2 DEF Opens
  <2>4. Waits(m.trx)
    BY <1>2, <2>1, <2>3, OpenerWaits
  <2> QED BY <1>1, <2>2, <2>3, <2>4 DEF Opens
<1>4. Len(reply[d]) = 1 => Tail(reply[d]) = <<>>
  BY <1>0, OnlyOne
<1>5. UNCHANGED <<life, tree, conn, sess, dead>>
  BY DEF Deliver, server
<1> DEFINE rest == Tail(reply[d])
<1>6. \/ InitFailed(d, m, rest) \/ IsolationSet(d, m, rest)
      \/ Begun(d, m, rest) \/ Finished(d, m, rest) \/ Queried(d, m, rest)
  BY <1>1 DEF Deliver
<1> HIDE DEF rest
<1>7. CASE IsolationSet(d, m, rest)
  BY <1>1, <1>2, <1>3, <1>4, <1>5, <1>7 DEF IsolationSet, rest
<1>8. CASE InitFailed(d, m, rest)
  BY <1>1, <1>2, <1>3, <1>4, <1>5, <1>8 DEF InitFailed, Rejected, Consumed, Opening, rest
<1>9. CASE Begun(d, m, rest)
  BY <1>1, <1>2, <1>3, <1>4, <1>5, <1>9 DEF Begun, Consumed, Opening, rest
<1>10. CASE Finished(d, m, rest)
  <2>1. m.kind \in Finals /\ completed[m.trx]
    BY <1>2, <1>10 DEF Finished, Sender
  <2>2. completed' = completed
    BY <1>0, <1>2, <1>10, <2>1 DEF Finished, TypeOK
  <2>3. stage' = stage /\ chan' = chan /\ reply' = [reply EXCEPT ![d] = rest]
    BY <1>10 DEF Finished, Consumed
  <2>4. m.kind \notin Opening
    BY <2>1 DEF Finals, Opening
  <2> QED BY <1>1, <1>2, <1>3, <1>4, <1>5, <2>1, <2>2, <2>3, <2>4 DEF rest
<1>11. CASE Queried(d, m, rest)
  BY <1>1, <1>2, <1>3, <1>4, <1>5, <1>11 DEF Queried, Consumed, Opening, rest
<1> QED BY <1>6, <1>7, <1>8, <1>9, <1>10, <1>11

LEMMA DeliverOrderly ==
  ASSUME IInv, SessionInv, Lasting, [Next]_vars, NEW d \in Conn, Deliver(d), NEW c \in Conn
  PROVE  Orderly(c)'
<1>0. TypeOK /\ chan \in [Conn -> Seq(Request)] /\ reply \in [Conn -> Seq(Answer)]
      /\ Orderly(c) /\ Orderly(d)
  BY DEF IInv, TypeOK, SessionInv
<1>1. PICK m \in Answer :
           /\ reply[d] # <<>> /\ m = Head(reply[d]) /\ m = reply[d][1] /\ 1 \in DOMAIN reply[d]
           /\ m.trx \in Trx /\ Connected(m.trx) /\ conn[m.trx] = d /\ Sender(m)
           /\ m.kind \in Opening =>
                /\ Waits(m.trx) /\ stage[m.trx] = m.kind /\ chan[d] = <<>>
                /\ Tail(reply[d]) = <<>>
           /\ UNCHANGED <<life, tree, conn, sess, dead>>
           /\ \/ /\ m.kind = "isolation" /\ m.ok
                 /\ Post(d, Message(m.trx, "begin", "undefined"), Tail(reply[d]))
                 /\ stage' = [stage EXCEPT ![m.trx] = "begin"] /\ completed' = completed
              \/ /\ chan' = chan /\ reply' = [reply EXCEPT ![d] = Tail(reply[d])]
                 /\ m.kind \in Opening \cup {"savepoint"}
              \/ /\ chan' = chan /\ reply' = [reply EXCEPT ![d] = Tail(reply[d])]
                 /\ m.kind \in Finals \cup {"query"} /\ stage' = stage
                 /\ completed' = completed
  BY Delivered
<1>2. CASE c # d
  <2>1. chan'[c] = chan[c] /\ reply'[c] = reply[c]
    <3>1. CASE chan' = chan /\ reply' = [reply EXCEPT ![d] = Tail(reply[d])]
      BY <1>0, <1>2, <3>1
    <3>2. CASE Post(d, Message(m.trx, "begin", "undefined"), Tail(reply[d]))
      BY <1>0, <1>2, <3>2 DEF Post
    <3> QED BY <1>1, <3>1, <3>2
  <2>2. \A t \in Trx : Waits(t) /\ conn[t] = c => StillWaits(t)
    <3>1. ASSUME NEW t \in Trx, Waits(t), conn[t] = c
          PROVE  StillWaits(t)
      <4>1. StillWaits(t) \/ Head(reply[d]).trx = t
        BY <3>1, WaitsStep
      <4> QED BY <1>1, <1>2, <3>1, <4>1
    <3> QED BY <3>1
  <2> QED BY <1>0, <1>1, <2>1, <2>2, Elsewhere
<1>3. CASE /\ c = d /\ m.kind = "isolation"
           /\ Post(d, Message(m.trx, "begin", "undefined"), Tail(reply[d]))
           /\ stage' = [stage EXCEPT ![m.trx] = "begin"] /\ completed' = completed
  <2>1. /\ Waits(m.trx) /\ chan[c] = <<>> /\ Tail(reply[d]) = <<>>
    BY <1>1, <1>3 DEF Opening
  <2>2. PICK n \in Request : n = Message(m.trx, "begin", "undefined")
    BY <1>1, MessageType DEF Kinds, Args
  <2>3. n.trx = m.trx /\ n.kind = "begin"
    BY <2>2 DEF Message
  <2>4. PICK b \in Seq(Answer) : b = <<>>
    BY EmptySeq
  <2>5. Post(c, n, b)
    BY <1>3, <2>1, <2>2, <2>4
  <2>6. DOMAIN b = {} /\ DOMAIN chan[c] = {}
    BY <2>1, <2>4
  <2>7. Sender(n)' /\ Opens(n)' /\ n.kind \notin Inner
    <3>1. life'[m.trx] = "open" /\ ~completed'[m.trx] /\ stage'[m.trx] = "begin"
          /\ outer'[m.trx] = NoTrx
      BY <1>0, <1>1, <1>3, <2>1 DEF Waits, IsNested, TypeOK, tree
    <3> QED BY <2>3, <3>1 DEF Sender, Opens, IsNested, Inner, Finals
  <2> QED BY <1>0, <1>1, <1>3, <2>5, <2>6, <2>7, PostOrderly
<1>4. CASE /\ c = d /\ chan' = chan /\ reply' = [reply EXCEPT ![d] = Tail(reply[d])]
           /\ m.kind \in Opening
  BY <1>0, <1>1, <1>4, ConsumeOrderly
<1>5. CASE /\ c = d /\ chan' = chan /\ reply' = [reply EXCEPT ![d] = Tail(reply[d])]
           /\ m.kind = "savepoint" \/ UNCHANGED <<stage, completed>>
  <2>1. ASSUME NEW t \in Trx, Waits(t), conn[t] = c
        PROVE  StillWaits(t)
    <3>1. CASE UNCHANGED <<stage, completed>>
      BY <1>1, <2>1, <3>1 DEF Waits, StillWaits
    <3>2. CASE m.kind = "savepoint"
      <4>1. IsNested(m.trx)
        BY <1>1, <3>2 DEF Sender, Inner
      <4>2. m.trx # t
        BY <2>1, <4>1 DEF Waits
      <4> QED BY <1>1, <2>1, <4>2, WaitsStep
    <3> QED BY <1>5, <3>1, <3>2
  <2> QED BY <1>0, <1>1, <1>5, <2>1, ConsumeOrderly
<1> QED BY <1>1, <1>2, <1>3, <1>4, <1>5

\* A transaction that commits or rolls back, and what it sends for that.
LEMMA Finishing ==
  ASSUME TypeOK, NEW t \in Trx, Commit(t) \/ (\E a \in Args : Rollback(t, a))
  PROVE  \/ IsCompleted(t) /\ chan' = chan /\ reply' = reply
         \/ \E k \in Finals, a \in Args :
              /\ ~IsCompleted(t) /\ completed'[t] /\ (IsNested(t) <=> k \in Inner)
              /\ Post(conn[t], Message(t, k, a), reply[conn[t]])
<1> DEFINE Sent(k, a) == /\ k \in Finals /\ a \in Args /\ (IsNested(t) <=> k \in Inner)
                         /\ Finish(t, k, a)
<1>1. \E k, a : Sent(k, a)
  <2>1. CASE Commit(t)
    <3>1. CASE IsNested(t)
      <4>1. Sent("release", "undefined")
        BY <2>1, <3>1 DEF Commit, Finals, Args, Inner
      <4> QED BY <4>1
    <3>2. CASE ~IsNested(t)
      <4>1. Sent("commit", "undefined")
        BY <2>1, <3>2 DEF Commit, Finals, Args, Inner
      <4> QED BY <4>1
    <3> QED BY <3>1, <3>2
  <2>2. ASSUME NEW a \in Args, Rollback(t, a)
        PROVE  \E k : Sent(k, a)
    <3>1. CASE IsNested(t)
      <4>1. Sent("rollbackTo", a)
        BY <2>2, <3>1 DEF Rollback, Finals, Inner
      <4> QED BY <4>1
    <3>2. CASE ~IsNested(t)
      <4>1. Sent("rollback", a)
        BY <2>2, <3>2 DEF Rollback, Finals, Inner
      <4> QED BY <4>1
    <3> QED BY <3>1, <3>2
  <2> QED BY <2>1, <2>2
<1>2. PICK k, a : Sent(k, a)
  BY <1>1
<1>3. CASE IsCompleted(t)
  BY <1>2, <1>3 DEF Finish
<1>4. CASE ~IsCompleted(t)
  <2>1. completed' = [completed EXCEPT ![t] = TRUE]
        /\ Post(conn[t], Message(t, k, a), reply[conn[t]])
    BY <1>2, <1>4 DEF Finish
  <2> QED BY <1>2, <1>4, <2>1 DEF TypeOK
<1> QED BY <1>3, <1>4

\* The steps that send no answer and leave all connections alone.
Aside(t) ==
  \/ NewTransaction(t) \/ (\E p \in Trx \ {t} : NewNested(p, t))
  \/ AcquireFail(t) \/ InvokeContainer(t) \/ RollbackTimeout(t) \/ Release(t)

LEMMA AsideAlone ==
  ASSUME UNCHANGED vars \/ \E t \in Trx : Aside(t)
  PROVE  UNCHANGED <<chan, reply, sess, dead>>
BY DEF Aside, NewTransaction, NewNested, AcquireFail, InvokeContainer, RollbackTimeout,
       Release, vars, server

LEMMA OrderlyStep ==
  ASSUME IInv, SessionInv, [Next]_vars, NEW c \in Conn
  PROVE  Orderly(c)'
<1>0. TypeOK /\ chan \in [Conn -> Seq(Request)] /\ reply \in [Conn -> Seq(Answer)]
      /\ sess \in [Conn -> SessionState] /\ Orderly(c)
  BY DEF IInv, TypeOK, SessionInv
<1>1. Lasting
  <2>1. \A d \in Conn : OpeningIsLast(d)
    BY DEF SessionInv, Orderly
  <2> QED BY <2>1, LastingStep
<1>2. ASSUME Undelivered
      PROVE  \A t \in Trx : Waits(t) => StillWaits(t)
  BY <1>2, WaitsStep
<1>3. ASSUME Undelivered, chan'[c] = chan[c], reply'[c] = reply[c],
             sess'[c] = sess[c], c \in dead' <=> c \in dead
      PROVE  Orderly(c)'
  BY <1>0, <1>1, <1>2, <1>3, Elsewhere
<1>4. CASE UNCHANGED vars \/ \E t \in Trx : Aside(t)
  <2>1. UNCHANGED <<chan, reply, sess, dead>>
    BY <1>4, AsideAlone
  <2>2. Undelivered
    BY <1>4 DEF Undelivered, Aside, User, Runtime
  <2> QED BY <1>3, <2>1, <2>2
<1>5. ASSUME NEW t \in Trx, AcquireConnection(t)
      PROVE  Orderly(c)'
  <2>1. Undelivered
    BY <1>5 DEF Undelivered, Runtime
  <2> QED BY <1>1, <1>2, <1>5, <2>1, AcquireOrderly
<1>6. ASSUME NEW t \in Trx, ContainerSettles(t) \/ UserFinishes(t)
      PROVE  Orderly(c)'
  <2>1. Undelivered
    BY <1>6 DEF Undelivered, User
  <2>2. /\ Connected(t) /\ Underway(t) /\ UNCHANGED <<sess, dead, outer>>
        /\ Commit(t) \/ (\E a \in Args : Rollback(t, a))
    <3>1. UNCHANGED <<sess, dead, outer>> /\ (Commit(t) \/ \E a \in Args : Rollback(t, a))
      BY <1>6 DEF ContainerSettles, UserFinishes, server, tree
    <3>2. Underway(t)
      BY <1>6, TransactorUnderway DEF ContainerSettles, UserFinishes
    <3>3. Connected(t)
      BY <3>2, TransactorConnected DEF Underway
    <3> QED BY <3>1, <3>2, <3>3
  <2>3. CASE chan' = chan /\ reply' = reply
    BY <1>3, <2>1, <2>2, <2>3
  <2>4. ASSUME NEW k \in Finals, NEW a \in Args,
               /\ ~IsCompleted(t) /\ completed'[t] /\ (IsNested(t) <=> k \in Inner)
               /\ Post(conn[t], Message(t, k, a), reply[conn[t]])
        PROVE  Orderly(c)'
    <3>1. k \in Kinds \ Opening
      BY DEF Finals, Kinds, Opening
    <3> QED BY <1>1, <1>2, <2>1, <2>2, <2>4, <3>1, TransactorOrderly
  <2> QED BY <1>0, <2>2, <2>3, <2>4, Finishing
<1>7. ASSUME NEW t \in Trx, UserQuery(t)
      PROVE  Orderly(c)'
  <2>1. Undelivered
    BY <1>7 DEF Undelivered, User
  <2>2. UNCHANGED <<sess, dead, outer>>
    BY <1>7 DEF UserQuery, server, tree
  <2>3. Underway(t)
    BY <1>7, TransactorUnderway DEF UserQuery
  <2>4. Connected(t)
    BY <2>3, TransactorConnected DEF Underway
  <2>5. CASE IsCompleted(t)
    <3>1. chan' = chan /\ reply' = reply
      BY <1>7, <2>5 DEF UserQuery
    <3> QED BY <1>3, <2>1, <2>2, <3>1
  <2>6. CASE ~IsCompleted(t)
    <3>1. Post(conn[t], Message(t, "query", "undefined"), reply[conn[t]])
      BY <1>7, <2>6 DEF UserQuery
    <3>2. "query" \in Kinds \ Opening /\ "undefined" \in Args /\ "query" \notin Finals
      BY DEF Kinds, Opening, Args, Finals
    <3> QED BY <1>1, <1>2, <2>1, <2>2, <2>3, <2>4, <2>6, <3>1, <3>2, TransactorOrderly
  <2> QED BY <2>5, <2>6
<1>8. ASSUME NEW d \in Conn, Execute(d) \/ Disconnect(d) \/ ReplaceConnection(d)
      PROVE  Orderly(c)'
  <2>1. Undelivered
    BY <1>8 DEF Undelivered
  <2>2. \A t \in Trx : Waits(t) /\ conn[t] = c => StillWaits(t)
    BY <1>2, <2>1
  <2>3. CASE c = d
    <3>1. Execute(c) \/ Disconnect(c) \/ ReplaceConnection(c)
      BY <1>8, <2>3
    <3> QED BY <1>0, <1>1, <2>2, <3>1, ExecuteOrderly, DisconnectOrderly, ReplaceOrderly
  <2>4. CASE c # d
    <3>1. CASE Execute(d)
      <4>1. sess'[c] = sess[c] /\ chan'[c] = chan[c] /\ dead' = dead
        BY <1>0, <2>4, <3>1 DEF Execute
      <4>2. reply'[c] = reply[c]
        BY <1>0, <2>4, <3>1 DEF Execute
      <4> QED BY <1>3, <2>1, <4>1, <4>2
    <3>2. CASE Disconnect(d) \/ ReplaceConnection(d)
      <4>1. /\ chan'[c] = chan[c] /\ reply'[c] = reply[c]
            /\ sess'[c] = sess[c] /\ (c \in dead' <=> c \in dead)
        BY <1>0, <2>4, <3>2 DEF Disconnect, ReplaceConnection
      <4> QED BY <1>3, <2>1, <4>1
    <3> QED BY <1>8, <3>1, <3>2
  <2> QED BY <2>3, <2>4
<1>9. ASSUME NEW d \in Conn, Deliver(d)
      PROVE  Orderly(c)'
  BY <1>1, <1>9, DeliverOrderly
<1> QED BY <1>4, <1>5, <1>6, <1>7, <1>8, <1>9 DEF Next, User, Runtime, Network, Aside

-----------------------------------------------------------------------------
(* The parts that relate connections to the tree of transactions *)

\* Nesting starts from a transactor, and what is past its init stays there.
LEMMA AroundUnderwayStep ==
  ASSUME IInv, SessionInv, [Next]_vars
  PROVE  AroundUnderway'
<1>0. TypeOK /\ LifeCycle /\ Nesting /\ AroundUnderway
  BY DEF IInv, SessionInv
<1>1. Lasting
  <2>1. \A d \in Conn : OpeningIsLast(d)
    BY DEF SessionInv, Orderly
  <2> QED BY <2>1, LastingStep
<1>2. ASSUME NEW a \in Trx, Underway(a)
      PROVE  Underway(a)'
  <2>1. Connected(a)
    BY <1>0, <1>2 DEF LifeCycle, Underway
  <2> QED BY <1>1, <1>2, <2>1 DEF Lasting
<1>3. CASE anc' = anc
  BY <1>0, <1>2, <1>3 DEF AroundUnderway, TypeOK
<1>4. ASSUME NEW t \in Trx, NEW p \in Trx, NewNested(p, t)
      PROVE  AroundUnderway'
  <2>1. Underway(p) /\ anc' = [anc EXCEPT ![t] = Line(p)]
    BY <1>4, TransactorUnderway DEF NewNested
  <2>2. \A a \in Line(p) : a \in Trx /\ Underway(a)
    BY <1>0, <2>1 DEF AroundUnderway, Line, TypeOK
  <2>3. \A u \in Trx : \A a \in anc'[u] : a \in Trx /\ Underway(a)
    BY <1>0, <2>1, <2>2 DEF AroundUnderway, TypeOK
  <2> QED BY <1>2, <2>3 DEF AroundUnderway
<1>5. anc' = anc \/ \E t \in Trx, p \in Trx : NewNested(p, t)
  <2>1. ASSUME NEW u \in Trx, \/ NewTransaction(u) \/ AcquireConnection(u)
                              \/ AcquireFail(u) \/ Release(u)
        PROVE  anc' = anc
    BY <2>1 DEF NewTransaction, AcquireConnection, AcquireFail, Release, tree
  <2> QED BY <2>1, LifeSteps DEF tree
<1> QED BY <1>3, <1>4, <1>5

\* A statement that goes to the connection of an active transaction and comes
\* from a transaction connected there neither begins a transaction of the
\* server nor ends one, unless the active one sent it.
LEMMA SentAtHolder ==
  ASSUME IInv, NEW r \in Trx, Active(r), NEW t \in Trx, Connected(t),
         ~IsCompleted(t), conn[t] = conn[r], t # r,
         NEW k \in Finals \cup {"query"}, k # "query" => (IsNested(t) <=> k \in Inner)
  PROVE  k \notin Boundary
<1>1. PICK q \in Line(t) : IsRoot(q) /\ life[q] = "open" /\ conn[q] = conn[r]
  BY HolderOfActive DEF HeldFor
<1>2. q = r
  <2>1. q \in Trx
    BY DEF IInv, TypeOK, Line
  <2> QED BY <1>1, <2>1 DEF IInv, ConnectionOwnership, Active
<1>3. IsNested(t)
  <2>1. anc[t] # {}
    BY <1>1, <1>2 DEF Line
  <2>2. ~IsNested(t) => life[t] # "none" /\ IsRoot(t)
    BY DEF Connected, IsRoot, IsNested
  <2>3. ~IsNested(t) => life[t] = "open"
    <3>1. exec[t] = "pending"
      BY DEF IInv, SettledIsCompleted, IsCompleted, Line
    <3> QED BY <3>1 DEF IInv, LifeCycle, Connected
  <2> QED BY <2>2, <2>3 DEF IInv, ConnectionOwnership, Active
<1> QED BY <1>3 DEF Inner, Finals, Boundary

\* A queue with one more statement is steady if the statement is.
LEMMA SteadyPost ==
  ASSUME IInv, NEW c \in Conn, NEW m \in Request, m.kind \notin Boundary, NEW b,
         Post(c, m, b), NEW d \in Conn, Steady(chan[d])
  PROVE  Steady(chan'[d])
<1>0. chan \in [Conn -> Seq(Request)]
  BY DEF IInv, TypeOK
<1>1. CASE chan'[d] = chan[d]
  BY <1>1
<1>2. CASE chan'[d] # chan[d]
  <2>1. d = c /\ chan'[d] = Append(chan[d], m)
    BY <1>0, <1>2 DEF Post
  <2>2. /\ DOMAIN chan[d] = 1 .. Len(chan[d]) /\ DOMAIN chan'[d] = 1 .. Len(chan[d]) + 1
        /\ Len(chan[d]) \in Nat
        /\ \A i \in 1 .. Len(chan[d]) : chan'[d][i] = chan[d][i]
        /\ chan'[d][Len(chan[d]) + 1] = m
    BY <1>0, <2>1, AppendAt
  <2>3. \A i \in DOMAIN chan'[d] : i \in DOMAIN chan[d] \/ i = Len(chan[d]) + 1
    BY <2>2
  <2> QED BY <2>2, <2>3 DEF Steady
<1> QED BY <1>1, <1>2

\* What stays true of an active transaction that was active before: the session
\* is its own.
LEMMA StillHolds ==
  ASSUME IInv, SessionInv, [Next]_vars, NEW r \in Trx, Active(r), Active(r)',
         NEW c \in Conn, conn[r] = c, conn'[r] = c, c \notin dead'
  PROVE  sess'[c].owner = r /\ Steady(chan'[c])
<1>0. TypeOK /\ chan \in [Conn -> Seq(Request)] /\ sess \in [Conn -> SessionState]
      /\ Orderly(c) /\ life[r] = "open" /\ IsRoot(r) /\ ~completed'[r]
  BY DEF IInv, TypeOK, SessionInv, Active
<1>1. c \notin free
  BY <1>0 DEF IInv, ConnectionOwnership
<1>2. c \notin dead
  <2>1. ASSUME NEW d \in Conn, ReplaceConnection(d)
        PROVE  d # c
    BY <1>1, <2>1 DEF ReplaceConnection
  <2>2. (\E d \in Conn : ReplaceConnection(d)) \/ dead \subseteq dead'
    BY DEF Next, User, Runtime, Network, NewTransaction, NewNested, ContainerSettles,
       UserFinishes, UserQuery, AcquireConnection, AcquireFail, InvokeContainer,
       RollbackTimeout, Release, Execute, Deliver, Disconnect, vars, server
  <2>3. ASSUME NEW d \in Conn, ReplaceConnection(d)
        PROVE  c \in dead => c \in dead'
    BY <2>1, <2>3 DEF ReplaceConnection
  <2> QED BY <2>2, <2>3
<1>3. sess[c].owner = r /\ Steady(chan[c])
  BY <1>2 DEF SessionInv, HolderOwns
<1>4. CASE UNCHANGED vars \/ (\E t \in Trx : Aside(t)) \/ \E d \in Conn : ReplaceConnection(d)
  <2>1. chan' = chan /\ sess' = sess
    BY <1>4, AsideAlone DEF ReplaceConnection
  <2> QED BY <1>3, <2>1
<1>5. ASSUME NEW t \in Trx, Connected(t), ~IsCompleted(t), t # r, sess' = sess,
             NEW k \in Finals \cup {"query"}, k # "query" => (IsNested(t) <=> k \in Inner),
             NEW a \in Args, Post(conn[t], Message(t, k, a), reply[conn[t]])
      PROVE  sess'[c].owner = r /\ Steady(chan'[c])
  <2>1. k \in Kinds /\ conn[t] \in Conn
    BY <1>5 DEF Finals, Kinds, IInv, ConnectionSource
  <2>2. PICK m \in Request : m = Message(t, k, a)
    BY <2>1, MessageType
  <2>3. m.kind = k
    BY <2>2 DEF Message
  <2>4. CASE conn[t] = c
    <3>1. k \notin Boundary
      BY <1>5, <2>4, SentAtHolder
    <3> QED BY <1>3, <1>5, <2>1, <2>2, <2>3, <3>1, SteadyPost
  <2>5. CASE conn[t] # c
    <3>1. chan'[c] = chan[c]
      BY <1>0, <1>5, <2>1, <2>5 DEF Post
    <3> QED BY <1>3, <1>5, <3>1
  <2> QED BY <2>4, <2>5
<1>6. ASSUME NEW t \in Trx, ContainerSettles(t) \/ UserFinishes(t)
      PROVE  sess'[c].owner = r /\ Steady(chan'[c])
  <2>1. /\ Connected(t) /\ sess' = sess
        /\ Commit(t) \/ (\E a \in Args : Rollback(t, a))
    BY <1>6, TransactorConnected DEF ContainerSettles, UserFinishes, HasTransactor, server
  <2>2. CASE chan' = chan /\ reply' = reply
    BY <1>3, <2>1, <2>2
  <2>3. ASSUME NEW k \in Finals, NEW a \in Args,
               /\ ~IsCompleted(t) /\ completed'[t] /\ (IsNested(t) <=> k \in Inner)
               /\ Post(conn[t], Message(t, k, a), reply[conn[t]])
        PROVE  sess'[c].owner = r /\ Steady(chan'[c])
    BY <1>0, <1>5, <2>1, <2>3
  <2> QED BY <1>0, <2>1, <2>2, <2>3, Finishing
<1>7. ASSUME NEW t \in Trx, UserQuery(t)
      PROVE  sess'[c].owner = r /\ Steady(chan'[c])
  <2>1. Connected(t) /\ sess' = sess
    BY <1>7, TransactorConnected DEF UserQuery, HasTransactor, server
  <2>2. CASE IsCompleted(t)
    BY <1>3, <1>7, <2>1, <2>2 DEF UserQuery
  <2>3. CASE ~IsCompleted(t)
    <3>1. Post(conn[t], Message(t, "query", "undefined"), reply[conn[t]])
      BY <1>7, <2>3 DEF UserQuery
    <3>2. CASE t = r
      <4>1. PICK m \in Request : m = Message(t, "query", "undefined")
        BY MessageType DEF Kinds, Args
      <4>2. m.kind \notin Boundary
        BY <4>1 DEF Message, Boundary
      <4>3. Post(c, m, reply[c])
        BY <3>1, <3>2, <4>1
      <4> QED BY <1>3, <2>1, <4>2, <4>3, SteadyPost
    <3>3. CASE t # r
      BY <1>5, <2>1, <2>3, <3>1, <3>3 DEF Args
    <3> QED BY <3>2, <3>3
  <2> QED BY <2>2, <2>3
<1>8. ASSUME NEW t \in Trx, AcquireConnection(t)
      PROVE  sess'[c].owner = r /\ Steady(chan'[c])
  <2>1. PICK d \in Candidates(t) :
          IF IsCompleted(t) THEN UNCHANGED <<chan, reply>>
          ELSE Post(d, Message(t, InitKind(t), "undefined"), reply[d])
    BY <1>8 DEF AcquireConnection
  <2>2. life[t] = "queued" /\ sess' = sess /\ d \in Conn
    BY <1>8, CandidatesAreConnections DEF AcquireConnection, server
  <2>3. CASE IsCompleted(t)
    BY <1>3, <2>1, <2>2, <2>3
  <2>4. CASE ~IsCompleted(t)
    <3>1. PICK m \in Request : m = Message(t, InitKind(t), "undefined")
      BY MessageType DEF InitKind, Kinds, Args
    <3>2. m.kind = InitKind(t) /\ Post(d, m, reply[d])
      BY <2>1, <2>4, <3>1 DEF Message
    <3>3. CASE IsNested(t)
      <4>1. m.kind \notin Boundary
        BY <3>2, <3>3 DEF InitKind, Boundary
      <4> QED BY <1>3, <2>2, <3>2, <4>1, SteadyPost
    <3>4. CASE ~IsNested(t)
      <4>1. d # c
        BY <1>0, <2>2, <3>4, CandidateUnheld
      <4>2. chan'[c] = chan[c]
        BY <1>0, <2>2, <3>2, <4>1 DEF Post
      <4> QED BY <1>3, <2>2, <4>2
    <3> QED BY <3>3, <3>4
  <2> QED BY <2>3, <2>4
<1>9. ASSUME NEW d \in Conn, Execute(d)
      PROVE  sess'[c].owner = r /\ Steady(chan'[c])
  <2>1. CASE d # c
    BY <1>0, <1>3, <1>9, <2>1 DEF Execute
  <2>2. CASE d = c
    <3>1. Execute(c)
      BY <1>9, <2>2
    <3>2. PICK m \in Request : /\ chan[c] # <<>> /\ m = chan[c][1]
                               /\ chan' = [chan EXCEPT ![c] = Tail(chan[c])]
                               /\ m.kind \notin Boundary => sess'[c].owner = sess[c].owner
      BY <3>1, Executed
    <3>3. /\ 1 \in DOMAIN chan[c] /\ DOMAIN Tail(chan[c]) = 1 .. Len(chan[c]) - 1
          /\ \A i \in 1 .. Len(chan[c]) - 1 :
               i + 1 \in DOMAIN chan[c] /\ Tail(chan[c])[i] = chan[c][i + 1]
      BY <1>0, <3>2, TailAt
    <3>4. sess'[c].owner = r
      BY <1>3, <3>2, <3>3 DEF Steady
    <3>5. chan'[c] = Tail(chan[c])
      BY <1>0, <3>2
    <3> QED BY <1>3, <3>3, <3>4, <3>5 DEF Steady
  <2> QED BY <2>1, <2>2
<1>10. ASSUME NEW d \in Conn, Disconnect(d)
       PROVE  sess'[c].owner = r /\ Steady(chan'[c])
  <2>1. d # c
    BY <1>10 DEF Disconnect
  <2> QED BY <1>0, <1>3, <1>10, <2>1 DEF Disconnect
<1>11. ASSUME NEW d \in Conn, Deliver(d)
       PROVE  sess'[c].owner = r /\ Steady(chan'[c])
  <2>1. PICK m \in Answer :
          /\ m = reply[d][1] /\ 1 \in DOMAIN reply[d] /\ sess' = sess
          /\ \/ /\ m.kind = "isolation"
                /\ Post(d, Message(m.trx, "begin", "undefined"), Tail(reply[d]))
             \/ chan' = chan
    BY <1>11, Delivered
  <2>2. CASE chan' = chan
    BY <1>3, <2>1, <2>2
  <2>3. CASE /\ m.kind = "isolation"
             /\ Post(d, Message(m.trx, "begin", "undefined"), Tail(reply[d]))
    <3>1. d # c
      <4>1. \A i \in DOMAIN reply[c] : reply[c][i].kind \notin Opening
        BY <1>0, NobodyOpens
      <4> QED BY <2>1, <2>3, <4>1 DEF Opening
    <3>2. chan'[c] = chan[c]
      BY <1>0, <2>3, <3>1 DEF Post
    <3> QED BY <1>3, <2>1, <3>2
  <2> QED BY <2>1, <2>2, <2>3
<1> QED BY <1>4, <1>6, <1>7, <1>8, <1>9, <1>10, <1>11 DEF Next, User, Runtime, Network, Aside

LEMMA HolderOwnsStep ==
  ASSUME IInv, SessionInv, [Next]_vars
  PROVE  HolderOwns'
<1>1. SUFFICES ASSUME NEW r \in Trx, Active(r)', conn'[r] \notin dead'
               PROVE  sess'[conn'[r]].owner = r /\ Steady(chan'[conn'[r]])
  BY DEF HolderOwns, Steady
<1>2. /\ outer'[r] = NoTrx /\ life'[r] = "open" /\ Underway(r)' /\ ~completed'[r]
  BY <1>1 DEF Active, IsRoot
<1>3. PICK c \in Conn : conn'[r] = c
  <2>1. IInv'
    BY InvariantStep
  <2>2. Connected(r)'
    BY <1>2 DEF Connected
  <2> QED BY <2>1, <2>2 DEF IInv, ConnectionSource
<1>4. CASE Active(r) /\ conn'[r] = conn[r]
  BY <1>1, <1>3, <1>4, StillHolds
<1>5. ASSUME NEW d \in Conn, Deliver(d), Head(reply[d]).trx = r
      PROVE  sess'[c].owner = r /\ Steady(chan'[c])
  <2>1. PICK m \in Answer :
           /\ m = Head(reply[d])
           /\ m.trx \in Trx /\ Connected(m.trx) /\ conn[m.trx] = d /\ Sender(m)
           /\ m.kind \in Opening =>
                /\ chan[d] = <<>>
                /\ m.kind = "begin" /\ m.ok /\ d \notin dead => sess[d].owner = m.trx
           /\ UNCHANGED <<life, tree, conn, sess, dead>>
           /\ \/ stage' = [stage EXCEPT ![m.trx] = "begin"]
              \/ /\ chan' = chan /\ m.kind \in Opening
                 /\ \/ completed' = [completed EXCEPT ![m.trx] = TRUE]
                    \/ m.kind = "begin" /\ m.ok
              \/ m.kind = "savepoint"
              \/ stage' = stage /\ completed' = completed
    BY <1>5, Delivered
  <2>2. m.trx = r /\ conn[r] = d /\ c = d
    BY <1>3, <1>5, <2>1
  <2>3. stage' # [stage EXCEPT ![m.trx] = "begin"]
    BY <1>2, <2>2 DEF IInv, TypeOK, Underway
  <2>4. completed' # [completed EXCEPT ![m.trx] = TRUE]
    BY <1>2, <2>2 DEF IInv, TypeOK
  <2>5. m.kind # "savepoint"
    BY <1>2, <2>1, <2>2 DEF Sender, Inner, IsNested, tree
  <2>6. CASE chan' = chan /\ m.kind = "begin" /\ m.ok
    <3>1. chan'[c] = <<>> /\ sess'[c].owner = r
      BY <1>1, <1>3, <2>1, <2>2, <2>6 DEF Opening
    <3>2. DOMAIN chan'[c] = {}
      BY <3>1
    <3> QED BY <3>1, <3>2 DEF Steady
  <2>7. CASE stage' = stage /\ completed' = completed
    <3>1. Active(r) /\ conn'[r] = conn[r]
      BY <1>2, <2>1, <2>7 DEF Active, IsRoot, Underway, tree
    <3> QED BY <1>1, <1>3, <3>1, StillHolds
  <2> QED BY <2>1, <2>3, <2>4, <2>5, <2>6, <2>7
<1>6. Undelivered => Active(r) /\ conn'[r] = conn[r]
  BY <1>1, ActiveStep
<1>7. ASSUME NEW d \in Conn, Deliver(d)
      PROVE  (Active(r) /\ conn'[r] = conn[r]) \/ Head(reply[d]).trx = r
  BY <1>1, <1>7, ActiveStep
<1> QED BY <1>3, <1>4, <1>5, <1>6, <1>7, StepsAre

LEMMA SessionInvStep == IInv /\ SessionInv /\ [Next]_vars => SessionInv'
<1> SUFFICES ASSUME IInv, SessionInv, [Next]_vars
             PROVE  SessionInv'
  OBVIOUS
<1>1. AroundUnderway' /\ HolderOwns'
  BY AroundUnderwayStep, HolderOwnsStep
<1>2. \A c \in Conn : Orderly(c)'
  BY OrderlyStep
<1> QED BY <1>1, <1>2 DEF SessionInv

LEMMA InitSession == Init => SessionInv
<1> SUFFICES ASSUME Init
             PROVE  SessionInv
  OBVIOUS
<1>1. AroundUnderway /\ HolderOwns
  BY DEF Init, AroundUnderway, HolderOwns, Active, IsRoot
<1>2. ASSUME NEW c \in Conn
      PROVE  Orderly(c)
  <2>1. /\ chan[c] = <<>> /\ reply[c] = <<>> /\ c \notin dead
        /\ DOMAIN chan[c] = {} /\ DOMAIN reply[c] = {}
    BY DEF Init
  <2> QED BY <2>1 DEF Orderly, Senders, DeadIsIdle, OpeningIsLast, InnerInOwn
<1> QED BY <1>1, <1>2 DEF SessionInv

\* The inductive invariant holds of every behaviour, whatever the options, the
\* callers and the faults.
THEOREM SessionInductive == Spec => [](IInv /\ SessionInv)
<1>1. Init => SessionInv
  BY InitSession
<1>2. IInv /\ SessionInv /\ [Next]_vars => SessionInv'
  BY SessionInvStep
<1> QED BY Inductive, <1>1, <1>2, PTL DEF Spec

\* A write the server carries out runs in the database transaction of its own
\* top-level transaction, however late it was sent.
THEOREM WritesStayInside == Spec => WritesInOwnTransaction
<1>1. ASSUME IInv, SessionInv, NEW c \in Conn, chan[c] # <<>>,
             Head(chan[c]).kind = "query"
      PROVE  sess[c].owner \in Line(Head(chan[c]).trx)
  <2>1. 1 \in DOMAIN chan[c] /\ Head(chan[c]) = chan[c][1]
    BY <1>1, TailAt DEF IInv, TypeOK
  <2> QED BY <1>1, <2>1 DEF SessionInv, Orderly, InnerInOwn, Inner
<1>2. IInv /\ SessionInv /\ [Next]_vars =>
        [\A c \in Conn :
           /\ chan[c] # <<>> /\ chan'[c] = Tail(chan[c])
           /\ Head(chan[c]).kind = "query"
           /\ reply'[c] # reply[c] /\ reply'[c][Len(reply'[c])].ok
           => sess[c].owner \in Line(Head(chan[c]).trx)]_vars
  BY <1>1
<1> QED BY SessionInductive, <1>2, PTL DEF Spec, WritesInOwnTransaction

-----------------------------------------------------------------------------
(* Who owns a session, where a failed COMMIT ends the transaction *)

\* Only running a statement and losing the connection change a session or take
\* statements off its queue, and only these and taking an answer change the
\* answers of a connection that is not lost.
LEMMA QueueGrows ==
  ASSUME IInv, SessionInv, [Next]_vars, NEW c \in Conn, ~Execute(c), ~Disconnect(c)
  PROVE  /\ sess'[c] = sess[c]
         /\ chan'[c] = chan[c] \/ \E m \in Request : chan'[c] = Append(chan[c], m)
         /\ c \notin dead /\ ~Deliver(c) => reply'[c] = reply[c]
<1>0. /\ TypeOK /\ chan \in [Conn -> Seq(Request)] /\ reply \in [Conn -> Seq(Answer)]
      /\ sess \in [Conn -> SessionState]
  BY DEF IInv, TypeOK
<1> DEFINE Grown == chan'[c] = chan[c] \/ \E m \in Request : chan'[c] = Append(chan[c], m)
           Kept  == c \notin dead => reply'[c] = reply[c]
<1>1. ASSUME NEW d \in Conn, NEW t \in Trx, NEW k \in Kinds, NEW a \in Args, NEW b,
             Post(d, Message(t, k, a), b)
      PROVE  Grown /\ (c # d \/ b = reply[d] => Kept)
  <2>1. PICK m \in Request : m = Message(t, k, a)
    BY MessageType
  <2>2. Post(d, m, b)
    BY <1>1, <2>1
  <2> QED BY <1>0, <2>2 DEF Post
<1> HIDE DEF Grown, Kept
<1>2. CASE UNCHANGED vars \/ (\E t \in Trx : Aside(t)) \/ \E d \in Conn : ReplaceConnection(d)
  <2>1. chan' = chan /\ reply' = reply /\ sess' = sess
    BY <1>2, AsideAlone DEF ReplaceConnection
  <2> QED BY <2>1
<1>3. ASSUME NEW t \in Trx, ContainerSettles(t) \/ UserFinishes(t)
      PROVE  sess' = sess /\ Grown /\ Kept
  <2>1. /\ conn[t] \in Conn /\ sess' = sess
        /\ Commit(t) \/ (\E a \in Args : Rollback(t, a))
    BY <1>3, TransactorConnected DEF ContainerSettles, UserFinishes, HasTransactor, server
  <2>2. PICK k \in Finals, a \in Args :
          \/ chan' = chan /\ reply' = reply
          \/ Post(conn[t], Message(t, k, a), reply[conn[t]])
    BY <2>1, FinishesAre DEF Finish
  <2>3. k \in Kinds
    BY DEF Finals, Kinds
  <2> QED BY <1>1, <2>1, <2>2, <2>3 DEF Grown, Kept
<1>4. ASSUME NEW t \in Trx, UserQuery(t)
      PROVE  sess' = sess /\ Grown /\ Kept
  <2>1. conn[t] \in Conn /\ sess' = sess
    BY <1>4, TransactorConnected DEF UserQuery, HasTransactor, server
  <2>2. \/ chan' = chan /\ reply' = reply
        \/ Post(conn[t], Message(t, "query", "undefined"), reply[conn[t]])
    BY <1>4 DEF UserQuery
  <2> QED BY <1>1, <2>1, <2>2 DEF Grown, Kept, Kinds, Args
<1>5. ASSUME NEW t \in Trx, AcquireConnection(t)
      PROVE  sess' = sess /\ Grown /\ Kept
  <2>1. PICK d \in Candidates(t) :
          \/ chan' = chan /\ reply' = reply
          \/ Post(d, Message(t, InitKind(t), "undefined"), reply[d])
    BY <1>5 DEF AcquireConnection
  <2>2. sess' = sess /\ d \in Conn /\ InitKind(t) \in Kinds /\ "undefined" \in Args
    BY <1>5, CandidatesAreConnections DEF AcquireConnection, server, InitKind, Kinds, Args
  <2> QED BY <1>1, <2>1, <2>2 DEF Grown, Kept
<1>6. ASSUME NEW d \in Conn, Deliver(d)
      PROVE  sess' = sess /\ Grown /\ (c # d => Kept)
  <2>1. PICK m \in Answer :
          /\ m.trx \in Trx /\ sess' = sess
          /\ \/ Post(d, Message(m.trx, "begin", "undefined"), Tail(reply[d]))
             \/ chan' = chan /\ reply' = [reply EXCEPT ![d] = Tail(reply[d])]
    BY <1>6, Delivered
  <2> QED BY <1>0, <1>1, <2>1 DEF Grown, Kept, Kinds, Args
<1>7. ASSUME NEW d \in Conn, Execute(d) \/ Disconnect(d)
      PROVE  sess'[c] = sess[c] /\ chan'[c] = chan[c] /\ reply'[c] = reply[c]
  <2>1. d # c
    BY <1>7
  <2> QED BY <1>0, <1>7, <2>1 DEF Execute, Disconnect
<1> QED BY <1>2, <1>3, <1>4, <1>5, <1>6, <1>7
        DEF Grown, Kept, Next, User, Runtime, Network, Aside

\* What is on its way to end a transaction stays there until it is run.
LEMMA EndStays ==
  ASSUME IInv, SessionInv, [Next]_vars, NEW c \in Conn, ~Execute(c), ~Disconnect(c),
         EndUnderway(c)
  PROVE  EndUnderway(c)'
<1>1. chan[c] \in Seq(Request)
  BY DEF IInv, TypeOK
<1>2. CASE chan'[c] = chan[c]
  BY <1>2 DEF EndUnderway
<1>3. ASSUME NEW m \in Request, chan'[c] = Append(chan[c], m)
      PROVE  EndUnderway(c)'
  <2>1. \A i \in DOMAIN chan[c] : i \in DOMAIN chan'[c] /\ chan'[c][i] = chan[c][i]
    <3>1. /\ DOMAIN chan[c] = 1 .. Len(chan[c]) /\ Len(chan[c]) \in Nat
          /\ DOMAIN chan'[c] = 1 .. Len(chan[c]) + 1
          /\ \A i \in 1 .. Len(chan[c]) : chan'[c][i] = chan[c][i]
      BY <1>1, <1>3, AppendAt
    <3> QED BY <3>1
  <2> QED BY <2>1 DEF EndUnderway
<1> QED BY <1>2, <1>3, QueueGrows

\* The owner of a session completes by sending what ends its transaction.
LEMMA OwnerCompletes ==
  ASSUME IInv, SessionInv, OwnerInv, [Next]_vars, NEW c \in Conn, NEW r \in Trx,
         sess[c].owner = r, ~completed[r], completed'[r]
  PROVE  EndUnderway(c)' /\ ~Execute(c) /\ ~Disconnect(c)
<1>0. /\ TypeOK /\ chan \in [Conn -> Seq(Request)]
      /\ r # NoTrx /\ IsRoot(r) /\ Connected(r) /\ conn[r] = c /\ ~IsNested(r)
  <2>1. r # NoTrx
    BY SessionAssumption
  <2> QED BY <2>1 DEF IInv, TypeOK, OwnerInv, Owned, IsRoot, IsNested
<1>1. ~IsCompleted(r)
  BY <1>0 DEF OwnerInv, RootsAlone, IsCompleted, Line
<1>2. c \notin dead
  BY <1>0 DEF SessionInv, Orderly, DeadIsIdle
<1>3. ASSUME NEW t \in Trx, ContainerSettles(t) \/ UserFinishes(t)
      PROVE  EndUnderway(c)'
  <2>1. completed' = [completed EXCEPT ![t] = TRUE]
    BY <1>0, <1>3, FinishesAre, FinishEffect DEF ContainerSettles, UserFinishes
  <2>2. t = r
    BY <1>0, <2>1 DEF TypeOK
  <2>3. Commit(r) \/ (\E a \in Args : Rollback(r, a))
    BY <1>3, <2>2 DEF ContainerSettles, UserFinishes
  <2>4. PICK k \in Finals, a \in Args :
          (IsNested(r) <=> k \in Inner) /\ Post(conn[r], Message(r, k, a), reply[conn[r]])
    BY <1>0, <1>1, <2>3, Finishing
  <2>5. k \in Ending /\ k \in Kinds
    BY <1>0, <2>4 DEF Finals, Inner, Ending, Kinds
  <2>6. PICK m \in Request : m = Message(r, k, a)
    BY <2>5, MessageType
  <2>7. chan'[c] = Append(chan[c], m) /\ m.kind \in Ending
    BY <1>0, <1>2, <2>4, <2>5, <2>6 DEF Post, Message
  <2>8. Len(chan[c]) + 1 \in DOMAIN chan'[c] /\ chan'[c][Len(chan[c]) + 1] = m
    <3>1. /\ DOMAIN chan'[c] = 1 .. Len(chan[c]) + 1 /\ Len(chan[c]) \in Nat
          /\ chan'[c][Len(chan[c]) + 1] = m
      BY <1>0, <2>7, AppendAt
    <3> QED BY <3>1
  <2> QED BY <2>7, <2>8 DEF EndUnderway
<1>4. ASSUME NEW t \in Trx, AcquireConnection(t)
      PROVE  FALSE
  <2>1. t # r
    BY <1>0, <1>4 DEF AcquireConnection, Connected
  <2> QED BY <1>0, <1>4, <2>1 DEF AcquireConnection, TypeOK
<1>5. ASSUME NEW d \in Conn, Deliver(d)
      PROVE  FALSE
  <2>1. PICK m \in Answer :
           /\ m = reply[d][1] /\ 1 \in DOMAIN reply[d]
           /\ m.trx \in Trx /\ conn[m.trx] = d /\ Sender(m)
           /\ m.kind \in Opening => Waits(m.trx) /\ Len(reply[d]) = 1
           /\ \/ completed' = completed
              \/ m.kind \in Opening /\ ~(m.kind = "begin" /\ m.ok)
                   /\ completed' = [completed EXCEPT ![m.trx] = TRUE]
              \/ m.kind = "savepoint"
                   /\ completed' \in {completed, [completed EXCEPT ![m.trx] = TRUE]}
    BY <1>5, Delivered
  <2>2. m.trx = r /\ d = c /\ completed' = [completed EXCEPT ![r] = TRUE]
    <3>1. completed' = [completed EXCEPT ![m.trx] = TRUE]
      BY <2>1, <1>0
    <3>2. m.trx = r
      BY <1>0, <2>1, <3>1 DEF TypeOK
    <3> QED BY <1>0, <2>1, <3>1, <3>2
  <2>3. m.kind # "savepoint"
    BY <1>0, <2>1, <2>2 DEF Sender, Inner
  <2>4. completed' # completed
    BY <1>0, <2>2 DEF TypeOK
  <2>5. /\ m.kind \in Opening /\ ~(m.kind = "begin" /\ m.ok)
        /\ Waits(r) /\ Len(reply[c]) = 1
    BY <2>1, <2>2, <2>3, <2>4
  <2>6. BeginAnswered(r)
    BY <1>0, <2>5 DEF OwnerInv, NotYetOwned
  <2>7. PICK i \in DOMAIN reply[c] : reply[c][i].kind = "begin" /\ reply[c][i].ok
    BY <1>0, <2>6 DEF BeginAnswered
  <2>8. DOMAIN reply[c] = 1 .. 1
    BY <2>5, LenProperties DEF IInv, TypeOK
  <2>9. i = 1
    BY <2>7, <2>8
  <2> QED BY <2>1, <2>2, <2>5, <2>7, <2>9
<1>6. ASSUME NEW t \in Trx, Aside(t) \/ UserQuery(t)
      PROVE  FALSE
  <2>1. completed' = completed
    BY <1>6 DEF Aside, NewTransaction, NewNested, AcquireFail, InvokeContainer, RollbackTimeout,
       Release, UserQuery
  <2> QED BY <2>1
<1>7. ASSUME NEW d \in Conn, Execute(d) \/ Disconnect(d) \/ ReplaceConnection(d)
      PROVE  FALSE
  <2>1. completed' = completed
    BY <1>7 DEF Execute, Disconnect, ReplaceConnection
  <2> QED BY <2>1
<1>8. completed' # completed
  OBVIOUS
<1>9. ~UNCHANGED vars
  BY <1>8 DEF vars
<1> QED BY <1>3, <1>4, <1>5, <1>6, <1>7, <1>9 DEF Next, User, Runtime, Network, Aside

LEMMA RootsAloneStep ==
  ASSUME IInv, OwnerInv, [Next]_vars
  PROVE  RootsAlone'
<1>0. TypeOK /\ LifeCycle /\ RootsAlone
  BY DEF IInv, OwnerInv
<1>1. CASE anc' = anc /\ outer' = outer
  BY <1>0, <1>1 DEF RootsAlone, IsNested
<1>2. ASSUME NEW t \in Trx, NEW p \in Trx, NewNested(p, t)
      PROVE  RootsAlone'
  <2>1. outer' = [outer EXCEPT ![t] = p] /\ anc' = [anc EXCEPT ![t] = Line(p)] /\ p # NoTrx
    BY <1>2, SessionAssumption DEF NewNested
  <2> QED BY <1>0, <2>1 DEF RootsAlone, IsNested, TypeOK
<1>3. (anc' = anc /\ outer' = outer) \/ \E t \in Trx, p \in Trx : NewNested(p, t)
  <2>1. ASSUME NEW u \in Trx, \/ NewTransaction(u) \/ AcquireConnection(u)
                              \/ AcquireFail(u) \/ Release(u)
        PROVE  anc' = anc /\ outer' = outer
    BY <2>1 DEF NewTransaction, AcquireConnection, AcquireFail, Release, tree
  <2> QED BY <2>1, LifeSteps DEF tree
<1> QED BY <1>1, <1>2, <1>3

LEMMA OwnedStep ==
  ASSUME ~CommitFailureKeepsOpen, IInv, SessionInv, OwnerInv, [Next]_vars, NEW c \in Conn
  PROVE  Owned(c)'
<1>0. /\ TypeOK /\ chan \in [Conn -> Seq(Request)] /\ sess \in [Conn -> SessionState]
      /\ Orderly(c) /\ Owned(c)
  BY DEF IInv, TypeOK, SessionInv, OwnerInv
<1>1. Lasting
  <2>1. \A d \in Conn : OpeningIsLast(d)
    BY DEF SessionInv, Orderly
  <2> QED BY <2>1, LastingStep
<1> PICK r : r = sess'[c].owner
  OBVIOUS
<1>2. SUFFICES ASSUME r # NoTrx
               PROVE  /\ outer'[r] = NoTrx /\ Connected(r)' /\ conn'[r] = c
                      /\ completed'[r] => EndUnderway(c)'
  <2>1. Connected(r)' => life'[r] # "none"
    BY DEF Connected
  <2> QED BY <2>1 DEF Owned, IsRoot
<1>3. r \in Trx
  BY <1>2, InvariantStep DEF IInv, TypeOK, SessionState
<1>4. ASSUME sess[c].owner = r
      PROVE  outer'[r] = NoTrx /\ Connected(r)' /\ conn'[r] = c
  BY <1>0, <1>1, <1>2, <1>3, <1>4 DEF Owned, IsRoot, Lasting
<1>5. CASE ~Execute(c) /\ ~Disconnect(c)
  <2>1. sess[c].owner = r
    BY <1>2, <1>5, QueueGrows
  <2>2. CASE completed[r]
    BY <1>0, <1>2, <1>4, <1>5, <2>1, <2>2, EndStays DEF Owned
  <2>3. CASE ~completed[r]
    BY <1>3, <1>4, <2>1, <2>3, OwnerCompletes
  <2> QED BY <2>2, <2>3
<1>6. CASE Disconnect(c)
  BY <1>0, <1>2, <1>6 DEF Disconnect, IdleSession
<1>7. CASE Execute(c)
  <2>1. PICK m \in Request, ok \in BOOLEAN :
          /\ chan[c] # <<>> /\ m = chan[c][1]
          /\ chan' = [chan EXCEPT ![c] = Tail(chan[c])]
          /\ m.kind \notin Boundary => sess'[c].owner = sess[c].owner
          /\ m.kind = "begin" => sess'[c].owner = IF ok THEN m.trx ELSE sess[c].owner
          /\ m.kind \in Ending => sess'[c].owner = NoTrx
    BY <1>7, Executed
  <2>2. /\ DOMAIN chan[c] = 1 .. Len(chan[c]) /\ Len(chan[c]) \in Nat /\ 1 \in DOMAIN chan[c]
        /\ DOMAIN Tail(chan[c]) = 1 .. Len(chan[c]) - 1
        /\ \A i \in 1 .. Len(chan[c]) - 1 :
             i + 1 \in DOMAIN chan[c] /\ Tail(chan[c])[i] = chan[c][i + 1]
    BY <1>0, <2>1, TailAt
  <2>3. completed' = completed /\ chan'[c] = Tail(chan[c]) /\ UNCHANGED <<life, conn, outer>>
    BY <1>0, <1>7, <2>1 DEF Execute, tree
  <2>4. m.kind \notin Ending
    BY <1>2, <2>1
  <2>5. CASE sess[c].owner = r
    <3>1. ASSUME completed[r]
          PROVE  EndUnderway(c)'
      <4>1. PICK i \in DOMAIN chan[c] : chan[c][i].kind \in Ending
        BY <1>0, <1>2, <2>5, <3>1 DEF Owned, EndUnderway
      <4>2. i # 1
        BY <2>1, <2>4, <4>1
      <4>3. i - 1 \in 1 .. Len(chan[c]) - 1 /\ (i - 1) + 1 = i
        BY <2>2, <4>2
      <4>4. i - 1 \in DOMAIN chan'[c] /\ chan'[c][i - 1] = chan[c][i]
        BY <2>2, <2>3, <4>3
      <4> QED BY <4>1, <4>4 DEF EndUnderway
    <3> QED BY <1>4, <2>3, <2>5, <3>1
  <2>6. CASE sess[c].owner # r
    <3>1. m.kind = "begin" /\ m.trx = r
      BY <1>2, <2>1, <2>4, <2>6 DEF Boundary, Ending
    <3>2. Connected(r) /\ conn[r] = c /\ Sender(m)
      BY <1>0, <2>1, <2>2, <3>1, OnTheWay DEF Orderly, Senders
    <3>3. ~IsNested(r)
      BY <3>1, <3>2 DEF Sender, Inner
    <3>4. ~completed[r]
      BY <1>0, <2>1, <2>2, <3>1 DEF Orderly, OpeningIsLast, Opens, Opening
    <3> QED BY <2>3, <3>2, <3>3, <3>4 DEF IsNested, Connected
  <2> QED BY <2>5, <2>6
<1> QED BY <1>5, <1>6, <1>7

LEMMA NotYetOwnedStep ==
  ASSUME IInv, SessionInv, OwnerInv, [Next]_vars, NEW t \in Trx
  PROVE  NotYetOwned(t)'
<1>0. /\ TypeOK /\ chan \in [Conn -> Seq(Request)] /\ reply \in [Conn -> Seq(Answer)]
      /\ sess \in [Conn -> SessionState]
  BY DEF IInv, TypeOK
<1> PICK c : c = conn'[t]
  OBVIOUS
<1>1. SUFFICES ASSUME /\ outer'[t] = NoTrx /\ life'[t] = "open" /\ stage'[t] \in Opening
                      /\ ~completed'[t] /\ sess'[c].owner = t
               PROVE  \E i \in DOMAIN reply'[c] :
                        reply'[c][i].trx = t /\ reply'[c][i].kind = "begin" /\ reply'[c][i].ok
  BY DEF NotYetOwned, Waits, IsNested, BeginAnswered
<1>2. c \in Conn
  <2>1. Connected(t)'
    BY <1>1 DEF Connected
  <2> QED BY <2>1, InvariantStep DEF IInv, ConnectionSource
<1>3. Orderly(c) /\ Owned(c) /\ t # NoTrx
  BY <1>2, SessionAssumption DEF SessionInv, OwnerInv
<1>4. ASSUME sess[c].owner = t
      PROVE  /\ Waits(t) /\ conn[t] = c /\ c \notin dead
             /\ stage'[t] = stage[t] \/ \E d \in Conn : Deliver(d) /\ Head(reply[d]).trx = t
  <2>1. /\ IsRoot(t) /\ Connected(t) /\ conn[t] = c /\ c \notin dead
    BY <1>3, <1>4 DEF Owned, Orderly, DeadIsIdle
  <2>2. life[t] = "open"
    BY <1>1, <2>1, LifeMonotonic DEF Connected
  <2>3. ~completed[t] /\ ~Underway(t)
    <3>1. Lasting
      <4>1. \A d \in Conn : OpeningIsLast(d)
        BY DEF SessionInv, Orderly
      <4> QED BY <4>1, LastingStep
    <3>2. completed[t] => completed'[t]
      BY <2>1, <3>1 DEF Lasting
    <3>3. Underway(t) => stage'[t] \in {"invoke", "pending", "detached", "settled"}
      BY <2>1, <3>1 DEF Lasting, Underway
    <3> QED BY <1>1, <3>2, <3>3 DEF Opening
  <2>4. ASSUME NEW u \in Trx, \/ AcquireConnection(u) \/ InvokeContainer(u)
                              \/ ContainerSettles(u)
        PROVE  stage'[t] = stage[t]
    <3>1. CASE AcquireConnection(u)
      <4>1. u # t
        BY <2>2, <3>1 DEF AcquireConnection
      <4> QED BY <1>0, <3>1, <4>1 DEF AcquireConnection, TypeOK
    <3>2. CASE InvokeContainer(u) \/ ContainerSettles(u)
      BY <1>0, <1>1, <3>2 DEF InvokeContainer, ContainerSettles, TypeOK, Opening
    <3> QED BY <2>4, <3>1, <3>2
  <2>5. ASSUME NEW d \in Conn, Deliver(d), Head(reply[d]).trx # t
        PROVE  stage'[t] = stage[t]
    <3>1. PICK m \in Answer :
            /\ m = Head(reply[d]) /\ m.trx \in Trx
            /\ stage' \in {stage, [stage EXCEPT ![m.trx] = "begin"],
                           [stage EXCEPT ![m.trx] = "invoke"]}
      BY <2>5, Delivered
    <3> QED BY <1>0, <2>5, <3>1 DEF TypeOK
  <2>6. \/ stage' = stage \/ \E d \in Conn : Deliver(d)
        \/ \E u \in Trx : \/ AcquireConnection(u) \/ InvokeContainer(u)
                           \/ ContainerSettles(u)
    BY DEF Next, User, Runtime, Network, NewTransaction, NewNested, UserFinishes, UserQuery,
       AcquireFail, RollbackTimeout, Release, Execute, Disconnect, ReplaceConnection, vars
  <2>7. stage'[t] = stage[t] \/ \E d \in Conn : Deliver(d) /\ Head(reply[d]).trx = t
    BY <2>4, <2>5, <2>6
  <2>8. stage[t] \in Opening
    <3>1. CASE stage'[t] = stage[t]
      BY <1>1, <3>1
    <3>2. ASSUME NEW d \in Conn, Deliver(d), Head(reply[d]).trx = t
          PROVE  stage[t] \in Opening
      <4>1. PICK m \in Answer :
              /\ m = Head(reply[d])
              /\ m.kind \in Opening => Waits(m.trx)
              /\ \/ m.kind = "isolation"
                 \/ stage' = [stage EXCEPT ![m.trx] = "invoke"] \/ stage' = stage
        BY <3>2, Delivered
      <4>2. m.trx = t
        BY <3>2, <4>1, Zenon
      <4>3. stage' # [stage EXCEPT ![m.trx] = "invoke"]
        BY <1>0, <1>1, <4>2 DEF TypeOK, Opening
      <4> QED BY <1>1, <4>1, <4>2, <4>3 DEF Waits, Opening
    <3> QED BY <2>7, <3>1, <3>2
  <2> QED BY <2>1, <2>2, <2>3, <2>7, <2>8 DEF Waits, IsRoot, IsNested
<1>5. ASSUME sess[c].owner = t
      PROVE  \E i \in DOMAIN reply[c] :
               reply[c][i].trx = t /\ reply[c][i].kind = "begin" /\ reply[c][i].ok
  BY <1>4, <1>5 DEF OwnerInv, NotYetOwned, BeginAnswered
<1>6. CASE Disconnect(c)
  BY <1>0, <1>1, <1>2, <1>3, <1>6 DEF Disconnect, IdleSession
<1>7. CASE Execute(c)
  <2>1. PICK m \in Request, ok \in BOOLEAN :
          /\ reply' = [reply EXCEPT ![c] = Append(reply[c], Reply(m, ok))]
          /\ m.kind \notin Boundary => sess'[c].owner = sess[c].owner
          /\ m.kind = "begin" => sess'[c].owner = IF ok THEN m.trx ELSE sess[c].owner
          /\ m.kind \in Ending => sess'[c].owner \in {NoTrx, sess[c].owner}
    BY <1>2, <1>7, Executed
  <2>2. PICK b \in Answer : b = Reply(m, ok)
    BY MessageType
  <2>3. /\ DOMAIN reply[c] = 1 .. Len(reply[c]) /\ Len(reply[c]) \in Nat
        /\ DOMAIN reply'[c] = 1 .. Len(reply[c]) + 1
        /\ \A i \in 1 .. Len(reply[c]) : reply'[c][i] = reply[c][i]
        /\ reply'[c][Len(reply[c]) + 1] = b
    <3>1. reply'[c] = Append(reply[c], b) /\ reply[c] \in Seq(Answer)
      BY <1>0, <1>2, <2>1, <2>2
    <3> QED BY <3>1, AppendAt
  <2>4. CASE sess[c].owner = t
    BY <1>5, <2>3, <2>4
  <2>5. CASE sess[c].owner # t
    <3>1. m.kind = "begin" /\ ok /\ m.trx = t
      BY <1>1, <1>3, <2>1, <2>5 DEF Boundary, Ending
    <3>2. b.trx = t /\ b.kind = "begin" /\ b.ok
      BY <2>2, <3>1 DEF Reply
    <3>3. Len(reply[c]) + 1 \in DOMAIN reply'[c]
      BY <2>3
    <3> QED BY <2>3, <3>2, <3>3
  <2> QED BY <2>4, <2>5
<1>8. CASE ~Execute(c) /\ ~Disconnect(c) /\ ~Deliver(c)
  <2>1. sess[c].owner = t
    BY <1>1, <1>2, <1>8, QueueGrows
  <2>2. reply'[c] = reply[c]
    BY <1>2, <1>4, <1>8, <2>1, QueueGrows
  <2> QED BY <1>5, <2>1, <2>2
<1>9. CASE Deliver(c) /\ ~Execute(c) /\ ~Disconnect(c)
  <2>1. sess[c].owner = t
    BY <1>1, <1>2, <1>9, QueueGrows
  <2>2. PICK i \in DOMAIN reply[c] :
          reply[c][i].trx = t /\ reply[c][i].kind = "begin" /\ reply[c][i].ok
    BY <1>5, <2>1
  <2> DEFINE Taken(d, m) ==
           /\ reply[d] # <<>> /\ m = reply[d][1] /\ m.trx \in Trx
           /\ m.kind \in Opening => Len(reply[d]) = 1
           /\ \/ m.kind = "isolation"
              \/ /\ reply' = [reply EXCEPT ![d] = Tail(reply[d])]
                 /\ m.kind \in Opening /\ stage' = [stage EXCEPT ![m.trx] = "invoke"]
              \/ /\ reply' = [reply EXCEPT ![d] = Tail(reply[d])]
                 /\ m.kind \in {"savepoint", "query"} \cup Finals
  <2>7. ASSUME NEW d \in Conn, Deliver(d)
        PROVE  \E m \in Answer : Taken(d, m)
    BY <2>7, Delivered
  <2> HIDE DEF Taken
  <2>8. PICK m \in Answer : Taken(c, m)
    BY <1>2, <1>9, <2>7
  <2>3. /\ reply[c] # <<>> /\ m = reply[c][1] /\ m.trx \in Trx
        /\ m.kind \in Opening => Len(reply[c]) = 1
        /\ \/ m.kind = "isolation"
           \/ /\ reply' = [reply EXCEPT ![c] = Tail(reply[c])]
              /\ m.kind \in Opening /\ stage' = [stage EXCEPT ![m.trx] = "invoke"]
           \/ /\ reply' = [reply EXCEPT ![c] = Tail(reply[c])]
              /\ m.kind \in {"savepoint", "query"} \cup Finals
    BY <2>8 DEF Taken
  <2>4. /\ DOMAIN reply[c] = 1 .. Len(reply[c]) /\ Len(reply[c]) \in Nat
        /\ DOMAIN Tail(reply[c]) = 1 .. Len(reply[c]) - 1
        /\ \A j \in 1 .. Len(reply[c]) - 1 :
             j + 1 \in DOMAIN reply[c] /\ Tail(reply[c])[j] = reply[c][j + 1]
    BY <1>0, <1>2, <2>3, TailAt
  <2>5. CASE i = 1
    <3>1. m.trx = t /\ m.kind = "begin"
      BY <2>2, <2>3, <2>5
    <3>2. stage' = [stage EXCEPT ![t] = "invoke"]
      BY <2>3, <3>1 DEF Finals
    <3> QED BY <1>0, <1>1, <3>2 DEF TypeOK, Opening
  <2>6. CASE i # 1
    <3>1. m.kind \notin Opening
      <4>1. PICK n \in Nat : n = Len(reply[c])
        BY <2>4
      <4>2. i \in 1 .. n
        BY <2>4, <4>1
      <4>3. n # 1
        BY <2>6, <4>2
      <4> QED BY <2>3, <4>1, <4>3, Zenon
    <3>2. reply'[c] = Tail(reply[c])
      BY <1>0, <1>2, <2>3, <3>1 DEF Opening
    <3>3. i - 1 \in 1 .. Len(reply[c]) - 1 /\ (i - 1) + 1 = i
      BY <2>4, <2>6
    <3>4. i - 1 \in DOMAIN reply'[c] /\ reply'[c][i - 1] = reply[c][i]
      BY <2>4, <3>2, <3>3
    <3> QED BY <2>2, <3>4
  <2> QED BY <2>5, <2>6
<1> QED BY <1>6, <1>7, <1>8, <1>9

LEMMA InitOwner == Init => OwnerInv
<1> SUFFICES ASSUME Init
             PROVE  OwnerInv
  OBVIOUS
<1>1. RootsAlone /\ \A t \in Trx : ~Waits(t)
  BY DEF Init, RootsAlone, Waits
<1>2. \A c \in Conn : sess[c].owner = NoTrx
  BY DEF Init, IdleSession
<1> QED BY <1>1, <1>2 DEF OwnerInv, Owned, NotYetOwned

\* Where a failed COMMIT ends the transaction, who owns a session follows from
\* what its owner has sent.
THEOREM OwnerInductive ==
  ASSUME ~CommitFailureKeepsOpen
  PROVE  Spec => [](IInv /\ OwnerInv)
<1>1. Init => OwnerInv
  BY InitOwner
<1>2. IInv /\ SessionInv /\ OwnerInv /\ [Next]_vars => OwnerInv'
  <2>1. ASSUME IInv, SessionInv, OwnerInv, [Next]_vars
        PROVE  /\ RootsAlone' /\ (\A c \in Conn : Owned(c)')
               /\ \A t \in Trx : NotYetOwned(t)'
    BY <2>1, RootsAloneStep, OwnedStep, NotYetOwnedStep
  <2> QED BY <2>1 DEF OwnerInv
<1> QED BY SessionInductive, <1>1, <1>2, PTL DEF Spec

\* A connection in the pool with nothing left on its way has no open database
\* transaction, whoever used it and however that ended.
THEOREM PoolIsClean ==
  ASSUME ~CommitFailureKeepsOpen
  PROVE  Spec => []IdleConnectionsAreClean
<1>1. ASSUME IInv, OwnerInv, NEW c \in free, chan[c] = <<>>, sess[c].owner # NoTrx
      PROVE  FALSE
  <2>1. PICK r : r = sess[c].owner
    OBVIOUS
  <2>2. c \in Conn /\ sess \in [Conn -> SessionState]
    BY <1>1 DEF IInv, TypeOK, Conn
  <2>3. r \in Trx
    BY <1>1, <2>1, <2>2 DEF SessionState
  <2>4. IsRoot(r) /\ Connected(r) /\ conn[r] = c /\ ~completed[r]
    <3>1. ~EndUnderway(c)
      <4>1. DOMAIN chan[c] = {}
        BY <1>1
      <4> QED BY <4>1 DEF EndUnderway
    <3> QED BY <1>1, <2>1, <2>2, <3>1 DEF OwnerInv, Owned
  <2>5. life[r] = "open"
    <3>1. exec[r] = "pending"
      BY <1>1, <2>3, <2>4 DEF IInv, SettledIsCompleted
    <3> QED BY <1>1, <2>3, <2>4, <3>1 DEF IInv, LifeCycle, Connected
  <2> QED BY <1>1, <2>3, <2>4, <2>5 DEF IInv, ConnectionOwnership
<1>2. IInv /\ OwnerInv => IdleConnectionsAreClean
  BY <1>1 DEF IdleConnectionsAreClean
<1> QED BY OwnerInductive, <1>2, PTL
=============================================================================
