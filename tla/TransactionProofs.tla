-------------------------- MODULE TransactionProofs --------------------------
(***************************************************************************)
(* Proofs about module Transaction, for any number of transactions and     *)
(* connections, any options and both disciplines: the inductive invariant  *)
(* IInv and what follows from it.                                          *)
(***************************************************************************)
EXTENDS Transaction, SequenceTheorems, TLAPS

-----------------------------------------------------------------------------
(* Module Session *)

\* The server's state stays well formed, whatever statement it runs.
LEMMA SessionStep ==
  ASSUME NEW s \in SessionState, NEW k \in Kinds, NEW t \in Trx
  PROVE  /\ CanRun(s, k, t) => AfterSuccess(s, k, t) \in SessionState
         /\ AfterFailure(s, k) \in SessionState
         /\ MadeDurable(s, k, t) \in SUBSET Trx
<1>1. IdleSession \in SessionState
  <2>1. <<>> \in Seq(Mark)
    BY EmptySeq
  <2> QED BY <2>1 DEF IdleSession, SessionState
<1>2. Began(s, t) \in SessionState
  BY DEF Began, SessionState
<1>3. Marked(s, t) \in SessionState
  <2>1. [sp |-> t, before |-> s.writes] \in Mark
    BY DEF Mark, SessionState
  <2>2. Append(s.marks, [sp |-> t, before |-> s.writes]) \in Seq(Mark)
    BY <2>1, AppendProperties DEF SessionState
  <2> QED BY <2>2 DEF Marked, SessionState
<1>4. ASSUME HasMark(s, t)
      PROVE  /\ MarkOf(s, t) \in 1 .. Len(s.marks)
             /\ s.marks[MarkOf(s, t)] \in Mark
             /\ \A n \in Nat : n <= MarkOf(s, t) => SubSeq(s.marks, 1, n) \in Seq(Mark)
  <2>1. s.marks \in Seq(Mark) /\ DOMAIN s.marks = 1 .. Len(s.marks) /\ Len(s.marks) \in Nat
    BY LenProperties DEF SessionState
  <2>2. MarkOf(s, t) \in 1 .. Len(s.marks)
    BY <1>4, <2>1 DEF HasMark, MarkOf
  <2>3. \A i \in 1 .. Len(s.marks) : s.marks[i] \in Mark
    BY <2>1, ElementOfSeq
  <2>4. ASSUME NEW n \in Nat, n <= MarkOf(s, t)
        PROVE  SubSeq(s.marks, 1, n) \in Seq(Mark)
    <3>1. \A i \in 1 .. n : s.marks[i] \in Mark
      BY <2>1, <2>2, <2>3, <2>4
    <3> QED BY <3>1, SubSeqProperties
  <2> QED BY <2>2, <2>3, <2>4
<1>5. HasMark(s, t) => Unmarked(s, t) \in SessionState
  <2>1. HasMark(s, t) => SubSeq(s.marks, 1, MarkOf(s, t) - 1) \in Seq(Mark)
    BY <1>4
  <2> QED BY <2>1 DEF Unmarked, SessionState
<1>6. HasMark(s, t) => RolledBackTo(s, t) \in SessionState
  <2>1. HasMark(s, t) => /\ SubSeq(s.marks, 1, MarkOf(s, t)) \in Seq(Mark)
                         /\ s.marks[MarkOf(s, t)].before \in SUBSET Trx
    BY <1>4 DEF Mark
  <2> QED BY <2>1 DEF RolledBackTo, SessionState
<1>7. Written(s, t) \in SessionState
  BY DEF Written, SessionState
<1>8. CanRun(s, k, t) => AfterSuccess(s, k, t) \in SessionState
  BY <1>1, <1>2, <1>3, <1>5, <1>6, <1>7 DEF AfterSuccess, CanRun, Kinds
<1>9. AfterFailure(s, k) \in SessionState
  BY <1>1 DEF AfterFailure, SessionState
<1>10. MadeDurable(s, k, t) \in SUBSET Trx
  BY DEF MadeDurable, SessionState, Kinds
<1> QED BY <1>8, <1>9, <1>10

-----------------------------------------------------------------------------
(* Queues *)

\* Messages are well formed.
LEMMA MessageType ==
  /\ \A t \in Trx, k \in Kinds, a \in Args :
       Message(t, k, a) \in Request /\ Message(t, k, a).trx = t
  /\ \A m \in Request, ok \in BOOLEAN :
       Reply(m, ok) \in Answer /\ Reply(m, ok).trx = m.trx
  /\ \A m \in Answer, ok \in BOOLEAN :
       Reply(m, ok) \in Answer /\ Reply(m, ok).trx = m.trx
BY DEF Message, Reply, Request, Answer

\* A function on an initial segment of the positive numbers is a sequence.
LEMMA FunctionIsSeq ==
  ASSUME NEW S, NEW n \in Nat, NEW f \in [1 .. n -> S]
  PROVE  f \in Seq(S)
OBVIOUS

\* q holds, per connection d, a sequence of messages from R[d].
Holds(q, R) == q = [d \in Conn |-> q[d]] /\ \A d \in Conn : q[d] \in Seq(R[d])

Everywhere(M) == [d \in Conn |-> M]

LEMMA HoldsEverywhere ==
  ASSUME NEW q, NEW M
  PROVE  q \in [Conn -> Seq(M)] <=> Holds(q, Everywhere(M))
<1>1. ASSUME q \in [Conn -> Seq(M)]
      PROVE  Holds(q, Everywhere(M))
  BY <1>1 DEF Holds, Everywhere
<1>2. ASSUME Holds(q, Everywhere(M))
      PROVE  q \in [Conn -> Seq(M)]
  BY <1>2 DEF Holds, Everywhere
<1> QED BY <1>1, <1>2

LEMMA HoldsExcept ==
  ASSUME NEW q, NEW R, Holds(q, R), NEW c \in Conn, NEW s \in Seq(R[c])
  PROVE  Holds([q EXCEPT ![c] = s], R)
<1>1. q \in [Conn -> {q[d] : d \in Conn}]
  BY DEF Holds
<1> QED BY <1>1 DEF Holds

\* Handing over a statement keeps the queues inside any sets R of requests
\* and A of answers that hold the statement and its refusal.
LEMMA PostQueues ==
  ASSUME NEW R, NEW A, Holds(chan, R), Holds(reply, A),
         NEW c \in Conn, NEW m \in R[c], Reply(m, FALSE) \in A[c],
         NEW b \in Seq(A[c]), Post(c, m, b)
  PROVE  Holds(chan', R) /\ Holds(reply', A)
<1>1. Append(b, Reply(m, FALSE)) \in Seq(A[c])
  BY AppendProperties
<1>2. Append(chan[c], m) \in Seq(R[c])
  BY AppendProperties DEF Holds
<1>3. CASE c \in dead
  <2>1. chan' = chan /\ reply' = [reply EXCEPT ![c] = Append(b, Reply(m, FALSE))]
    BY <1>3 DEF Post
  <2> QED BY <1>1, <2>1, HoldsExcept
<1>4. CASE c \notin dead
  <2>1. chan' = [chan EXCEPT ![c] = Append(chan[c], m)] /\ reply' = [reply EXCEPT ![c] = b]
    BY <1>4 DEF Post
  <2> QED BY <1>2, <2>1, HoldsExcept
<1> QED BY <1>3, <1>4

\* So do running a statement,
LEMMA ExecuteQueues ==
  ASSUME NEW R, NEW A, Holds(chan, R), Holds(reply, A), NEW c \in Conn,
         \A m \in R[c] : \A ok \in BOOLEAN : Reply(m, ok) \in A[c],
         Execute(c)
  PROVE  Holds(chan', R) /\ Holds(reply', A)
<1>1. chan[c] \in Seq(R[c]) /\ reply[c] \in Seq(A[c])
  BY DEF Holds
<1>2. Head(chan[c]) \in R[c] /\ Tail(chan[c]) \in Seq(R[c])
  BY <1>1, HeadTailProperties DEF Execute
<1>3. \A ok \in BOOLEAN : Append(reply[c], Reply(Head(chan[c]), ok)) \in Seq(A[c])
  BY <1>1, <1>2, AppendProperties
<1>4. PICK ok \in BOOLEAN :
        reply' = [reply EXCEPT ![c] = Append(reply[c], Reply(Head(chan[c]), ok))]
  BY DEF Execute
<1>5. chan' = [chan EXCEPT ![c] = Tail(chan[c])]
  BY DEF Execute
<1>6. Holds(chan', R)
  BY <1>2, <1>5, HoldsExcept
<1>7. Append(reply[c], Reply(Head(chan[c]), ok)) \in Seq(A[c])
  BY <1>3
<1>8. Holds(reply', A)
  BY <1>4, <1>7, HoldsExcept
<1> QED BY <1>6, <1>8

\* losing a connection,
LEMMA DisconnectQueues ==
  ASSUME NEW R, NEW A, Holds(chan, R), Holds(reply, A), NEW c \in Conn,
         \A m \in R[c] \cup A[c] : \A ok \in BOOLEAN : Reply(m, ok) \in A[c],
         Disconnect(c)
  PROVE  Holds(chan', R) /\ Holds(reply', A)
<1>1. chan[c] \in Seq(R[c]) /\ reply[c] \in Seq(A[c]) /\ <<>> \in Seq(R[c])
  BY EmptySeq DEF Holds
<1>2. ASSUME NEW S \in {R[c], A[c]}, NEW q \in Seq(S)
      PROVE  Failures(q) \in Seq(A[c])
  <2>1. Len(q) \in Nat /\ DOMAIN q = 1 .. Len(q)
    BY LenProperties
  <2>2. \A i \in 1 .. Len(q) : Reply(q[i], FALSE) \in A[c]
    BY <2>1, ElementOfSeq
  <2>3. Failures(q) \in [1 .. Len(q) -> A[c]]
    BY <2>1, <2>2 DEF Failures
  <2> QED BY <2>1, <2>3, FunctionIsSeq
<1>3. Failures(reply[c]) \o Failures(chan[c]) \in Seq(A[c])
  <2>1. Failures(reply[c]) \in Seq(A[c]) /\ Failures(chan[c]) \in Seq(A[c])
    BY <1>1, <1>2
  <2> QED BY <2>1, ConcatProperties
<1>4. /\ chan' = [chan EXCEPT ![c] = <<>>]
      /\ reply' = [reply EXCEPT ![c] = Failures(reply[c]) \o Failures(chan[c])]
  BY DEF Disconnect
<1> QED BY <1>1, <1>3, <1>4, HoldsExcept

\* and delivering an answer, which is one of them.
LEMMA DeliverQueues ==
  ASSUME NEW R, NEW A, Holds(chan, R), Holds(reply, A), NEW c \in Conn,
         \A m \in A[c] : Message(m.trx, "begin", "undefined") \in R[c]
                         /\ Reply(Message(m.trx, "begin", "undefined"), FALSE) \in A[c],
         Deliver(c)
  PROVE  Holds(chan', R) /\ Holds(reply', A) /\ Head(reply[c]) \in A[c]
<1>1. reply[c] \in Seq(A[c])
  BY DEF Holds
<1>2. Head(reply[c]) \in A[c] /\ Tail(reply[c]) \in Seq(A[c])
  BY <1>1, HeadTailProperties DEF Deliver
<1>3. CASE IsolationSet(c, Head(reply[c]), Tail(reply[c]))
  <2>1. Post(c, Message(Head(reply[c]).trx, "begin", "undefined"), Tail(reply[c]))
    BY <1>3 DEF IsolationSet
  <2> QED BY <1>2, <2>1, PostQueues
<1>4. CASE Consumed(c, Tail(reply[c]))
  BY <1>2, <1>4, HoldsExcept DEF Consumed
<1>5. IsolationSet(c, Head(reply[c]), Tail(reply[c])) \/ Consumed(c, Tail(reply[c]))
  BY DEF Deliver, InitFailed, Begun, Finished, Queried
<1> QED BY <1>2, <1>3, <1>4, <1>5

-----------------------------------------------------------------------------
(* The inductive invariant *)

\* Where the connection of a transaction comes from is a connection.
LEMMA CandidatesAreConnections ==
  ASSUME IInv, NEW t \in Trx, NEW c \in Candidates(t)
  PROVE  c \in Conn /\ (FromPool(t) => c \in PoolConn)
<1>1. CASE IsNested(t)
  <2>1. Connected(outer[t]) /\ outer[t] \in Trx
    BY <1>1, SessionAssumption DEF IInv, Nesting, IsNested, TypeOK
  <2>2. conn[outer[t]] \in Conn
    BY <2>1 DEF IInv, ConnectionSource
  <2> QED BY <1>1, <2>2 DEF Candidates, FromPool
<1>2. CASE ~IsNested(t) /\ FromPool(t)
  BY <1>2 DEF Candidates, IInv, TypeOK, Conn
<1>3. CASE ~IsNested(t) /\ ~FromPool(t)
  <2>1. cfg[t] \in Config /\ cfg[t].conn # NoConn
    BY <1>3 DEF FromPool, IInv, TypeOK
  <2> QED BY <1>3, <2>1 DEF Candidates, Config, Conn
<1> QED BY <1>1, <1>2, <1>3

\* The queues as the invariant has them: well typed everywhere, and on each
\* connection messages of transactions connected there.
Requests == [c \in Conn |-> OnConnection(c, Request)]
Answers  == [c \in Conn |-> OnConnection(c, Answer)]

LEMMA QueuesHold ==
  ASSUME IInv
  PROVE  /\ Holds(chan, Requests) /\ Holds(reply, Answers)
         /\ Holds(chan, Everywhere(Request)) /\ Holds(reply, Everywhere(Answer))
<1>1. chan \in [Conn -> Seq(Request)] /\ reply \in [Conn -> Seq(Answer)]
  BY DEF IInv, TypeOK
<1>2. Holds(chan, Everywhere(Request)) /\ Holds(reply, Everywhere(Answer))
  BY <1>1, HoldsEverywhere
<1>3. Holds(chan, Requests) /\ Holds(reply, Answers)
  BY <1>1 DEF IInv, Traffic, Holds, Requests, Answers
<1> QED BY <1>2, <1>3

LEMMA MessagesHold ==
  ASSUME NEW c \in Conn, NEW t \in Trx, Connected(t), conn[t] = c,
         NEW k \in Kinds, NEW a \in Args
  PROVE  /\ Message(t, k, a) \in Requests[c]
         /\ Reply(Message(t, k, a), FALSE) \in Answers[c]
<1> DEFINE m == Message(t, k, a)
<1>1. m \in Request /\ m.trx = t /\ Reply(m, FALSE) \in Answer /\ Reply(m, FALSE).trx = t
  BY MessageType
<1> HIDE DEF m
<1>2. m \in Requests[c] /\ Reply(m, FALSE) \in Answers[c]
  BY <1>1 DEF Requests, Answers, OnConnection
<1> QED BY <1>2 DEF m

\* A transactor has a connection, and what it posts keeps the queues so.
LEMMA TransactorPosts ==
  ASSUME IInv, NEW t \in Trx, Connected(t), NEW k \in Kinds, NEW a \in Args,
         Post(conn[t], Message(t, k, a), reply[conn[t]])
  PROVE  /\ chan' \in [Conn -> Seq(Request)] /\ reply' \in [Conn -> Seq(Answer)]
         /\ Holds(chan', Requests) /\ Holds(reply', Answers)
<1> DEFINE m == Message(t, k, a)
           c == conn[t]
<1>1. c \in Conn
  BY DEF IInv, ConnectionSource
<1>2. m \in Requests[c] /\ Reply(m, FALSE) \in Answers[c]
  BY <1>1, MessagesHold
<1>3. m \in Everywhere(Request)[c] /\ Reply(m, FALSE) \in Everywhere(Answer)[c]
  BY <1>1, MessageType DEF Everywhere
<1>4. reply[c] \in Seq(Answers[c]) /\ reply[c] \in Seq(Everywhere(Answer)[c])
  BY <1>1, QueuesHold DEF Holds
<1> HIDE DEF m, c
<1>5. Post(c, m, reply[c])
  BY DEF m, c
<1>6. Holds(chan', Requests) /\ Holds(reply', Answers)
  BY <1>1, <1>2, <1>4, <1>5, QueuesHold, PostQueues
<1>7. Holds(chan', Everywhere(Request)) /\ Holds(reply', Everywhere(Answer))
  BY <1>1, <1>3, <1>4, <1>5, QueuesHold, PostQueues
<1> QED BY <1>6, <1>7, HoldsEverywhere

\* Settling a promise keeps the outcomes typed.
LEMMA SettledType ==
  ASSUME TypeOK, NEW t \in Trx, NEW o \in Outcomes
  PROVE  Settled(t, o) \in [Trx -> Outcomes]
BY DEF Settled, TypeOK

\* Settling touches one promise, and only one that is pending.
LEMMA SettledEffect ==
  ASSUME TypeOK, NEW t \in Trx, NEW o
  PROVE  \A u \in Trx : /\ Settled(t, o)[u] = exec[u] \/ (u = t /\ Settled(t, o)[u] = o)
                        /\ exec[u] # "pending" => Settled(t, o)[u] = exec[u]
<1>1. CASE exec[t] = "pending"
  <2>1. Settled(t, o) = [exec EXCEPT ![t] = o]
    BY <1>1 DEF Settled
  <2> QED BY <1>1, <2>1 DEF TypeOK
<1>2. CASE exec[t] # "pending"
  BY <1>2 DEF Settled
<1> QED BY <1>1, <1>2

\* The transactor exists only once a connection does.
LEMMA TransactorConnected ==
  ASSUME IInv, NEW t \in Trx, stage[t] # "idle"
  PROVE  Connected(t) /\ conn[t] \in Conn
BY DEF IInv, LifeCycle, ConnectionSource

\* Finishing keeps the variables it touches typed.
LEMMA FinishType ==
  ASSUME IInv, NEW t \in Trx, Connected(t), NEW k \in Kinds, NEW a \in Args,
         Finish(t, k, a)
  PROVE  /\ exec' \in [Trx -> Outcomes] /\ completed' \in [Trx -> BOOLEAN]
         /\ timer' \in [Trx -> Args \cup {"off"}]
         /\ chan' \in [Conn -> Seq(Request)] /\ reply' \in [Conn -> Seq(Answer)]
<1>1. TypeOK
  BY DEF IInv
<1>2. exec' = Settled(t, "rejected") \/ exec' = exec
  BY DEF Finish, Rejected
<1>3. exec' \in [Trx -> Outcomes]
  BY <1>1, <1>2, SettledType DEF TypeOK, Outcomes
<1>4. completed' \in [Trx -> BOOLEAN] /\ timer' \in [Trx -> Args \cup {"off"}]
  <2>1. timer' = timer \/ timer' = [timer EXCEPT ![t] = a]
    BY DEF Finish, Rejected
  <2>2. completed' = [completed EXCEPT ![t] = TRUE]
    BY DEF Finish, Rejected
  <2> QED BY <1>1, <2>1, <2>2 DEF TypeOK
<1>5. (chan' = chan /\ reply' = reply) \/ Post(conn[t], Message(t, k, a), reply[conn[t]])
  BY DEF Finish, Rejected
<1>6. chan' \in [Conn -> Seq(Request)] /\ reply' \in [Conn -> Seq(Answer)]
  BY <1>1, <1>5, TransactorPosts DEF TypeOK
<1> QED BY <1>3, <1>4, <1>6

\* The two ways to finish, through either kind of statement.
LEMMA FinishesAre ==
  ASSUME NEW t \in Trx, Commit(t) \/ (\E a \in Args : Rollback(t, a))
  PROVE  \E k \in Finals, a \in Args : Finish(t, k, a)
BY DEF Commit, Rollback, Finals, Args

LEMMA TypeStep ==
  ASSUME IInv, [Next]_vars
  PROVE  TypeOK'
<1>0. TypeOK
  BY DEF IInv
<1>1. CASE UNCHANGED vars
  BY <1>0, <1>1 DEF TypeOK, vars, tree, server
<1>2. ASSUME NEW t \in Trx, NewTransaction(t)
      PROVE  TypeOK'
  <2>1. cfg' \in [Trx -> Config]
    BY <1>0, <1>2, TransactionAssumption DEF NewTransaction, TypeOK
  <2>2. life' \in [Trx -> Lives] /\ exec' \in [Trx -> Outcomes]
    BY <1>0, <1>2 DEF NewTransaction, TypeOK, Lives, Outcomes
  <2> QED BY <1>0, <1>2, <2>1, <2>2 DEF NewTransaction, TypeOK, server
<1>3. ASSUME NEW t \in Trx, NEW p \in Trx, NewNested(p, t)
      PROVE  TypeOK'
  <2>1. cfg' \in [Trx -> Config]
    BY <1>0, <1>3, TransactionAssumption DEF NewNested, TypeOK
  <2>2. life' \in [Trx -> Lives] /\ exec' \in [Trx -> Outcomes]
    BY <1>0, <1>3 DEF NewNested, TypeOK, Lives, Outcomes
  <2>3. /\ anc' \in [Trx -> SUBSET Trx] /\ outer' \in [Trx -> Trx \cup {NoTrx}]
        /\ prev' \in [Trx -> Trx \cup {NoTrx}]
        /\ lastChild' \in [Trx -> Trx \cup {NoTrx}]
    BY <1>0, <1>3 DEF NewNested, TypeOK, Line
  <2> QED BY <1>0, <1>3, <2>1, <2>2, <2>3 DEF NewNested, TypeOK, server
<1>4. ASSUME NEW t \in Trx, ContainerSettles(t)
      PROVE  TypeOK'
  <2>1. Connected(t) /\ \E k \in Kinds, a \in Args : Finish(t, k, a)
    BY <1>4, FinishesAre, TransactorConnected DEF ContainerSettles, Finals, Kinds
  <2>2. stage' \in [Trx -> Stages]
    BY <1>0, <1>4 DEF ContainerSettles, TypeOK, Stages
  <2>3. /\ exec' \in [Trx -> Outcomes] /\ completed' \in [Trx -> BOOLEAN]
        /\ timer' \in [Trx -> Args \cup {"off"}]
        /\ chan' \in [Conn -> Seq(Request)] /\ reply' \in [Conn -> Seq(Answer)]
    BY <2>1, FinishType
  <2> QED BY <1>0, <1>4, <2>2, <2>3 DEF ContainerSettles, TypeOK, tree, server
<1>5. ASSUME NEW t \in Trx, UserFinishes(t)
      PROVE  TypeOK'
  <2>1. Connected(t) /\ \E k \in Kinds, a \in Args : Finish(t, k, a)
    BY <1>5, FinishesAre, TransactorConnected
       DEF UserFinishes, HasTransactor, Finals, Kinds
  <2>2. calls' \in [Trx -> Nat]
    BY <1>0, <1>5 DEF UserFinishes, TypeOK
  <2>3. /\ exec' \in [Trx -> Outcomes] /\ completed' \in [Trx -> BOOLEAN]
        /\ timer' \in [Trx -> Args \cup {"off"}]
        /\ chan' \in [Conn -> Seq(Request)] /\ reply' \in [Conn -> Seq(Answer)]
    BY <2>1, FinishType
  <2> QED BY <1>0, <1>5, <2>2, <2>3 DEF UserFinishes, TypeOK, tree, server
<1>6. ASSUME NEW t \in Trx, UserQuery(t)
      PROVE  TypeOK'
  <2>1. Connected(t)
    BY <1>6, TransactorConnected DEF UserQuery, HasTransactor
  <2>2. \/ chan' = chan /\ reply' = reply
        \/ Post(conn[t], Message(t, "query", "undefined"), reply[conn[t]])
    BY <1>6 DEF UserQuery
  <2>3. chan' \in [Conn -> Seq(Request)] /\ reply' \in [Conn -> Seq(Answer)]
    BY <1>0, <2>1, <2>2, TransactorPosts DEF TypeOK, Kinds, Args
  <2>4. wrote' \in [Trx -> {"no", "sent", "ok", "failed"}]
    <3>1. wrote' = [wrote EXCEPT ![t] = "failed"] \/ wrote' = [wrote EXCEPT ![t] = "sent"]
      BY <1>6 DEF UserQuery
    <3> QED BY <1>0, <3>1 DEF TypeOK
  <2>5. UNCHANGED <<life, stage, exec, completed, tree, conn, timer, calls, free,
                    server>>
    BY <1>6 DEF UserQuery
  <2> QED BY <1>0, <2>3, <2>4, <2>5 DEF TypeOK, tree, server
<1>7. ASSUME NEW t \in Trx, AcquireConnection(t)
      PROVE  TypeOK'
  <2>1. PICK c \in Candidates(t) :
          /\ conn' = [conn EXCEPT ![t] = c]
          /\ free' = IF FromPool(t) THEN free \ {c} ELSE free
          /\ IF IsCompleted(t) THEN UNCHANGED <<chan, reply>>
             ELSE Post(c, Message(t, InitKind(t), "undefined"), reply[c])
    BY <1>7 DEF AcquireConnection
  <2>2. c \in Conn
    BY <2>1, CandidatesAreConnections
  <2>3. Message(t, InitKind(t), "undefined") \in Request
        /\ Reply(Message(t, InitKind(t), "undefined"), FALSE) \in Answer
    BY MessageType DEF InitKind, Kinds, Args
  <2>4. chan' \in [Conn -> Seq(Request)] /\ reply' \in [Conn -> Seq(Answer)]
    <3>1. CASE IsCompleted(t)
      BY <1>0, <2>1, <3>1 DEF TypeOK
    <3>2. CASE ~IsCompleted(t)
      <4> DEFINE m == Message(t, InitKind(t), "undefined")
      <4>1. /\ m \in Everywhere(Request)[c] /\ Reply(m, FALSE) \in Everywhere(Answer)[c]
            /\ reply[c] \in Seq(Everywhere(Answer)[c])
        BY <2>2, <2>3, QueuesHold DEF Everywhere, Holds
      <4>2. Post(c, m, reply[c])
        BY <2>1, <3>2
      <4> HIDE DEF m
      <4>3. Holds(chan', Everywhere(Request)) /\ Holds(reply', Everywhere(Answer))
        BY <2>2, <4>1, <4>2, QueuesHold, PostQueues
      <4> QED BY <4>3, HoldsEverywhere
    <3> QED BY <3>1, <3>2
  <2>5. conn' \in [Trx -> Conn \cup {NoConn}] /\ free' \in SUBSET PoolConn
    BY <1>0, <2>1, <2>2 DEF TypeOK
  <2>6. exec' \in [Trx -> Outcomes]
    BY <1>0, <1>7, SettledType DEF AcquireConnection, TypeOK, Outcomes
  <2>7. completed' \in [Trx -> BOOLEAN] /\ life' \in [Trx -> Lives]
        /\ stage' \in [Trx -> Stages]
    BY <1>0, <1>7 DEF AcquireConnection, TypeOK, Lives, Stages, IsCompleted
  <2> QED BY <1>0, <1>7, <2>4, <2>5, <2>6, <2>7
       DEF AcquireConnection, TypeOK, tree, server
<1>8. ASSUME NEW t \in Trx, AcquireFail(t)
      PROVE  TypeOK'
  <2>1. exec' \in [Trx -> Outcomes] /\ life' \in [Trx -> Lives]
    BY <1>0, <1>8, SettledType DEF AcquireFail, TypeOK, Outcomes, Lives
  <2> QED BY <1>0, <1>8, <2>1 DEF AcquireFail, TypeOK, tree, server
<1>9. ASSUME NEW t \in Trx, InvokeContainer(t)
      PROVE  TypeOK'
  <2>1. stage' \in [Trx -> Stages]
    BY <1>0, <1>9 DEF InvokeContainer, TypeOK, Stages
  <2> QED BY <1>0, <1>9, <2>1 DEF InvokeContainer, TypeOK, tree, server
<1>10. ASSUME NEW t \in Trx, RollbackTimeout(t)
       PROVE  TypeOK'
  <2>1. exec' \in [Trx -> Outcomes]
    BY <1>0, <1>10, SettledType DEF RollbackTimeout, TypeOK, Outcomes
  <2>2. timer' \in [Trx -> Args \cup {"off"}]
    BY <1>0, <1>10 DEF RollbackTimeout, TypeOK
  <2> QED BY <1>0, <1>10, <2>1, <2>2 DEF RollbackTimeout, TypeOK, tree, server
<1>11. ASSUME NEW t \in Trx, Release(t)
       PROVE  TypeOK'
  <2>1. FromPool(t) => conn[t] \in PoolConn
    BY <1>11 DEF Release, Connected, IInv, ConnectionSource
  <2>2. free' \in SUBSET PoolConn /\ life' \in [Trx -> Lives]
    BY <1>0, <1>11, <2>1 DEF Release, TypeOK, Lives
  <2> QED BY <1>0, <1>11, <2>2 DEF Release, TypeOK, tree, server
<1>12. ASSUME NEW c \in Conn, Execute(c)
       PROVE  TypeOK'
  <2>1. chan' \in [Conn -> Seq(Request)] /\ reply' \in [Conn -> Seq(Answer)]
    <3>1. \A m \in Everywhere(Request)[c] : \A ok \in BOOLEAN :
            Reply(m, ok) \in Everywhere(Answer)[c]
      BY MessageType DEF Everywhere
    <3>2. Holds(chan', Everywhere(Request)) /\ Holds(reply', Everywhere(Answer))
      BY <1>12, <3>1, QueuesHold, ExecuteQueues
    <3> QED BY <3>2, HoldsEverywhere
  <2>2. Head(chan[c]) \in Request
    BY <1>0, <1>12, HeadTailProperties DEF Execute, TypeOK
  <2>3. /\ Head(chan[c]).kind \in Kinds /\ Head(chan[c]).trx \in Trx
        /\ sess[c] \in SessionState
    BY <1>0, <2>2 DEF Request, TypeOK
  <2>4. sess' \in [Conn -> SessionState] /\ durable' \in SUBSET Trx
    <3> DEFINE k == Head(chan[c]).kind
               t == Head(chan[c]).trx
    <3>1. /\ CanRun(sess[c], k, t) => AfterSuccess(sess[c], k, t) \in SessionState
          /\ AfterFailure(sess[c], k) \in SessionState
          /\ MadeDurable(sess[c], k, t) \in SUBSET Trx
      BY <2>3, SessionStep
    <3>2. \/ /\ CanRun(sess[c], k, t)
             /\ sess' = [sess EXCEPT ![c] = AfterSuccess(sess[c], k, t)]
             /\ durable' = durable \cup MadeDurable(sess[c], k, t)
          \/ sess' = [sess EXCEPT ![c] = AfterFailure(sess[c], k)] /\ durable' = durable
      BY <1>12 DEF Execute
    <3> QED BY <1>0, <3>1, <3>2 DEF TypeOK
  <2> QED BY <1>0, <1>12, <2>1, <2>4 DEF Execute, TypeOK, tree
<1>13. ASSUME NEW c \in Conn, Deliver(c)
       PROVE  TypeOK'
  <2> DEFINE m == Head(reply[c])
  <2>1. /\ chan' \in [Conn -> Seq(Request)] /\ reply' \in [Conn -> Seq(Answer)]
        /\ m \in Answer
    <3>1. \A n \in Answer :
            /\ Message(n.trx, "begin", "undefined") \in Request
            /\ Reply(Message(n.trx, "begin", "undefined"), FALSE) \in Answer
      BY MessageType DEF Answer, Kinds, Args
    <3>2. /\ Everywhere(Request)[c] = Request /\ Everywhere(Answer)[c] = Answer
      BY DEF Everywhere
    <3>3. /\ Holds(chan', Everywhere(Request)) /\ Holds(reply', Everywhere(Answer))
          /\ m \in Answer
      BY <1>13, <3>1, <3>2, QueuesHold, DeliverQueues
    <3> QED BY <3>3, HoldsEverywhere
  <2>2. m.trx \in Trx
    BY <2>1 DEF Answer
  <2>3. \/ InitFailed(c, m, Tail(reply[c])) \/ IsolationSet(c, m, Tail(reply[c]))
        \/ Begun(c, m, Tail(reply[c])) \/ Finished(c, m, Tail(reply[c]))
        \/ Queried(c, m, Tail(reply[c]))
    BY <1>13 DEF Deliver
  <2> HIDE DEF m
  <2>4. exec' \in [Trx -> Outcomes]
    <3>1. Outcome(m) \in Outcomes
      BY DEF Outcome, Outcomes
    <3> QED BY <1>0, <2>2, <2>3, <3>1, SettledType
         DEF InitFailed, Rejected, IsolationSet, Begun, Finished, Queried, TypeOK, Outcomes
  <2>5. /\ stage' \in [Trx -> Stages] /\ completed' \in [Trx -> BOOLEAN]
        /\ timer' \in [Trx -> Args \cup {"off"}]
        /\ wrote' \in [Trx -> {"no", "sent", "ok", "failed"}]
    BY <1>0, <2>2, <2>3
       DEF InitFailed, Rejected, IsolationSet, Begun, Finished, Queried, TypeOK, Stages
  <2> QED BY <1>0, <1>13, <2>1, <2>4, <2>5 DEF Deliver, TypeOK, tree, server
<1>14. ASSUME NEW c \in Conn, Disconnect(c)
       PROVE  TypeOK'
  <2>1. chan' \in [Conn -> Seq(Request)] /\ reply' \in [Conn -> Seq(Answer)]
    <3>1. \A m \in Everywhere(Request)[c] \cup Everywhere(Answer)[c] : \A ok \in BOOLEAN :
            Reply(m, ok) \in Everywhere(Answer)[c]
      BY MessageType DEF Everywhere
    <3>2. Holds(chan', Everywhere(Request)) /\ Holds(reply', Everywhere(Answer))
      BY <1>14, <3>1, QueuesHold, DisconnectQueues
    <3> QED BY <3>2, HoldsEverywhere
  <2>2. IdleSession \in SessionState
    <3>1. <<>> \in Seq(Mark)
      BY EmptySeq
    <3> QED BY <3>1 DEF IdleSession, SessionState
  <2>3. sess' \in [Conn -> SessionState] /\ dead' \in SUBSET Conn /\ faults' \in Nat
    BY <1>0, <1>14, <2>2 DEF Disconnect, TypeOK
  <2> QED BY <1>0, <1>14, <2>1, <2>3 DEF Disconnect, TypeOK, tree
<1>15. ASSUME NEW c \in Conn, ReplaceConnection(c)
       PROVE  TypeOK'
  BY <1>0, <1>15 DEF ReplaceConnection, TypeOK, tree
<1> QED BY <1>1, <1>2, <1>3, <1>4, <1>5, <1>6, <1>7, <1>8, <1>9, <1>10, <1>11,
          <1>12, <1>13, <1>14, <1>15 DEF Next, User, Runtime, Network

\* What Finish does, whatever the statement: the transaction is completed, and
\* only its own promise and timer are touched.
LEMMA FinishEffect ==
  ASSUME TypeOK, NEW t \in Trx, NEW k, NEW a, Finish(t, k, a)
  PROVE  /\ completed' = [completed EXCEPT ![t] = TRUE]
         /\ exec' = Settled(t, "rejected") \/ exec' = exec
         /\ \A u \in Trx \ {t} : timer'[u] = timer[u]
BY DEF Finish, Rejected, TypeOK

\* What a delivered answer does: it concerns a connected transaction, and
\* whatever settles its promise has completed it.
LEMMA DeliverEffect ==
  ASSUME IInv, NEW c \in Conn, Deliver(c)
  PROVE  \E t \in Trx :
           /\ Connected(t) /\ stage' \in {stage, [stage EXCEPT ![t] = "begin"],
                                          [stage EXCEPT ![t] = "invoke"]}
           /\ timer' \in {timer, [timer EXCEPT ![t] = "off"]}
           /\ \/ completed' = completed /\ exec' = exec
              \/ /\ completed' = [completed EXCEPT ![t] = TRUE]
                 /\ \E o \in Outcomes \ {"none", "pending"} : exec' = Settled(t, o)
<1> DEFINE m == Head(reply[c])
           rest == Tail(reply[c])
<1>1. m \in OnConnection(c, Answer)
  BY HeadTailProperties DEF Deliver, IInv, Traffic
<1>2. m.trx \in Trx /\ Connected(m.trx)
  BY <1>1 DEF OnConnection, Answer
<1>3. \/ InitFailed(c, m, rest) \/ IsolationSet(c, m, rest)
      \/ Begun(c, m, rest) \/ Finished(c, m, rest) \/ Queried(c, m, rest)
  BY DEF Deliver
<1> HIDE DEF m, rest
<1>4. CASE InitFailed(c, m, rest)
  BY <1>2, <1>4 DEF InitFailed, Rejected, Outcomes
<1>5. CASE IsolationSet(c, m, rest) \/ Begun(c, m, rest) \/ Queried(c, m, rest)
  BY <1>2, <1>5 DEF IsolationSet, Begun, Queried
<1>6. CASE Finished(c, m, rest)
  <2>1. Outcome(m) \in Outcomes \ {"none", "pending"}
    BY DEF Outcome, Outcomes
  <2> QED BY <1>2, <1>6, <2>1 DEF Finished
<1> QED BY <1>3, <1>4, <1>5, <1>6

LEMMA LifeCycleStep ==
  ASSUME IInv, [Next]_vars
  PROVE  LifeCycle'
<1>0. TypeOK /\ LifeCycle
  BY DEF IInv
<1>1. CASE UNCHANGED vars
  BY <1>0, <1>1 DEF LifeCycle, Connected, FromPool, IsNested, vars, tree
<1>2. ASSUME NEW t \in Trx, NewTransaction(t)
      PROVE  LifeCycle'
  BY <1>0, <1>2 DEF NewTransaction, LifeCycle, TypeOK, Connected, IsNested
<1>3. ASSUME NEW t \in Trx, NEW p \in Trx, NewNested(p, t)
      PROVE  LifeCycle'
  <2>1. outer' = [outer EXCEPT ![t] = p] /\ p # NoTrx
    BY <1>3, SessionAssumption DEF NewNested
  <2> QED BY <1>0, <1>3, <2>1 DEF NewNested, LifeCycle, TypeOK, Connected, IsNested
<1>4. ASSUME NEW t \in Trx, NEW k, NEW a, Finish(t, k, a), Connected(t),
             UNCHANGED <<life, tree>>,
             \A u \in Trx : stage'[u] # "idle" => stage[u] # "idle" \/ u = t
      PROVE  LifeCycle'
  <2>1. /\ completed' = [completed EXCEPT ![t] = TRUE]
        /\ exec' = Settled(t, "rejected") \/ exec' = exec
        /\ \A u \in Trx \ {t} : timer'[u] = timer[u]
    BY <1>0, <1>4, FinishEffect
  <2>2. \A u \in Trx : exec[u] \notin {"none", "pending"} => exec'[u] = exec[u]
    BY <1>0, <2>1, SettledEffect DEF TypeOK
  <2>3. \A u \in Trx : exec'[u] = exec[u] \/ (u = t /\ exec'[u] = "rejected")
    BY <1>0, <2>1, SettledEffect DEF TypeOK
  <2> QED BY <1>0, <1>4, <2>1, <2>2, <2>3 DEF LifeCycle, TypeOK, Connected, IsNested, tree
<1>5. ASSUME NEW t \in Trx, ContainerSettles(t)
      PROVE  LifeCycle'
  <2>1. Connected(t) /\ \E k, a : Finish(t, k, a)
    BY <1>5, FinishesAre, TransactorConnected DEF ContainerSettles
  <2>2. \A u \in Trx : stage'[u] # "idle" => stage[u] # "idle" \/ u = t
    BY <1>0, <1>5 DEF ContainerSettles, TypeOK
  <2> QED BY <1>4, <1>5, <2>1, <2>2 DEF ContainerSettles
<1>6. ASSUME NEW t \in Trx, UserFinishes(t)
      PROVE  LifeCycle'
  <2>1. Connected(t) /\ \E k, a : Finish(t, k, a)
    BY <1>6, FinishesAre, TransactorConnected DEF UserFinishes, HasTransactor
  <2> QED BY <1>4, <1>6, <2>1 DEF UserFinishes
<1>7. ASSUME NEW t \in Trx, AcquireConnection(t)
      PROVE  LifeCycle'
  BY <1>0, <1>7 DEF AcquireConnection, LifeCycle, TypeOK, Connected, IsNested, Settled, tree
<1>8. ASSUME NEW t \in Trx, AcquireFail(t)
      PROVE  LifeCycle'
  BY <1>0, <1>8 DEF AcquireFail, LifeCycle, TypeOK, Connected, IsNested, Settled, tree
<1>9. ASSUME NEW t \in Trx, InvokeContainer(t)
      PROVE  LifeCycle'
  BY <1>0, <1>9 DEF InvokeContainer, LifeCycle, TypeOK, Connected, IsNested, tree
<1>10. ASSUME NEW t \in Trx, RollbackTimeout(t)
       PROVE  LifeCycle'
  BY <1>0, <1>10 DEF RollbackTimeout, LifeCycle, TypeOK, Connected, IsNested, Settled, tree
<1>11. ASSUME NEW t \in Trx, Release(t)
       PROVE  LifeCycle'
  BY <1>0, <1>11 DEF Release, LifeCycle, TypeOK, Connected, IsNested, tree
<1>12. ASSUME NEW c \in Conn, Deliver(c)
       PROVE  LifeCycle'
  <2>1. PICK t \in Trx :
           /\ Connected(t) /\ stage' \in {stage, [stage EXCEPT ![t] = "begin"],
                                          [stage EXCEPT ![t] = "invoke"]}
           /\ timer' \in {timer, [timer EXCEPT ![t] = "off"]}
           /\ \/ completed' = completed /\ exec' = exec
              \/ /\ completed' = [completed EXCEPT ![t] = TRUE]
                 /\ \E o \in Outcomes \ {"none", "pending"} : exec' = Settled(t, o)
    BY <1>12, DeliverEffect
  <2>2. \A u \in Trx : /\ exec'[u] = exec[u] \/ (u = t /\ exec'[u] \notin {"none", "pending"})
                       /\ completed[u] => completed'[u]
    BY <1>0, <2>1, SettledEffect DEF TypeOK
  <2>3. \A u \in Trx : /\ stage'[u] # "idle" => stage[u] # "idle" \/ u = t
                       /\ timer'[u] # "off" => timer[u] # "off"
    BY <1>0, <2>1 DEF TypeOK
  <2>4. UNCHANGED <<life, tree>>
    BY <1>12 DEF Deliver
  <2> QED BY <1>0, <2>1, <2>2, <2>3, <2>4 DEF LifeCycle, TypeOK, Connected, IsNested, tree
<1>13. ASSUME UNCHANGED <<life, stage, exec, completed, tree, timer>>
       PROVE  LifeCycle'
  BY <1>0, <1>13 DEF LifeCycle, Connected, IsNested, tree
<1>14. ASSUME NEW c \in Conn, Execute(c) \/ Disconnect(c) \/ ReplaceConnection(c)
       PROVE  LifeCycle'
  BY <1>13, <1>14 DEF Execute, Disconnect, ReplaceConnection
<1>15. ASSUME NEW t \in Trx, UserQuery(t)
       PROVE  LifeCycle'
  BY <1>13, <1>15 DEF UserQuery
<1> QED BY <1>1, <1>2, <1>3, <1>5, <1>6, <1>7, <1>8, <1>9, <1>10, <1>11, <1>12,
          <1>14, <1>15 DEF Next, User, Runtime, Network

\* The steps that change the life of a transaction, the tree of transactions
\* or who has which connection.
LEMMA LifeSteps ==
  ASSUME [Next]_vars
  PROVE  \/ UNCHANGED <<life, tree, conn, free>>
         \/ \E t \in Trx : \/ NewTransaction(t) \/ AcquireConnection(t)
                           \/ AcquireFail(t) \/ Release(t)
                           \/ \E p \in Trx : NewNested(p, t)
BY DEF Next, User, Runtime, Network, ContainerSettles, UserFinishes, UserQuery,
       InvokeContainer, RollbackTimeout, Execute, Deliver, Disconnect,
       ReplaceConnection, vars

\* Lives only move forward, so connected transactions stay connected.
LEMMA LifeMonotonic ==
  ASSUME IInv, [Next]_vars
  PROVE  \A t \in Trx : /\ life[t] # "none" => life'[t] # "none"
                        /\ Connected(t) => Connected(t)' /\ conn'[t] = conn[t]
                        /\ life[t] = "closed" => life'[t] = "closed"
                        /\ life[t] = "failed" => life'[t] = "failed"
<1>0. TypeOK
  BY DEF IInv
<1> DEFINE SameConn == \A t \in Trx : Connected(t) => conn'[t] = conn[t]
<1>1. CASE UNCHANGED <<life, tree, conn, free>>
  BY <1>1 DEF Connected
<1>2. ASSUME NEW t \in Trx, NewTransaction(t) \/ \E p \in Trx : NewNested(p, t)
      PROVE  life' = [life EXCEPT ![t] = "queued"] /\ life[t] = "none" /\ SameConn
  BY <1>2 DEF NewTransaction, NewNested
<1>3. ASSUME NEW t \in Trx, AcquireConnection(t)
      PROVE  life' = [life EXCEPT ![t] = "open"] /\ life[t] = "queued" /\ SameConn
  BY <1>0, <1>3 DEF AcquireConnection, TypeOK, Connected
<1>4. ASSUME NEW t \in Trx, AcquireFail(t)
      PROVE  life' = [life EXCEPT ![t] = "failed"] /\ life[t] = "queued" /\ SameConn
  BY <1>4 DEF AcquireFail
<1>5. ASSUME NEW t \in Trx, Release(t)
      PROVE  life' = [life EXCEPT ![t] = "closed"] /\ life[t] = "open" /\ SameConn
  BY <1>5 DEF Release
<1> HIDE DEF SameConn
<1>6. CASE /\ SameConn
           /\ \E t \in Trx : \/ life' = [life EXCEPT ![t] = "queued"] /\ life[t] = "none"
                             \/ life' = [life EXCEPT ![t] = "open"] /\ life[t] = "queued"
                             \/ life' = [life EXCEPT ![t] = "failed"] /\ life[t] = "queued"
                             \/ life' = [life EXCEPT ![t] = "closed"] /\ life[t] = "open"
  BY <1>0, <1>6 DEF TypeOK, Connected, SameConn
<1> QED BY <1>1, <1>2, <1>3, <1>4, <1>5, <1>6, LifeSteps

LEMMA NestingStep ==
  ASSUME IInv, [Next]_vars
  PROVE  Nesting'
<1>0. TypeOK /\ LifeCycle /\ Nesting
  BY DEF IInv
<1>1. \A t \in Trx : /\ life[t] # "none" => life'[t] # "none"
                     /\ Connected(t) => Connected(t)'
  BY LifeMonotonic
<1>2. CASE UNCHANGED tree
  <2>1. \A t \in Trx : IsNested(t) => outer[t] \in Trx
    BY <1>0 DEF TypeOK, IsNested
  <2> QED BY <1>0, <1>1, <1>2, <2>1 DEF Nesting, IsNested, Line, tree
<1>3. ASSUME NEW t \in Trx, NewTransaction(t)
      PROVE  Nesting'
  <2>1. life[t] = "none" /\ ~IsNested(t)
    BY <1>0, <1>3 DEF NewTransaction, LifeCycle, IsNested
  <2>2. \A u \in Trx : IsNested(u) => outer[u] \in Trx
    BY <1>0 DEF TypeOK, IsNested
  <2>3. UNCHANGED <<outer, anc>> /\ \A u \in Trx \ {t} : cfg'[u] = cfg[u]
    BY <1>0, <1>3 DEF NewTransaction, TypeOK
  <2> QED BY <1>0, <1>1, <2>1, <2>2, <2>3 DEF Nesting, IsNested, Line
<1>4. ASSUME NEW t \in Trx, NEW p \in Trx, NewNested(p, t)
      PROVE  Nesting'
  <2>1. /\ life[t] = "none" /\ Connected(p) /\ p # t /\ life'[t] # "none"
        /\ outer' = [outer EXCEPT ![t] = p] /\ anc' = [anc EXCEPT ![t] = Line(p)]
        /\ cfg'[t].conn = NoConn /\ \A u \in Trx \ {t} : cfg'[u] = cfg[u]
    BY <1>0, <1>4, TransactorConnected DEF NewNested, HasTransactor, Connected, TypeOK
  <2>2. ASSUME NEW u \in Trx, IsNested(u)'
        PROVE  (life[u] # "none" /\ cfg[u].conn = NoConn
                /\ Connected(outer[u]) /\ anc[u] = Line(outer[u]))'
    <3>1. CASE u = t
      <4>1. outer'[t] = p /\ anc'[t] = {p} \cup anc[p] /\ anc'[p] = anc[p]
        BY <1>0, <2>1 DEF TypeOK, Line
      <4>2. Connected(p)'
        BY <1>1, <2>1
      <4> QED BY <2>1, <3>1, <4>1, <4>2 DEF Line
    <3>2. CASE u # t
      <4>1. outer'[u] = outer[u] /\ anc'[u] = anc[u] /\ IsNested(u)
        BY <1>0, <2>1, <2>2, <3>2 DEF TypeOK, IsNested
      <4>2. outer[u] \in Trx /\ outer[u] # t
        <5>1. Connected(outer[u]) /\ ~Connected(t)
          BY <1>0, <2>1, <4>1 DEF Nesting, Connected
        <5>2. outer[u] \in Trx
          BY <1>0, <4>1 DEF TypeOK, IsNested
        <5> QED BY <5>1, <5>2
      <4>3. anc'[outer[u]] = anc[outer[u]]
        BY <1>0, <2>1, <4>2 DEF TypeOK
      <4> QED BY <1>0, <1>1, <2>1, <3>2, <4>1, <4>2, <4>3 DEF Nesting, Line
    <3> QED BY <3>1, <3>2
  <2> QED BY <2>2 DEF Nesting
<1>5. ASSUME NEW t \in Trx, AcquireConnection(t) \/ AcquireFail(t) \/ Release(t)
      PROVE  UNCHANGED tree
  BY <1>5 DEF AcquireConnection, AcquireFail, Release
<1> QED BY <1>2, <1>3, <1>4, <1>5, LifeSteps

\* In a new state as in an old one, a transaction is as rooted as its parent.
LEMMA RootedStep ==
  ASSUME IInv, [Next]_vars
  PROVE  Rooted'
<1>0. TypeOK /\ LifeCycle /\ Nesting /\ Rooted
  BY DEF IInv
<1>1. \A t \in Trx : /\ life[t] # "none" => life'[t] # "none"
                     /\ Connected(t) => Connected(t)'
  BY LifeMonotonic
<1>2. CASE UNCHANGED <<life, tree, conn, free>>
  BY <1>0, <1>2 DEF Rooted, IsRoot, IsNested, Line, Connected, tree
<1>3. ASSUME NEW t \in Trx, NewTransaction(t)
      PROVE  Rooted'
  <2>1. /\ life' = [life EXCEPT ![t] = "queued"] /\ life[t] = "none"
        /\ UNCHANGED <<outer, anc, conn>> /\ outer[t] = NoTrx
    BY <1>0, <1>3 DEF NewTransaction, LifeCycle
  <2>2. ASSUME NEW u \in Trx, u # t, life'[u] # "none"
        PROVE  (\E r \in Line(u) :
                  /\ IsRoot(r) /\ (IsNested(u) => Connected(r))
                  /\ (Connected(u) => Connected(r) /\ conn[u] = conn[r]))'
    <3>1. PICK r \in Line(u) :
            /\ IsRoot(r) /\ (IsNested(u) => Connected(r))
            /\ (Connected(u) => Connected(r) /\ conn[u] = conn[r])
      BY <1>0, <2>1, <2>2 DEF Rooted, TypeOK
    <3>2. r \in Trx /\ life'[u] = life[u]
      BY <1>0, <2>1, <2>2 DEF Line, TypeOK
    <3> QED BY <1>1, <2>1, <3>1, <3>2 DEF IsRoot, IsNested, Line, Connected
  <2>3. (IsRoot(t) /\ ~IsNested(t) /\ ~Connected(t) /\ t \in Line(t))'
    BY <1>0, <2>1 DEF IsRoot, IsNested, Connected, Line, TypeOK
  <2> QED BY <2>2, <2>3 DEF Rooted
<1>4. ASSUME NEW t \in Trx, NEW p \in Trx, NewNested(p, t)
      PROVE  Rooted'
  <2>1. /\ life[t] = "none" /\ Connected(p) /\ p # t
        /\ life' = [life EXCEPT ![t] = "queued"] /\ conn' = conn
        /\ outer' = [outer EXCEPT ![t] = p] /\ anc' = [anc EXCEPT ![t] = Line(p)]
    BY <1>4, TransactorConnected DEF NewNested, HasTransactor, Connected
  <2>2. ASSUME NEW u \in Trx, u # t, life'[u] # "none"
        PROVE  (\E r \in Line(u) :
                  /\ IsRoot(r) /\ (IsNested(u) => Connected(r))
                  /\ (Connected(u) => Connected(r) /\ conn[u] = conn[r]))'
    <3>1. PICK r \in Line(u) :
            /\ IsRoot(r) /\ (IsNested(u) => Connected(r))
            /\ (Connected(u) => Connected(r) /\ conn[u] = conn[r])
      BY <1>0, <2>1, <2>2 DEF Rooted, TypeOK
    <3>2. r \in Trx /\ r # t
      BY <1>0, <2>1, <2>2, <3>1 DEF Line, TypeOK, IsRoot
    <3>3. /\ life'[u] = life[u] /\ life'[r] = life[r] /\ anc'[u] = anc[u]
          /\ outer'[u] = outer[u] /\ outer'[r] = outer[r]
      BY <1>0, <2>1, <2>2, <3>2 DEF TypeOK
    <3> QED BY <2>1, <3>1, <3>2, <3>3 DEF IsRoot, IsNested, Line, Connected
  <2>3. PICK r \in Line(p) : IsRoot(r) /\ Connected(r)
    BY <1>0, <2>1 DEF Rooted, Connected
  <2>4. r \in Trx /\ r # t
    BY <1>0, <2>1, <2>3 DEF Line, TypeOK, IsRoot
  <2>5. (r \in Line(t) /\ IsRoot(r) /\ Connected(r) /\ ~Connected(t))'
    BY <1>0, <2>1, <2>3, <2>4 DEF Line, TypeOK, IsRoot, Connected
  <2> QED BY <2>2, <2>5 DEF Rooted
<1>5. ASSUME NEW t \in Trx, AcquireConnection(t)
      PROVE  Rooted'
  <2>1. PICK c \in Candidates(t) : conn' = [conn EXCEPT ![t] = c]
    BY <1>5 DEF AcquireConnection
  <2>2. life[t] = "queued" /\ life' = [life EXCEPT ![t] = "open"] /\ UNCHANGED tree
    BY <1>5 DEF AcquireConnection
  <2>3. ASSUME NEW u \in Trx, u # t, life'[u] # "none"
        PROVE  (\E r \in Line(u) :
                  /\ IsRoot(r) /\ (IsNested(u) => Connected(r))
                  /\ (Connected(u) => Connected(r) /\ conn[u] = conn[r]))'
    <3>1. PICK r \in Line(u) :
            /\ IsRoot(r) /\ (IsNested(u) => Connected(r))
            /\ (Connected(u) => Connected(r) /\ conn[u] = conn[r])
      BY <1>0, <2>2, <2>3 DEF Rooted, TypeOK
    <3>2. r \in Trx /\ life'[u] = life[u] /\ conn'[u] = conn[u]
      BY <1>0, <2>1, <2>2, <2>3 DEF Line, TypeOK
    <3>3. Connected(u) => r # t /\ conn'[r] = conn[r]
      BY <1>0, <2>1, <2>2, <3>1, <3>2 DEF Connected, TypeOK
    <3> QED BY <1>1, <2>2, <3>1, <3>2, <3>3 DEF IsRoot, IsNested, Line, Connected, tree
  <2>4. CASE ~IsNested(t)
    <3>1. (IsRoot(t) /\ t \in Line(t) /\ ~IsNested(t) /\ Connected(t))'
      BY <1>0, <2>2, <2>4 DEF IsRoot, IsNested, Line, Connected, TypeOK, tree
    <3> QED BY <2>3, <3>1 DEF Rooted
  <2>5. CASE IsNested(t)
    <3> DEFINE p == outer[t]
    <3>1. /\ p \in Trx /\ Connected(p) /\ p # t /\ anc[t] = Line(p) /\ c = conn[p]
      BY <1>0, <2>1, <2>2, <2>5 DEF Nesting, TypeOK, IsNested, Connected, Candidates
    <3>2. PICK r \in Line(p) : IsRoot(r) /\ Connected(r) /\ conn[p] = conn[r]
      BY <1>0, <3>1 DEF Rooted, Connected
    <3>3. r \in Trx /\ r # t /\ r \in Line(t)
      BY <1>0, <2>2, <3>1, <3>2 DEF Line, TypeOK, Connected
    <3>4. conn'[t] = conn'[r]
      BY <1>0, <2>1, <3>1, <3>2, <3>3 DEF TypeOK
    <3>5. (r \in Line(t) /\ IsRoot(r) /\ Connected(r))'
      BY <1>1, <2>2, <3>2, <3>3 DEF Line, IsRoot, tree
    <3> QED BY <2>3, <3>4, <3>5 DEF Rooted
  <2> QED BY <2>4, <2>5
<1>6. ASSUME NEW t \in Trx, AcquireFail(t) \/ Release(t)
      PROVE  Rooted'
  <2>1. /\ UNCHANGED <<tree, conn>>
        /\ \A u \in Trx : (life'[u] = "none" <=> life[u] = "none")
                          /\ (Connected(u)' <=> Connected(u))
    BY <1>0, <1>6 DEF AcquireFail, Release, TypeOK, Connected
  <2> QED BY <1>0, <2>1 DEF Rooted, IsRoot, IsNested, Line, TypeOK, tree
<1> QED BY <1>2, <1>3, <1>4, <1>5, <1>6, LifeSteps

LEMMA ConnectionSourceStep ==
  ASSUME IInv, [Next]_vars
  PROVE  ConnectionSource'
<1>0. TypeOK /\ LifeCycle /\ ConnectionSource
  BY DEF IInv
<1>1. CASE UNCHANGED <<life, tree, conn, free>>
  BY <1>0, <1>1 DEF ConnectionSource, Connected, FromPool, IsNested, tree
<1>2. ASSUME NEW t \in Trx, NewTransaction(t) \/ \E p \in Trx : NewNested(p, t)
      PROVE  ConnectionSource'
  <2>1. /\ life' = [life EXCEPT ![t] = "queued"] /\ conn' = conn
        /\ \A u \in Trx \ {t} : cfg'[u] = cfg[u] /\ outer'[u] = outer[u]
    BY <1>0, <1>2 DEF NewTransaction, NewNested, TypeOK
  <2>2. \A u \in Trx : Connected(u)' => Connected(u) /\ u # t
    BY <1>0, <2>1 DEF TypeOK, Connected
  <2> QED BY <1>0, <2>1, <2>2 DEF ConnectionSource, FromPool, IsNested
<1>3. ASSUME NEW t \in Trx, AcquireConnection(t)
      PROVE  ConnectionSource'
  <2>1. PICK c \in Candidates(t) : conn' = [conn EXCEPT ![t] = c]
    BY <1>3 DEF AcquireConnection
  <2>2. life' = [life EXCEPT ![t] = "open"] /\ UNCHANGED tree
    BY <1>3 DEF AcquireConnection
  <2>3. c \in Conn /\ (FromPool(t) => c \in PoolConn)
    BY <2>1, CandidatesAreConnections
  <2>4. ~IsNested(t) /\ ~FromPool(t) => c = cfg[t].conn
    BY <2>1 DEF Candidates
  <2>5. \A u \in Trx : FromPool(u)' = FromPool(u) /\ IsNested(u)' = IsNested(u)
    BY <2>2 DEF FromPool, IsNested, tree
  <2>6. conn'[t] = c /\ \A u \in Trx \ {t} : conn'[u] = conn[u] /\ life'[u] = life[u]
    BY <1>0, <2>1, <2>2 DEF TypeOK
  <2>7. ASSUME NEW u \in Trx, Connected(u)'
        PROVE  /\ conn'[u] \in Conn
               /\ FromPool(u)' => conn'[u] \in PoolConn
               /\ ~IsNested(u)' /\ ~FromPool(u)' => conn'[u] = cfg'[u].conn
    <3>1. CASE u = t
      BY <2>2, <2>3, <2>4, <2>5, <2>6, <3>1 DEF tree
    <3>2. CASE u # t
      BY <1>0, <2>2, <2>5, <2>6, <2>7, <3>2 DEF ConnectionSource, Connected, tree
    <3> QED BY <3>1, <3>2
  <2> QED BY <2>7 DEF ConnectionSource
<1>4. ASSUME NEW t \in Trx, AcquireFail(t) \/ Release(t)
      PROVE  ConnectionSource'
  <2>1. /\ UNCHANGED <<tree, conn>>
        /\ \A u \in Trx : Connected(u)' => Connected(u)
    BY <1>0, <1>4 DEF AcquireFail, Release, TypeOK, Connected
  <2> QED BY <1>0, <2>1 DEF ConnectionSource, FromPool, IsNested, tree
<1> QED BY <1>1, <1>2, <1>3, <1>4, LifeSteps

\* The caller's promise not to share an external connection is kept: a
\* connection is only handed out again once its transaction is over.
LEMMA ExternalOnceStep ==
  ASSUME IInv, [Next]_vars
  PROVE  ExternalOnce'
<1>0. TypeOK /\ LifeCycle /\ ExternalOnce
  BY DEF IInv
<1>1. \A t \in Trx : life[t] = "closed" => life'[t] = "closed"
  BY LifeMonotonic
<1>2. CASE UNCHANGED tree
  BY <1>0, <1>1, <1>2 DEF ExternalOnce, tree
<1>3. ASSUME NEW t \in Trx, NewTransaction(t)
      PROVE  ExternalOnce'
  <2>1. \A u \in Trx \ {t} : cfg'[u] = cfg[u] /\ life'[u] = life[u]
    BY <1>0, <1>3 DEF NewTransaction, TypeOK
  <2>2. \A u \in Trx \ {t} :
          cfg'[t].conn # NoConn /\ cfg'[u].conn = cfg'[t].conn => life[u] = "closed"
    <3>1. PICK k \in Configs :
            /\ cfg' = [cfg EXCEPT ![t] = k]
            /\ \/ k.conn = NoConn
               \/ \A u \in Trx : cfg[u].conn = k.conn => life[u] \in {"none", "closed"}
      BY <1>3 DEF NewTransaction
    <3>2. \A u \in Trx : life[u] = "none" => cfg[u].conn = NoConn
      BY <1>0 DEF LifeCycle
    <3> QED BY <1>0, <2>1, <3>1, <3>2 DEF TypeOK
  <2> QED BY <1>0, <2>1, <2>2 DEF ExternalOnce
<1>4. ASSUME NEW t \in Trx, NEW p \in Trx, NewNested(p, t)
      PROVE  ExternalOnce'
  <2>1. /\ cfg'[t].conn = NoConn
        /\ \A u \in Trx \ {t} : cfg'[u] = cfg[u] /\ life'[u] = life[u]
    BY <1>0, <1>4 DEF NewNested, TypeOK
  <2> QED BY <1>0, <2>1 DEF ExternalOnce
<1>5. ASSUME NEW t \in Trx, AcquireConnection(t) \/ AcquireFail(t) \/ Release(t)
      PROVE  UNCHANGED tree
  BY <1>5 DEF AcquireConnection, AcquireFail, Release
<1> QED BY <1>2, <1>3, <1>4, <1>5, LifeSteps

\* Messages of transactions connected to c stay such messages.
LEMMA TrafficGrows ==
  ASSUME IInv, [Next]_vars, NEW c \in Conn
  PROVE  /\ OnConnection(c, Request) \subseteq OnConnection(c, Request)'
         /\ OnConnection(c, Answer) \subseteq OnConnection(c, Answer)'
<1>1. \A m \in Request \cup Answer : m.trx \in Trx
  BY DEF Request, Answer
<1>2. \A t \in Trx : Connected(t) => Connected(t)' /\ conn'[t] = conn[t]
  BY LifeMonotonic
<1> QED BY <1>1, <1>2 DEF OnConnection, Request, Answer, Args, Kinds

LEMMA HoldsGrows ==
  ASSUME IInv, [Next]_vars, NEW q
  PROVE  /\ Holds(q, Requests) => Holds(q, Requests')
         /\ Holds(q, Answers) => Holds(q, Answers')
<1>1. ASSUME NEW c \in Conn
      PROVE  /\ \A s \in Seq(Requests[c]) : s \in Seq(Requests'[c])
             /\ \A s \in Seq(Answers[c]) : s \in Seq(Answers'[c])
  <2>1. Requests[c] \subseteq Requests'[c] /\ Answers[c] \subseteq Answers'[c]
    BY TrafficGrows DEF Requests, Answers
  <2> QED BY <2>1, SeqMonotonic
<1> QED BY <1>1 DEF Holds

LEMMA TrafficStep ==
  ASSUME IInv, [Next]_vars
  PROVE  Traffic'
<1>0. TypeOK /\ Holds(chan, Requests) /\ Holds(reply, Answers)
  BY QueuesHold DEF IInv
<1>2. \A c \in Conn : \A m \in Requests[c] : \A ok \in BOOLEAN : Reply(m, ok) \in Answers[c]
  BY MessageType DEF OnConnection, Requests, Answers
<1>3. ASSUME Holds(chan', Requests'), Holds(reply', Answers')
      PROVE  Traffic'
  BY <1>3 DEF Traffic, Holds, Requests, Answers
<1>4. ASSUME Holds(chan', Requests), Holds(reply', Answers)
      PROVE  Traffic'
  BY <1>3, <1>4, HoldsGrows
<1>5. ASSUME UNCHANGED <<chan, reply>>
      PROVE  Traffic'
  BY <1>0, <1>4, <1>5
<1>6. ASSUME NEW t \in Trx, Connected(t), NEW k \in Kinds, NEW a \in Args, Finish(t, k, a)
      PROVE  Traffic'
  <2>1. UNCHANGED <<chan, reply>> \/ Post(conn[t], Message(t, k, a), reply[conn[t]])
    BY <1>6 DEF Finish
  <2> QED BY <1>4, <1>5, <1>6, <2>1, TransactorPosts
<1>7. ASSUME NEW t \in Trx, ContainerSettles(t) \/ UserFinishes(t)
      PROVE  Traffic'
  <2>1. Connected(t)
    BY <1>7, TransactorConnected DEF ContainerSettles, UserFinishes, HasTransactor
  <2>2. \E k \in Kinds, a \in Args : Finish(t, k, a)
    BY <1>7, FinishesAre DEF ContainerSettles, UserFinishes, Finals, Kinds
  <2> QED BY <1>6, <2>1, <2>2
<1>8. ASSUME NEW t \in Trx, UserQuery(t)
      PROVE  Traffic'
  <2>1. Connected(t)
    BY <1>8, TransactorConnected DEF UserQuery, HasTransactor
  <2>2. \/ UNCHANGED <<chan, reply>>
        \/ Post(conn[t], Message(t, "query", "undefined"), reply[conn[t]])
    BY <1>8 DEF UserQuery
  <2> QED BY <1>4, <1>5, <2>1, <2>2, TransactorPosts DEF Kinds, Args
<1>9. ASSUME NEW t \in Trx, AcquireConnection(t)
      PROVE  Traffic'
  <2>1. PICK c \in Candidates(t) :
          /\ conn' = [conn EXCEPT ![t] = c]
          /\ IF IsCompleted(t) THEN UNCHANGED <<chan, reply>>
             ELSE Post(c, Message(t, InitKind(t), "undefined"), reply[c])
    BY <1>9 DEF AcquireConnection
  <2>2. c \in Conn
    BY <2>1, CandidatesAreConnections
  <2>3. Connected(t)' /\ conn'[t] = c
    <3>1. life' = [life EXCEPT ![t] = "open"]
      BY <1>9 DEF AcquireConnection
    <3>2. Connected(t)'
      BY <1>0, <3>1 DEF Connected, TypeOK
    <3> QED BY <1>0, <2>1, <3>2 DEF TypeOK
  <2> DEFINE m == Message(t, InitKind(t), "undefined")
  <2>4. m \in Requests'[c] /\ Reply(m, FALSE) \in Answers'[c]
    <3>1. InitKind(t) \in Kinds /\ "undefined" \in Args
      BY DEF InitKind, Kinds, Args
    <3>2. m \in Request /\ m.trx = t /\ Reply(m, FALSE) \in Answer /\ Reply(m, FALSE).trx = t
      BY <3>1, MessageType
    <3> HIDE DEF m
    <3> QED BY <2>2, <2>3, <3>2 DEF OnConnection, Requests, Answers
  <2>5. Holds(chan, Requests') /\ Holds(reply, Answers')
    BY <1>0, HoldsGrows
  <2>6. CASE IsCompleted(t)
    BY <1>5, <2>1, <2>6
  <2>7. CASE ~IsCompleted(t)
    <3>1. Post(c, m, reply[c])
      BY <2>1, <2>7
    <3>2. reply[c] \in Seq(Answers'[c])
      BY <2>2, <2>5 DEF Holds
    <3> HIDE DEF m
    <3>3. Holds(chan', Requests') /\ Holds(reply', Answers')
      BY <2>2, <2>4, <2>5, <3>1, <3>2, PostQueues
    <3> QED BY <1>3, <3>3
  <2> QED BY <2>6, <2>7
<1>10. ASSUME NEW c \in Conn, Execute(c)
       PROVE  Traffic'
  BY <1>0, <1>2, <1>4, <1>10, ExecuteQueues
<1>11. ASSUME NEW c \in Conn, Disconnect(c)
       PROVE  Traffic'
  <2>1. \A m \in Requests[c] \cup Answers[c] : \A ok \in BOOLEAN : Reply(m, ok) \in Answers[c]
    BY MessageType DEF OnConnection, Requests, Answers
  <2> QED BY <1>0, <1>4, <1>11, <2>1, DisconnectQueues
<1>12. ASSUME NEW c \in Conn, Deliver(c)
       PROVE  Traffic'
  <2>1. \A m \in Answers[c] : Connected(m.trx) /\ m.trx \in Trx /\ conn[m.trx] = c
    BY DEF OnConnection, Answer, Answers
  <2>2. \A m \in Answers[c] :
          /\ Message(m.trx, "begin", "undefined") \in Requests[c]
          /\ Reply(Message(m.trx, "begin", "undefined"), FALSE) \in Answers[c]
    BY <2>1, MessagesHold DEF Kinds, Args
  <2> QED BY <1>0, <1>4, <1>12, <2>2, DeliverQueues
<1>13. ASSUME NEW t \in Trx,
              \/ NewTransaction(t) \/ AcquireFail(t) \/ InvokeContainer(t)
              \/ RollbackTimeout(t) \/ Release(t) \/ \E p \in Trx : NewNested(p, t)
       PROVE  Traffic'
  BY <1>5, <1>13 DEF NewTransaction, AcquireFail, InvokeContainer, RollbackTimeout,
                     Release, NewNested
<1>14. ASSUME NEW c \in Conn, ReplaceConnection(c)
       PROVE  Traffic'
  BY <1>5, <1>14 DEF ReplaceConnection
<1>15. CASE UNCHANGED vars
  BY <1>5, <1>15 DEF vars
<1> QED BY <1>7, <1>8, <1>9, <1>10, <1>11, <1>12, <1>13, <1>14, <1>15
       DEF Next, User, Runtime, Network

\* Every path that settles a promise has completed its transaction.
LEMMA SettledIsCompletedStep ==
  ASSUME IInv, [Next]_vars
  PROVE  SettledIsCompleted'
<1>0. TypeOK /\ LifeCycle /\ SettledIsCompleted
  BY DEF IInv
<1>1. ASSUME \A u \in Trx :
               /\ completed[u] => completed'[u]
               /\ Connected(u)' /\ exec'[u] # "pending" /\ ~completed'[u]
                    => Connected(u) /\ exec[u] # "pending"
      PROVE  SettledIsCompleted'
  BY <1>0, <1>1 DEF SettledIsCompleted
<1>2. ASSUME NEW t \in Trx, NEW k, NEW a, Finish(t, k, a), UNCHANGED life
      PROVE  SettledIsCompleted'
  <2>1. /\ completed' = [completed EXCEPT ![t] = TRUE]
        /\ exec' = Settled(t, "rejected") \/ exec' = exec
    BY <1>0, <1>2, FinishEffect
  <2>2. \A u \in Trx : exec'[u] = exec[u] \/ u = t
    BY <1>0, <2>1, SettledEffect
  <2>3. completed'[t] /\ \A u \in Trx : completed[u] => completed'[u]
    BY <1>0, <2>1 DEF TypeOK
  <2> QED BY <1>1, <1>2, <2>2, <2>3 DEF Connected
<1>3. ASSUME NEW t \in Trx, ContainerSettles(t) \/ UserFinishes(t)
      PROVE  SettledIsCompleted'
  <2>1. \E k, a : Finish(t, k, a)
    BY <1>3, FinishesAre DEF ContainerSettles, UserFinishes
  <2>2. UNCHANGED life
    BY <1>3 DEF ContainerSettles, UserFinishes
  <2> QED BY <1>2, <2>1, <2>2
<1>4. ASSUME NEW c \in Conn, Deliver(c)
      PROVE  SettledIsCompleted'
  <2>1. PICK t \in Trx :
          \/ completed' = completed /\ exec' = exec
          \/ /\ completed' = [completed EXCEPT ![t] = TRUE]
             /\ \E o \in Outcomes \ {"none", "pending"} : exec' = Settled(t, o)
    BY <1>4, DeliverEffect
  <2>2. \A u \in Trx : exec'[u] = exec[u] \/ (u = t /\ completed'[t])
    BY <1>0, <2>1, SettledEffect DEF TypeOK
  <2>3. \A u \in Trx : completed[u] => completed'[u]
    BY <1>0, <2>1 DEF TypeOK
  <2>4. UNCHANGED life
    BY <1>4 DEF Deliver
  <2> QED BY <1>1, <2>2, <2>3, <2>4 DEF Connected
<1>5. ASSUME NEW t \in Trx, RollbackTimeout(t)
      PROVE  SettledIsCompleted'
  <2>1. completed[t] /\ UNCHANGED <<completed, life>>
    BY <1>0, <1>5 DEF RollbackTimeout, LifeCycle
  <2>2. \A u \in Trx : exec'[u] = exec[u] \/ u = t
    BY <1>0, <1>5, SettledEffect DEF RollbackTimeout
  <2> QED BY <1>1, <2>1, <2>2 DEF Connected
<1>6. ASSUME NEW t \in Trx, AcquireConnection(t)
      PROVE  SettledIsCompleted'
  <2>1. /\ life' = [life EXCEPT ![t] = "open"] /\ exec[t] = "pending"
        /\ completed' = [completed EXCEPT ![t] = IsCompleted(t)]
        /\ exec' = IF IsCompleted(t) THEN Settled(t, "rejected") ELSE exec
    BY <1>0, <1>6 DEF AcquireConnection, LifeCycle
  <2>2. completed'[t] = IsCompleted(t) /\ (completed[t] => IsCompleted(t))
    BY <1>0, <2>1 DEF TypeOK, IsCompleted, Line
  <2>3. \A u \in Trx : /\ exec'[u] = exec[u] \/ (u = t /\ IsCompleted(t))
                       /\ u # t => completed'[u] = completed[u] /\ life'[u] = life[u]
    BY <1>0, <2>1, SettledEffect DEF TypeOK
  <2> QED BY <1>1, <2>1, <2>2, <2>3 DEF Connected
<1>7. ASSUME NEW t \in Trx, NewTransaction(t) \/ \E p \in Trx : NewNested(p, t)
      PROVE  SettledIsCompleted'
  <2>1. /\ life' = [life EXCEPT ![t] = "queued"]
        /\ exec' = [exec EXCEPT ![t] = "pending"] /\ UNCHANGED completed
    BY <1>7 DEF NewTransaction, NewNested
  <2> QED BY <1>0, <1>1, <2>1 DEF TypeOK, Connected
<1>8. ASSUME NEW t \in Trx, AcquireFail(t)
      PROVE  SettledIsCompleted'
  <2>1. /\ life' = [life EXCEPT ![t] = "failed"] /\ UNCHANGED completed
        /\ exec' = Settled(t, "rejected")
    BY <1>8 DEF AcquireFail
  <2>2. \A u \in Trx : u # t => exec'[u] = exec[u] /\ life'[u] = life[u]
    BY <1>0, <2>1, SettledEffect DEF TypeOK
  <2>3. ~Connected(t)'
    BY <1>0, <2>1 DEF TypeOK, Connected
  <2> QED BY <1>1, <2>1, <2>2, <2>3 DEF Connected
<1>9. ASSUME NEW t \in Trx, Release(t)
      PROVE  SettledIsCompleted'
  <2>1. \A u \in Trx : Connected(u)' => Connected(u)
    BY <1>0, <1>9 DEF Release, TypeOK, Connected
  <2> QED BY <1>1, <1>9, <2>1 DEF Release
<1>10. ASSUME UNCHANGED <<life, exec, completed>>
       PROVE  SettledIsCompleted'
  BY <1>0, <1>10 DEF SettledIsCompleted, Connected
<1>11. ASSUME NEW c \in Conn, Execute(c) \/ Disconnect(c) \/ ReplaceConnection(c)
       PROVE  SettledIsCompleted'
  BY <1>10, <1>11 DEF Execute, Disconnect, ReplaceConnection
<1>12. ASSUME NEW t \in Trx, UserQuery(t) \/ InvokeContainer(t)
       PROVE  SettledIsCompleted'
  BY <1>10, <1>12 DEF UserQuery, InvokeContainer
<1>13. CASE UNCHANGED vars
  BY <1>10, <1>13 DEF vars
<1> QED BY <1>3, <1>4, <1>5, <1>6, <1>7, <1>8, <1>9, <1>11, <1>12, <1>13
       DEF Next, User, Runtime, Network

\* The pool's connections have at most one holder each.
LEMMA ConnectionOwnershipStep ==
  ASSUME IInv, [Next]_vars
  PROVE  ConnectionOwnership'
<1>0. TypeOK /\ LifeCycle /\ ConnectionSource /\ ExternalOnce /\ ConnectionOwnership
  BY DEF IInv
<1> DEFINE Open(r) == IsRoot(r) /\ life[r] = "open"
<1>1. ASSUME \A r \in Trx : Open(r)' => Open(r) /\ conn'[r] = conn[r],
             \A r \in Trx : Open(r)' => conn[r] \notin free'
      PROVE  ConnectionOwnership'
  BY <1>0, <1>1 DEF ConnectionOwnership
<1>2. CASE UNCHANGED <<life, tree, conn, free>>
  BY <1>0, <1>2 DEF ConnectionOwnership, IsRoot, tree
<1>3. ASSUME NEW t \in Trx, NewTransaction(t) \/ \E p \in Trx : NewNested(p, t)
      PROVE  ConnectionOwnership'
  <2>1. /\ life' = [life EXCEPT ![t] = "queued"] /\ UNCHANGED <<conn, free>>
        /\ \A u \in Trx \ {t} : outer'[u] = outer[u]
    BY <1>0, <1>3 DEF NewTransaction, NewNested, TypeOK
  <2>2. \A r \in Trx : Open(r)' => Open(r)
    BY <1>0, <2>1 DEF IsRoot, TypeOK
  <2> QED BY <1>0, <1>1, <2>1, <2>2 DEF ConnectionOwnership
<1>4. ASSUME NEW t \in Trx, AcquireFail(t)
      PROVE  ConnectionOwnership'
  <2>1. /\ life' = [life EXCEPT ![t] = "failed"] /\ UNCHANGED <<tree, conn, free>>
    BY <1>4 DEF AcquireFail
  <2>2. \A r \in Trx : Open(r)' => Open(r)
    BY <1>0, <2>1 DEF IsRoot, TypeOK, tree
  <2> QED BY <1>0, <1>1, <2>1, <2>2 DEF ConnectionOwnership
<1>5. ASSUME NEW t \in Trx, Release(t)
      PROVE  ConnectionOwnership'
  <2>1. /\ life' = [life EXCEPT ![t] = "closed"] /\ UNCHANGED <<tree, conn>>
        /\ free' = IF FromPool(t) THEN free \cup {conn[t]} ELSE free
        /\ life[t] = "open"
    BY <1>5 DEF Release
  <2>2. \A r \in Trx : Open(r)' => Open(r) /\ r # t
    BY <1>0, <2>1 DEF IsRoot, TypeOK, tree
  <2>3. FromPool(t) => Open(t)
    BY <2>1 DEF FromPool, IsRoot, IsNested
  <2>4. \A r \in Trx : Open(r)' => conn[r] \notin free'
    BY <1>0, <2>1, <2>2, <2>3 DEF ConnectionOwnership
  <2> QED BY <1>1, <2>1, <2>2, <2>4
<1>6. ASSUME NEW t \in Trx, AcquireConnection(t)
      PROVE  ConnectionOwnership'
  <2>1. PICK c \in Candidates(t) :
          /\ conn' = [conn EXCEPT ![t] = c]
          /\ free' = IF FromPool(t) THEN free \ {c} ELSE free
    BY <1>6 DEF AcquireConnection
  <2>2. /\ life' = [life EXCEPT ![t] = "open"] /\ life[t] = "queued" /\ UNCHANGED tree
    BY <1>6 DEF AcquireConnection
  <2>3. \A r \in Trx \ {t} : Open(r)' => /\ Open(r) /\ conn'[r] = conn[r]
                                         /\ conn[r] \notin free'
    BY <1>0, <2>1, <2>2 DEF IsRoot, TypeOK, tree, ConnectionOwnership
  <2>4. CASE IsNested(t)
    <3>1. ~Open(t)'
      BY <2>2, <2>4 DEF IsRoot, IsNested, tree
    <3> QED BY <1>1, <2>3, <3>1
  <2>5. CASE FromPool(t)
    <3>1. c \in free /\ c \notin free' /\ conn'[t] = c
      BY <1>0, <2>1, <2>5 DEF Candidates, FromPool, TypeOK
    <3>2. \A r \in Trx \ {t} : Open(r)' => conn'[r] # c
      BY <1>0, <2>3, <3>1 DEF ConnectionOwnership
    <3>3. \A r, q \in Trx \ {t} : Open(r)' /\ Open(q)' /\ conn'[r] = conn'[q] => r = q
      BY <1>0, <2>3 DEF ConnectionOwnership
    <3> QED BY <2>3, <3>1, <3>2, <3>3 DEF ConnectionOwnership
  <2>6. CASE ~IsNested(t) /\ ~FromPool(t)
    <3>1. c = cfg[t].conn /\ c # NoConn /\ c \in ExtConn /\ conn'[t] = c
      BY <1>0, <2>1, <2>6 DEF Candidates, FromPool, TypeOK, Config
    <3>2. c \notin free'
      BY <1>0, <2>1, <3>1, TransactionAssumption DEF TypeOK
    <3>3. ASSUME NEW r \in Trx \ {t}, Open(r)', conn[r] = c
          PROVE  FALSE
      <4>1. Open(r) /\ ~IsNested(r) /\ Connected(r)
        BY <2>3, <3>3 DEF IsRoot, IsNested, Connected
      <4>2. ~FromPool(r)
        BY <1>0, <3>1, <3>3, <4>1, TransactionAssumption DEF ConnectionSource
      <4>3. cfg[r].conn = c
        BY <1>0, <3>3, <4>1, <4>2 DEF ConnectionSource
      <4> QED BY <1>0, <2>2, <3>1, <4>1, <4>3 DEF ExternalOnce
    <3>4. \A r, q \in Trx \ {t} : Open(r)' /\ Open(q)' /\ conn'[r] = conn'[q] => r = q
      BY <1>0, <2>3 DEF ConnectionOwnership
    <3>5. \A r \in Trx \ {t} : Open(r)' => conn'[r] # c
      BY <2>3, <3>3
    <3> QED BY <2>3, <3>1, <3>2, <3>4, <3>5 DEF ConnectionOwnership
  <2> QED BY <2>4, <2>5, <2>6
<1> QED BY <1>2, <1>3, <1>4, <1>5, <1>6, LifeSteps

LEMMA InitEstablishes == Init => IInv
<1> SUFFICES ASSUME Init PROVE IInv
  OBVIOUS
<1>1. TypeOK
  <2>1. IdleSession \in SessionState
    <3>1. <<>> \in Seq(Mark)
      BY EmptySeq
    <3> QED BY <3>1 DEF IdleSession, SessionState
  <2>2. <<>> \in Seq(Request) /\ <<>> \in Seq(Answer)
    BY EmptySeq
  <2> QED BY <2>1, <2>2
       DEF Init, TypeOK, Config, Lives, Stages, Outcomes, Args
<1>2. LifeCycle /\ Nesting /\ Rooted /\ ConnectionSource /\ ExternalOnce
  BY DEF Init, LifeCycle, Nesting, Rooted, ConnectionSource, ExternalOnce,
         Connected, IsNested, FromPool
<1>3. Traffic
  <2>1. \A c \in Conn : /\ <<>> \in Seq(OnConnection(c, Request))
                        /\ <<>> \in Seq(OnConnection(c, Answer))
    BY EmptySeq
  <2> QED BY <2>1 DEF Init, Traffic
<1>4. SettledIsCompleted /\ ConnectionOwnership
  BY DEF Init, SettledIsCompleted, ConnectionOwnership, Connected, IsRoot
<1> QED BY <1>1, <1>2, <1>3, <1>4 DEF IInv

\* The inductive invariant: types, the tree of transactions, the traffic on the
\* connections and who holds which connection, in every reachable state.
THEOREM Inductive == Spec => []IInv
<1>1. IInv /\ [Next]_vars => IInv'
  BY TypeStep, LifeCycleStep, NestingStep, RootedStep, ConnectionSourceStep,
     ExternalOnceStep, TrafficStep, SettledIsCompletedStep, ConnectionOwnershipStep
     DEF IInv
<1> QED BY InitEstablishes, <1>1, PTL DEF Spec

\* Every variable keeps its type.
THEOREM TypeCorrect == Spec => []TypeOK
<1>1. IInv => TypeOK
  BY DEF IInv
<1> QED BY Inductive, <1>1, PTL

\* A pooled connection is idle or has one holder; top-level transactions that
\* are open never share a connection.
THEOREM Ownership == Spec => []ConnectionOwnership
<1>1. IInv => ConnectionOwnership
  BY DEF IInv
<1> QED BY Inductive, <1>1, PTL

\* A transaction whose promise has settled refuses every further statement.
THEOREM SettledCompleted == Spec => []SettledIsCompleted
<1>1. IInv => SettledIsCompleted
  BY DEF IInv
<1> QED BY Inductive, <1>1, PTL

-----------------------------------------------------------------------------
(* Who may send statements *)

\* A transaction that is connected and not completed, and neither are those it
\* is nested in, works on a connection its top-level transaction still holds.
LEMMA HolderOfActive ==
  ASSUME IInv, NEW t \in Trx, Connected(t), ~IsCompleted(t)
  PROVE  HeldFor(t, conn[t])
<1>1. PICK r \in Line(t) : IsRoot(r) /\ Connected(r) /\ conn[t] = conn[r]
  BY DEF IInv, Rooted, Connected
<1>2. r \in Trx /\ ~completed[r]
  BY DEF IInv, TypeOK, Line, IsCompleted
<1>3. life[r] = "open"
  <2>1. exec[r] = "pending"
    BY <1>1, <1>2 DEF IInv, SettledIsCompleted
  <2> QED BY <1>1, <1>2, <2>1 DEF IInv, LifeCycle, Connected
<1> QED BY <1>1, <1>3 DEF HeldFor

\* A queue that grew did so by the statement that was handed over.
LEMMA PostIsLast ==
  ASSUME TypeOK, NEW d \in Conn, NEW m \in Request, NEW b, Post(d, m, b),
         NEW c \in Conn, Len(chan'[c]) > Len(chan[c])
  PROVE  c = d /\ chan'[c][Len(chan'[c])] = m
<1>1. chan[c] \in Seq(Request) /\ Len(chan[c]) \in Nat
  BY LenProperties DEF TypeOK
<1>2. chan' = [chan EXCEPT ![d] = Append(chan[d], m)]
  <2>1. chan' # chan
    BY <1>1
  <2> QED BY <2>1 DEF Post
<1>3. c = d
  BY <1>1, <1>2 DEF TypeOK
<1>4. chan'[c] = Append(chan[c], m)
  BY <1>2, <1>3 DEF TypeOK
<1> QED BY <1>1, <1>3, <1>4, AppendProperties

\* The statements nobody hands over: running one or losing a connection only
\* shortens the queue.
LEMMA QueueShrinks ==
  ASSUME TypeOK, NEW d \in Conn, Execute(d) \/ Disconnect(d), NEW c \in Conn
  PROVE  ~(Len(chan'[c]) > Len(chan[c]))
<1>1. chan[c] \in Seq(Request) /\ Len(chan[c]) \in Nat
  BY LenProperties DEF TypeOK
<1>2. CASE Execute(d)
  <2>1. chan' = [chan EXCEPT ![d] = Tail(chan[d])] /\ chan[d] # <<>>
    BY <1>2 DEF Execute
  <2>2. CASE c = d
    <3>1. chan'[c] = Tail(chan[c])
      BY <2>1, <2>2 DEF TypeOK
    <3> QED BY <1>1, <2>1, <2>2, <3>1, HeadTailProperties
  <2>3. CASE c # d
    BY <1>1, <2>1, <2>3 DEF TypeOK
  <2> QED BY <2>2, <2>3
<1>3. CASE Disconnect(d)
  <2>1. chan' = [chan EXCEPT ![d] = <<>>]
    BY <1>3 DEF Disconnect
  <2>2. chan'[c] = chan[c] \/ chan'[c] = <<>>
    BY <2>1 DEF TypeOK
  <2> QED BY <1>1, <2>2, EmptySeq
<1> QED BY <1>2, <1>3

\* Whoever hands a statement to a connection is not completed.
LEMMA PosterHolds ==
  ASSUME IInv, [Next]_vars, NEW c \in Conn, NEW t \in Trx,
         Len(chan'[c]) > Len(chan[c]), chan'[c][Len(chan'[c])].trx = t
  PROVE  HeldFor(t, c)'
<1>0. TypeOK
  BY DEF IInv
<1>1. ASSUME NEW d \in Conn, NEW u \in Trx, NEW k \in Kinds, NEW a \in Args, NEW b,
             Post(d, Message(u, k, a), b)
      PROVE  c = d /\ u = t
  <2> DEFINE m == Message(u, k, a)
  <2>1. m \in Request /\ m.trx = u
    BY MessageType
  <2> HIDE DEF m
  <2>2. Post(d, m, b)
    BY <1>1 DEF m
  <2> QED BY <1>0, <2>1, <2>2, PostIsLast
<1>2. chan' # chan
  <2>1. Len(chan[c]) \in Nat
    BY <1>0, LenProperties DEF TypeOK
  <2> QED BY <2>1
<1>3. ASSUME NEW u \in Trx, Connected(u), ~IsCompleted(u), UNCHANGED <<life, tree, conn>>,
             NEW k \in Kinds, NEW a \in Args, NEW b, Post(conn[u], Message(u, k, a), b)
      PROVE  HeldFor(t, c)'
  <2>1. conn[u] \in Conn
    BY <1>3 DEF IInv, ConnectionSource
  <2>2. c = conn[u] /\ u = t
    BY <1>1, <1>3, <2>1
  <2>3. HeldFor(t, c)
    BY <1>3, <2>2, HolderOfActive
  <2> QED BY <1>3, <2>3 DEF HeldFor, IsRoot, Line, tree
<1>4. ASSUME NEW u \in Trx, ContainerSettles(u) \/ UserFinishes(u)
      PROVE  HeldFor(t, c)'
  <2>1. Connected(u) /\ UNCHANGED <<life, tree, conn>>
    BY <1>4, TransactorConnected DEF ContainerSettles, UserFinishes, HasTransactor
  <2>2. PICK k \in Kinds, a \in Args : Finish(u, k, a)
    BY <1>4, FinishesAre DEF ContainerSettles, UserFinishes, Finals, Kinds
  <2>3. ~IsCompleted(u) /\ Post(conn[u], Message(u, k, a), reply[conn[u]])
    BY <1>2, <2>2 DEF Finish
  <2> QED BY <1>3, <2>1, <2>3
<1>5. ASSUME NEW u \in Trx, UserQuery(u)
      PROVE  HeldFor(t, c)'
  <2>1. Connected(u) /\ UNCHANGED <<life, tree, conn>>
    BY <1>5, TransactorConnected DEF UserQuery, HasTransactor
  <2>2. /\ ~IsCompleted(u)
        /\ Post(conn[u], Message(u, "query", "undefined"), reply[conn[u]])
    BY <1>2, <1>5 DEF UserQuery
  <2> QED BY <1>3, <2>1, <2>2 DEF Kinds, Args
<1>6. ASSUME NEW d \in Conn, Deliver(d)
      PROVE  HeldFor(t, c)'
  <2> DEFINE u == Head(reply[d]).trx
  <2>1. IsolationSet(d, Head(reply[d]), Tail(reply[d]))
    BY <1>2, <1>6 DEF Deliver, InitFailed, Begun, Finished, Queried, Consumed
  <2>2. ~IsCompleted(u) /\ Post(d, Message(u, "begin", "undefined"), Tail(reply[d]))
    BY <2>1 DEF IsolationSet
  <2>3. Head(reply[d]) \in OnConnection(d, Answer)
    BY <1>6, HeadTailProperties DEF Deliver, IInv, Traffic
  <2>4. u \in Trx /\ Connected(u) /\ conn[u] = d
    BY <2>3 DEF OnConnection, Answer
  <2>5. UNCHANGED <<life, tree, conn>>
    BY <1>6 DEF Deliver
  <2> QED BY <1>3, <2>2, <2>4, <2>5 DEF Kinds, Args
<1>7. ASSUME NEW u \in Trx, AcquireConnection(u)
      PROVE  HeldFor(t, c)'
  <2>1. PICK d \in Candidates(u) :
          /\ conn' = [conn EXCEPT ![u] = d]
          /\ IF IsCompleted(u) THEN UNCHANGED <<chan, reply>>
             ELSE Post(d, Message(u, InitKind(u), "undefined"), reply[d])
    BY <1>7 DEF AcquireConnection
  <2>2. /\ life[u] = "queued" /\ life' = [life EXCEPT ![u] = "open"] /\ UNCHANGED tree
    BY <1>7 DEF AcquireConnection
  <2>3. ~IsCompleted(u) /\ Post(d, Message(u, InitKind(u), "undefined"), reply[d])
    BY <1>2, <2>1
  <2>4. d \in Conn /\ InitKind(u) \in Kinds /\ "undefined" \in Args
    BY <2>1, CandidatesAreConnections DEF InitKind, Kinds, Args
  <2>5. c = d /\ u = t
    BY <1>1, <2>3, <2>4
  <2>6. CASE ~IsNested(t)
    <3>1. (IsRoot(t) /\ life[t] = "open" /\ conn[t] = c /\ t \in Line(t))'
      BY <1>0, <2>1, <2>2, <2>5, <2>6 DEF IsRoot, IsNested, Line, TypeOK, tree
    <3> QED BY <3>1 DEF HeldFor
  <2>7. CASE IsNested(t)
    <3> DEFINE p == outer[t]
    <3>1. p \in Trx /\ Connected(p) /\ anc[t] = Line(p) /\ c = conn[p]
      BY <1>0, <2>1, <2>5, <2>7 DEF IInv, Nesting, TypeOK, IsNested, Candidates
    <3>2. ~IsCompleted(p)
      BY <2>3, <2>5, <3>1 DEF IsCompleted, Line
    <3>3. PICK r \in Line(p) : IsRoot(r) /\ life[r] = "open" /\ conn[r] = c
      BY <3>1, <3>2, HolderOfActive DEF HeldFor
    <3>4. r \in Trx /\ r # t /\ r \in Line(t)
      BY <1>0, <2>2, <2>5, <3>1, <3>3 DEF Line, TypeOK
    <3>5. (r \in Line(t) /\ IsRoot(r) /\ life[r] = "open" /\ conn[r] = c)'
      BY <1>0, <2>1, <2>2, <2>5, <3>3, <3>4 DEF Line, IsRoot, TypeOK, tree
    <3> QED BY <3>5 DEF HeldFor
  <2> QED BY <2>6, <2>7
<1>8. ASSUME NEW u \in Trx,
             \/ NewTransaction(u) \/ AcquireFail(u) \/ InvokeContainer(u)
             \/ RollbackTimeout(u) \/ Release(u) \/ \E p \in Trx : NewNested(p, u)
      PROVE  chan' = chan
  BY <1>8 DEF NewTransaction, AcquireFail, InvokeContainer, RollbackTimeout, Release,
              NewNested
<1>9. ASSUME NEW d \in Conn, Execute(d) \/ Disconnect(d)
      PROVE  FALSE
  BY <1>0, <1>9, QueueShrinks
<1>10. (UNCHANGED vars \/ \E d \in Conn : ReplaceConnection(d)) => chan' = chan
  BY DEF vars, ReplaceConnection
<1> QED BY <1>2, <1>4, <1>5, <1>6, <1>7, <1>8, <1>9, <1>10
       DEF Next, User, Runtime, Network

\* Every statement handed to a connection comes from a transaction whose
\* top-level transaction holds that connection at that moment.
THEOREM PostsByHolder == Spec => PostedByHolder
<1>1. IInv /\ [Next]_vars =>
        [\A c \in Conn, t \in Trx :
           Len(chan'[c]) > Len(chan[c]) /\ chan'[c][Len(chan'[c])].trx = t
           => HeldFor(t, c)']_vars
  BY PosterHolds
<1> QED BY Inductive, <1>1, PTL DEF Spec, PostedByHolder

-----------------------------------------------------------------------------
(* Siblings *)

\* `ahead` orders the children of every parent by age, as the chain of
\* _previousSibling does: the one a child waits for is the youngest of those
\* before it, and the parent's _lastChild the youngest of all.  Who is
\* connected has seen all those before it done.
InTurn(ahead) ==
  /\ \A t \in Trx : IsNested(t) =>
       /\ life[t] # "failed"
       /\ prev[t] # NoTrx => outer[prev[t]] = outer[t]
       /\ \A s \in ahead[t] : prev[t] # NoTrx /\ (s = prev[t] \/ s \in ahead[prev[t]])
       /\ Connected(t) => \A s \in ahead[t] : Done(s)
  /\ \A p \in Trx : lastChild[p] # NoTrx => outer[lastChild[p]] = p
  /\ \A p \in Trx : \A s \in Children(p) :
       lastChild[p] # NoTrx /\ (s = lastChild[p] \/ s \in ahead[lastChild[p]])
  /\ \A s, t \in Trx :
       s # t /\ IsNested(s) /\ outer[s] = outer[t] => s \in ahead[t] \/ t \in ahead[s]

Turns == \E ahead \in [Trx -> SUBSET Trx] : InTurn(ahead)

\* No child is ahead of another one that is connected unless it is done.
LEMMA TurnsExclude ==
  ASSUME TypeOK, Turns
  PROVE  SiblingsTakeTurns
<1>1. PICK ahead \in [Trx -> SUBSET Trx] : InTurn(ahead)
  BY DEF Turns
<1>2. SUFFICES ASSUME NEW s \in Trx, NEW t \in Trx, s # t, outer[s] = outer[t],
                      IsNested(s), life[s] = "open", life[t] = "open"
               PROVE  FALSE
  BY DEF SiblingsTakeTurns
<1>3. IsNested(t) /\ Connected(s) /\ Connected(t) /\ ~Done(s) /\ ~Done(t)
  BY <1>2 DEF IsNested, Connected, Done
<1>4. s \in ahead[t] \/ t \in ahead[s]
  BY <1>1, <1>2 DEF InTurn
<1>5. (\A u \in ahead[t] : Done(u)) /\ (\A u \in ahead[s] : Done(u))
  BY <1>1, <1>2, <1>3 DEF InTurn
<1> QED BY <1>3, <1>4, <1>5

\* A new child is behind all the others; the rest of the order stays.
LEMMA TurnsNested ==
  ASSUME IInv, NEW ahead \in [Trx -> SUBSET Trx], InTurn(ahead),
         NEW t \in Trx, NEW p \in Trx, NewNested(p, t)
  PROVE  Turns'
<1>0. TypeOK /\ LifeCycle /\ Nesting
  BY DEF IInv
<1>1. /\ life[t] = "none" /\ ~IsNested(t) /\ outer[t] = NoTrx
      /\ life' = [life EXCEPT ![t] = "queued"]
      /\ outer' = [outer EXCEPT ![t] = p]
      /\ prev' = [prev EXCEPT ![t] = lastChild[p]]
      /\ lastChild' = [lastChild EXCEPT ![p] = t]
      /\ p # NoTrx /\ t # NoTrx
  BY <1>0, SessionAssumption DEF NewNested, LifeCycle, IsNested
<1>2. Connected(p) /\ p # t
  BY <1>0, <1>1, TransactorConnected DEF NewNested, HasTransactor, Connected
<1>3. PICK new \in [Trx -> SUBSET Trx] :
        new[t] = Children(p) /\ \A u \in Trx \ {t} : new[u] = ahead[u]
  <2>1. [ahead EXCEPT ![t] = Children(p)] \in [Trx -> SUBSET Trx]
    BY DEF Children
  <2> QED BY <2>1
<1>4. /\ life'[t] = "queued" /\ outer'[t] = p /\ prev'[t] = lastChild[p]
      /\ \A u \in Trx \ {t} : /\ life'[u] = life[u] /\ outer'[u] = outer[u]
                              /\ prev'[u] = prev[u]
      /\ lastChild'[p] = t /\ \A q \in Trx \ {p} : lastChild'[q] = lastChild[q]
  BY <1>0, <1>1 DEF TypeOK
\* Whoever has children, or is waited for, or is ahead of others, is not t.
<1>5. /\ \A u \in Trx : IsNested(u) => u # t /\ outer[u] # t /\ outer[u] \in Trx
      /\ \A u \in Trx : prev[u] # t /\ prev[u] \in Trx \cup {NoTrx}
      /\ \A q \in Trx : lastChild[q] # t /\ lastChild[q] \in Trx \cup {NoTrx}
  <2>1. ~Connected(t)
    BY <1>1 DEF Connected
  <2>2. \A u \in Trx : IsNested(u) => u # t /\ outer[u] # t /\ outer[u] \in Trx
    BY <1>0, <1>1, <2>1 DEF Nesting, TypeOK, IsNested
  <2>3. \A u \in Trx : prev[u] # NoTrx => outer[prev[u]] = outer[u] /\ outer[u] # NoTrx
    BY <1>0 DEF InTurn, LifeCycle, IsNested
  <2>4. \A q \in Trx : lastChild[q] # NoTrx => outer[lastChild[q]] = q
    BY DEF InTurn
  <2>5. \A q \in Trx : q # NoTrx
    BY SessionAssumption
  <2> QED BY <1>0, <1>1, <2>2, <2>3, <2>4, <2>5 DEF TypeOK
<1>6. \A u \in Trx \ {t} : /\ IsNested(u)' = IsNested(u) /\ Connected(u)' = Connected(u)
                           /\ Done(u) => Done(u)'
  BY <1>4 DEF IsNested, Connected, Done
<1>7. IsNested(t)' /\ ~Connected(t)' /\ t \notin Children(p)
  BY <1>1, <1>4 DEF IsNested, Connected, Children
<1>8. ASSUME NEW u \in Trx, IsNested(u)'
      PROVE  /\ life'[u] # "failed"
             /\ prev'[u] # NoTrx => outer'[prev'[u]] = outer'[u]
             /\ \A s \in new[u] : prev'[u] # NoTrx /\ (s = prev'[u] \/ s \in new[prev'[u]])
             /\ Connected(u)' => \A s \in new[u] : Done(s)'
  <2>1. CASE u = t
    <3>1. \A s \in Children(p) :
            lastChild[p] # NoTrx /\ (s = lastChild[p] \/ s \in ahead[lastChild[p]])
      BY Zenon DEF InTurn
    <3>2. lastChild[p] # NoTrx =>
            /\ lastChild[p] \in Trx \ {t} /\ outer[lastChild[p]] = p
            /\ new[lastChild[p]] = ahead[lastChild[p]]
      BY <1>3, <1>5 DEF InTurn
    <3> QED BY <1>3, <1>4, <1>7, <2>1, <3>1, <3>2
  <2>2. CASE u # t
    <3>1. IsNested(u)
      BY <1>6, <1>8, <2>2
    <3>2. /\ life[u] # "failed"
          /\ prev[u] # NoTrx => outer[prev[u]] = outer[u]
          /\ \A s \in ahead[u] : prev[u] # NoTrx /\ (s = prev[u] \/ s \in ahead[prev[u]])
          /\ Connected(u) => \A s \in ahead[u] : Done(s)
      BY <3>1 DEF InTurn
    <3>3. prev[u] # NoTrx => prev[u] \in Trx \ {t}
      BY <1>5
    <3>4. prev[u] # NoTrx => new[prev[u]] = ahead[prev[u]] /\ outer'[prev[u]] = outer[prev[u]]
      BY <1>3, <1>4, <3>3
    <3>5. \A s \in ahead[u] : Done(s) => Done(s)'
      <4>1. ~Done(t)
        BY <1>1 DEF Done
      <4> QED BY <1>6, <4>1
    <3>6. life'[u] = life[u] /\ outer'[u] = outer[u] /\ prev'[u] = prev[u] /\ new[u] = ahead[u]
      BY <1>3, <1>4, <2>2
    <3>7. Connected(u)' => Connected(u)
      BY <1>6, <2>2
    <3> QED BY <3>2, <3>4, <3>5, <3>6, <3>7
  <2> QED BY <2>1, <2>2
<1>9. \A q \in Trx : lastChild'[q] # NoTrx => outer'[lastChild'[q]] = q
  <2>1. \A q \in Trx : lastChild[q] # NoTrx => outer[lastChild[q]] = q
    BY DEF InTurn
  <2> QED BY <1>4, <1>5, <2>1
<1>10. ASSUME NEW q \in Trx, NEW s \in Trx, outer'[s] = q
       PROVE  lastChild'[q] # NoTrx /\ (s = lastChild'[q] \/ s \in new[lastChild'[q]])
  <2>1. CASE q = p
    <3>1. s = t \/ s \in Children(p)
      BY <1>4, <1>10, <2>1 DEF Children
    <3> QED BY <1>1, <1>3, <1>4, <2>1, <3>1
  <2>2. CASE q # p
    <3>1. s # t /\ s \in Children(q)
      BY <1>4, <1>10, <2>2 DEF Children
    <3>2. lastChild[q] # NoTrx /\ (s = lastChild[q] \/ s \in ahead[lastChild[q]])
      BY <3>1 DEF InTurn
    <3>3. lastChild[q] \in Trx \ {t} /\ lastChild'[q] = lastChild[q]
      BY <1>4, <1>5, <2>2, <3>2
    <3> QED BY <1>3, <3>2, <3>3
  <2> QED BY <2>1, <2>2
<1>11. ASSUME NEW s \in Trx, NEW u \in Trx, s # u, outer'[s] # NoTrx, outer'[s] = outer'[u]
       PROVE  s \in new[u] \/ u \in new[s]
  <2>1. CASE u = t
    BY <1>3, <1>4, <1>11, <2>1 DEF Children
  <2>2. CASE s = t
    BY <1>3, <1>4, <1>11, <2>2 DEF Children
  <2>3. CASE s # t /\ u # t
    <3>1. outer[s] # NoTrx /\ outer[s] = outer[u]
      BY <1>4, <1>11, <2>3
    <3>2. s \in ahead[u] \/ u \in ahead[s]
      BY <1>11, <3>1 DEF InTurn, IsNested
    <3> QED BY <1>3, <2>3, <3>2
  <2> QED BY <2>1, <2>2, <2>3
<1>12. InTurn(new)'
  <2>1. \A u \in Trx : IsNested(u)' =>
             /\ life'[u] # "failed"
             /\ prev'[u] # NoTrx => outer'[prev'[u]] = outer'[u]
             /\ \A s \in new[u] : prev'[u] # NoTrx /\ (s = prev'[u] \/ s \in new[prev'[u]])
             /\ Connected(u)' => \A s \in new[u] : Done(s)'
    BY <1>8
  <2>2. \A q \in Trx : \A s \in Children(q)' :
          lastChild'[q] # NoTrx /\ (s = lastChild'[q] \/ s \in new[lastChild'[q]])
    BY <1>10 DEF Children
  <2>3. \A s, u \in Trx : s # u /\ IsNested(s)' /\ outer'[s] = outer'[u] =>
          s \in new[u] \/ u \in new[s]
    BY <1>11 DEF IsNested
  <2> QED BY <1>9, <2>1, <2>2, <2>3 DEF InTurn
<1> QED BY <1>3, <1>12 DEF Turns

\* A step that leaves the children of everybody alone keeps their order.
LEMMA TurnsTreeKept ==
  ASSUME IInv, [Next]_vars, NEW ahead \in [Trx -> SUBSET Trx], InTurn(ahead),
         UNCHANGED <<outer, prev, lastChild>>,
         \A t \in Trx : IsNested(t) =>
           /\ life'[t] # "failed"
           /\ Connected(t)' => Connected(t) \/ SiblingDone(t)
  PROVE  Turns'
<1>0. TypeOK
  BY DEF IInv
<1>1. \A t \in Trx : IsNested(t)' = IsNested(t) /\ Children(t)' = Children(t)
  BY DEF IsNested, Children
<1>2. ASSUME NEW s \in Trx, IsNested(s), Done(s)
      PROVE  Connected(s) /\ Done(s)'
  <2>1. life[s] = "closed"
    BY <1>2 DEF Done, InTurn
  <2> QED BY <2>1, LifeMonotonic DEF Done, Connected
<1>3. ASSUME NEW t \in Trx, IsNested(t), Connected(t)', NEW s \in ahead[t]
      PROVE  Done(s)
  <2>1. CASE Connected(t)
    BY <1>3, <2>1 DEF InTurn
  <2>2. CASE SiblingDone(t)
    <3> DEFINE u == prev[t]
    <3>1. u # NoTrx /\ (s = u \/ s \in ahead[u]) /\ outer[u] = outer[t]
      BY <1>3 DEF InTurn
    <3>2. u \in Trx /\ IsNested(u) /\ Done(u)
      BY <1>0, <1>3, <2>2, <3>1 DEF SiblingDone, TypeOK, IsNested
    <3>3. Connected(u)
      BY <1>2, <3>2
    <3>4. s \in ahead[u] => Done(s)
      BY <3>2, <3>3 DEF InTurn
    <3> QED BY <3>1, <3>2, <3>4
  <2> QED BY <1>3, <2>1, <2>2
<1>4. \A s \in Trx : Done(s) => Done(s)'
  BY LifeMonotonic DEF Done
<1>5. \A t \in Trx : IsNested(t) /\ Connected(t)' => \A s \in ahead[t] : Done(s)'
  BY <1>3, <1>4
<1>6. InTurn(ahead)'
  BY <1>1, <1>5 DEF InTurn
<1> QED BY <1>6 DEF Turns

LEMMA TurnsStep ==
  ASSUME IInv, [Next]_vars, Turns
  PROVE  Turns'
<1>0. TypeOK /\ LifeCycle
  BY DEF IInv
<1>1. PICK ahead \in [Trx -> SUBSET Trx] : InTurn(ahead)
  BY DEF Turns
<1>2. \A t \in Trx : IsNested(t) => life[t] # "failed"
  BY <1>1 DEF InTurn
<1>3. CASE UNCHANGED <<life, tree, conn, free>>
  <2>1. \A t \in Trx : IsNested(t) =>
          life'[t] # "failed" /\ (Connected(t)' => Connected(t) \/ SiblingDone(t))
    BY <1>2, <1>3 DEF Connected
  <2> QED BY <1>1, <1>3, <2>1, TurnsTreeKept DEF tree
<1>4. ASSUME NEW t \in Trx, NEW p \in Trx, NewNested(p, t)
      PROVE  Turns'
  BY <1>1, <1>4, TurnsNested
<1>5. ASSUME NEW t \in Trx, \/ NewTransaction(t) \/ AcquireConnection(t)
                            \/ AcquireFail(t) \/ Release(t)
      PROVE  Turns'
  <2>1. /\ UNCHANGED <<outer, prev, lastChild>>
        /\ \/ life' = [life EXCEPT ![t] = "queued"]
           \/ life' = [life EXCEPT ![t] = "open"] /\ SiblingDone(t)
           \/ life' = [life EXCEPT ![t] = "failed"] /\ ~IsNested(t)
           \/ life' = [life EXCEPT ![t] = "closed"] /\ life[t] = "open"
    BY <1>5 DEF NewTransaction, AcquireConnection, AcquireFail, Release, FromPool, tree
  <2>2. \A u \in Trx : IsNested(u) =>
          life'[u] # "failed" /\ (Connected(u)' => Connected(u) \/ SiblingDone(u))
    BY <1>0, <1>2, <2>1 DEF Connected, TypeOK
  <2> QED BY <1>1, <2>1, <2>2, TurnsTreeKept
<1> QED BY <1>3, <1>4, <1>5, LifeSteps

\* Sibling transactions never overlap: the container of one does not start
\* before all those created before it are over, and have their promises
\* settled.
THEOREM SiblingsWait == Spec => []SiblingsTakeTurns
<1>1. Init => Turns
  <2> SUFFICES ASSUME Init PROVE Turns
    OBVIOUS
  <2>1. InTurn([t \in Trx |-> {}])
    BY SessionAssumption DEF Init, InTurn, IsNested, Children
  <2> QED BY <2>1 DEF Turns
<1>2. IInv /\ Turns /\ [Next]_vars => Turns'
  BY TurnsStep
<1>3. IInv /\ Turns => SiblingsTakeTurns
  BY TurnsExclude DEF IInv
<1> QED BY Inductive, <1>1, <1>2, <1>3, PTL DEF Spec
=============================================================================
