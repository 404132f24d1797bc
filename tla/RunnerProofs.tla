---------------------------- MODULE RunnerProofs ----------------------------
(***************************************************************************)
(* The connections of the pool have one user at a time; destroy() ends     *)
(* with nothing going on; and nobody waits behind a statement that timed   *)
(* out or was cancelled: for any number of queries, transactions and       *)
(* connections, and any bound on the connections lost.                     *)
(***************************************************************************)
EXTENDS Runner, FiniteSetTheorems, TLAPS

\* The stages of one who has acquired a connection, for a transaction and for a
\* query of the main instance.
Active == {"beginning", "open", "committing"} \cup InFlight
Stages == {"new", "acquiring", "settled"} \cup Active

PoolTypes ==
  /\ slot \in [Conn -> {"empty", "creating", "idle", "used"}]
  /\ holds \in [Lessee -> Conn \cup {NoConn}]
  /\ at \in [Lessee -> Stages]
  /\ \A r \in Run : at[r] \notin {"beginning", "open", "committing"}
  /\ home \in [Run -> Trx \cup {NoTrx}]
  /\ waiting \in Seq(Lessee)

\* Whoever waits for a connection waits once.
Queueing ==
  /\ \A i \in DOMAIN waiting : at[waiting[i]] = "acquiring"
  /\ \A i, j \in DOMAIN waiting : waiting[i] = waiting[j] => i = j
  /\ \A x \in Lessee : at[x] = "acquiring" => \E i \in DOMAIN waiting : waiting[i] = x

\* Used slots and holders correspond.
Holding ==
  /\ \A x \in Lessee : holds[x] # NoConn => slot[holds[x]] = "used"
  /\ \A x, y \in Lessee : holds[x] = holds[y] /\ holds[x] # NoConn => x = y
  /\ \A c \in Conn : slot[c] = "used" => \E x \in Lessee : holds[x] = c

\* A query of a transaction holds nothing and is not in flight without it.
Lending ==
  /\ \A x \in Lessee : at[x] \in {"new", "acquiring"} => holds[x] = NoConn
  /\ \A t \in Trx : at[t] \in Active => holds[t] # NoConn
  /\ \A r \in Run : home[r] = NoTrx /\ at[r] \in Active => holds[r] # NoConn
  /\ \A r \in Run : home[r] # NoTrx =>
       /\ holds[r] = NoConn
       /\ at[r] \notin {"new", "acquiring"}
       /\ at[r] \in Active => at[home[r]] = "open"

Closed ==
  pool = "gone" => /\ \A c \in Conn : slot[c] = "empty"
                   /\ waiting = <<>>

PoolInv == PoolTypes /\ Queueing /\ Holding /\ Lending /\ Closed

-----------------------------------------------------------------------------
\* What removing one element does to a sequence.
LEMMA Removal ==
  ASSUME NEW S, NEW s \in Seq(S), NEW k \in 1 .. Len(s)
  PROVE  /\ RemoveAt(s, k) \in Seq(S)
         /\ Len(RemoveAt(s, k)) = Len(s) - 1
         /\ \A j \in 1 .. Len(s) - 1 :
              RemoveAt(s, k)[j] = IF j < k THEN s[j] ELSE s[j + 1]
<1> DEFINE front == SubSeq(s, 1, k - 1)
           back  == SubSeq(s, k + 1, Len(s))
<1>1. front \in Seq(S) /\ Len(front) = k - 1 /\ \A j \in 1 .. k - 1 : front[j] = s[j]
  OBVIOUS
<1>2. /\ back \in Seq(S) /\ Len(back) = Len(s) - k
      /\ \A j \in 1 .. Len(s) - k : back[j] = s[k + j]
  OBVIOUS
<1>3. RemoveAt(s, k) = front \o back
  BY DEF RemoveAt
<1> HIDE DEF front, back
<1>4. front \o back \in Seq(S) /\ Len(front \o back) = Len(s) - 1
  BY <1>1, <1>2
<1>5. ASSUME NEW j \in 1 .. Len(s) - 1
      PROVE  (front \o back)[j] = IF j < k THEN s[j] ELSE s[j + 1]
  <2>1. CASE j < k
    BY <1>1, <1>2, <2>1
  <2>2. CASE ~(j < k)
    <3>1. (front \o back)[j] = back[j - (k - 1)]
      BY <1>1, <1>2, <2>2
    <3>2. j - (k - 1) \in 1 .. Len(s) - k /\ k + (j - (k - 1)) = j + 1
      BY <2>2
    <3> QED
      BY <1>2, <2>2, <3>1, <3>2
  <2> QED
    BY <2>1, <2>2
<1> QED
  BY <1>3, <1>4, <1>5

\* waiting has lost its k-th element.
Shrunk(k) ==
  /\ waiting' \in Seq(Lessee)
  /\ Len(waiting') = Len(waiting) - 1
  /\ \A j \in 1 .. Len(waiting) - 1 :
       waiting'[j] = IF j < k THEN waiting[j] ELSE waiting[j + 1]

LEMMA TailShrinks ==
  ASSUME waiting \in Seq(Lessee), waiting # <<>>, waiting' = Tail(waiting)
  PROVE  Shrunk(1) /\ 1 \in DOMAIN waiting /\ Head(waiting) = waiting[1]
BY DEF Shrunk

\* One who waited does no longer; the queue without it is a queue.
LEMMA Dequeue ==
  ASSUME PoolTypes, Queueing, NEW k \in DOMAIN waiting, Shrunk(k),
         NEW label, label # "acquiring",
         \A x \in Lessee : at'[x] = IF x = waiting[k] THEN label ELSE at[x]
  PROVE  Queueing'
<1> DEFINE old(j) == IF j < k THEN j ELSE j + 1
<1>1. Len(waiting) \in Nat /\ DOMAIN waiting = 1 .. Len(waiting)
      /\ \A i \in DOMAIN waiting : waiting[i] \in Lessee
  BY DEF PoolTypes
<1>2. DOMAIN waiting' = 1 .. Len(waiting) - 1
  BY <1>1 DEF Shrunk
<1>3. \A j \in DOMAIN waiting' :
        old(j) \in DOMAIN waiting /\ old(j) # k /\ waiting'[j] = waiting[old(j)]
  BY <1>1, <1>2 DEF Shrunk
<1>4. \A i, j \in DOMAIN waiting' : old(i) = old(j) => i = j
  BY <1>1, <1>2
<1>5. \A i \in DOMAIN waiting : i # k => \E j \in DOMAIN waiting' : old(j) = i
  <2> SUFFICES ASSUME NEW i \in DOMAIN waiting, i # k
               PROVE  \E j \in DOMAIN waiting' : old(j) = i
    OBVIOUS
  <2>1. CASE i < k
    BY <1>1, <1>2, <2>1
  <2>2. CASE ~(i < k)
    <3>1. i - 1 \in DOMAIN waiting' /\ ~(i - 1 < k) /\ (i - 1) + 1 = i
      BY <1>1, <1>2, <2>2
    <3> QED
      BY <3>1
  <2> QED
    BY <2>1, <2>2
<1> HIDE DEF old
<1>6. \A j \in DOMAIN waiting' : at'[waiting'[j]] = "acquiring"
  BY <1>1, <1>3 DEF Queueing
<1>7. \A i, j \in DOMAIN waiting' : waiting'[i] = waiting'[j] => i = j
  BY <1>3, <1>4 DEF Queueing
<1>8. ASSUME NEW x \in Lessee, at'[x] = "acquiring"
      PROVE  \E j \in DOMAIN waiting' : waiting'[j] = x
  <2>1. at[x] = "acquiring" /\ x # waiting[k]
    BY <1>8
  <2>2. PICK i \in DOMAIN waiting : waiting[i] = x
    BY <2>1 DEF Queueing
  <2>3. PICK j \in DOMAIN waiting' : old(j) = i
    BY <1>5, <2>1, <2>2
  <2> QED
    BY <1>3, <2>2, <2>3
<1> QED
  BY <1>6, <1>7, <1>8 DEF Queueing

-----------------------------------------------------------------------------
LEMMA InitPool == Init => PoolInv
<1> SUFFICES ASSUME Init
             PROVE  PoolInv
  OBVIOUS
<1>1. PoolTypes
  BY DEF Init, PoolTypes, Stages, Lessee
<1>2. Queueing /\ Closed
  BY DEF Init, Queueing, Closed
<1>3. Holding /\ Lending
  BY RunnerAssumption DEF Init, Holding, Lending, Active, InFlight, Lessee
<1> QED
  BY <1>1, <1>2, <1>3 DEF PoolInv

\* A step that moves no connection and at most one lessee, between two stages
\* of those who have a connection; a transaction that is no longer open has no
\* query in flight.
LEMMA QuietStep ==
  ASSUME PoolInv, UNCHANGED <<slot, holds, waiting, pool, home>>,
         NEW x \in Lessee, NEW label \in Active,
         x \in Run => label \notin {"beginning", "open", "committing"},
         at[x] \in Active,
         at' = [at EXCEPT ![x] = label],
         at[x] = "open" /\ label # "open" => \A r \in Runs(x) : at[r] = "settled"
  PROVE  PoolInv'
<1>1. label \notin {"new", "acquiring", "settled"}
  BY DEF Active, InFlight
<1>2. at[x] \notin {"new", "acquiring", "settled"}
  BY DEF Active, InFlight
<1>3. PoolTypes'
  BY DEF PoolInv, PoolTypes, Stages, Lessee
<1>4. \A y \in Lessee : at'[y] = IF y = x THEN label ELSE at[y]
  BY DEF PoolInv, PoolTypes
<1>5. Queueing'
  BY <1>1, <1>2, <1>4 DEF PoolInv, PoolTypes, Queueing
<1>6. Holding' /\ Closed'
  BY DEF PoolInv, Holding, Closed
<1>7. Lending'
  <2>1. \A y \in Lessee : at'[y] \in {"new", "acquiring"} => holds[y] = NoConn
    BY <1>1, <1>4 DEF PoolInv, Lending
  <2>2. \A t \in Trx : at'[t] \in Active => holds[t] # NoConn
    BY <1>4 DEF PoolInv, Lending, Lessee
  <2>3. \A r \in Run : home[r] = NoTrx /\ at'[r] \in Active => holds[r] # NoConn
    BY <1>4 DEF PoolInv, Lending, Lessee
  <2>4. ASSUME NEW r \in Run, home[r] # NoTrx
        PROVE  /\ holds[r] = NoConn
               /\ at'[r] \notin {"new", "acquiring"}
               /\ at'[r] \in Active => at'[home[r]] = "open"
    <3>1. home[r] \in Lessee /\ r \in Lessee
      BY <2>4 DEF PoolInv, PoolTypes, Lessee
    <3>2. holds[r] = NoConn /\ at'[r] \notin {"new", "acquiring"}
      BY <1>1, <1>4, <2>4, <3>1 DEF PoolInv, Lending
    <3>3. ASSUME at'[r] \in Active
          PROVE  at'[home[r]] = "open"
      <4>1. at[r] \in Active
        BY <1>4, <3>1, <3>3
      <4>2. at[home[r]] = "open"
        BY <2>4, <4>1 DEF PoolInv, Lending
      <4>3. home[r] = x => label = "open"
        BY <4>1, <4>2, <1>2 DEF Runs, Active, InFlight
      <4> QED
        BY <1>4, <3>1, <4>2, <4>3
    <3> QED
      BY <3>2, <3>3
  <2> QED
    BY <2>1, <2>2, <2>3, <2>4 DEF Lending
<1> QED
  BY <1>3, <1>5, <1>6, <1>7 DEF PoolInv

\* x settles, and gives back what it holds.
LEMMA SettleStep ==
  ASSUME PoolInv, UNCHANGED <<waiting, pool, home>>,
         NEW x \in Lessee, NEW result, at[x] \in Active \ {"open"},
         Settles(x, result)
  PROVE  PoolInv'
<1> USE RunnerAssumption
<1>1. \A y \in Lessee : /\ at'[y] = IF y = x THEN "settled" ELSE at[y]
                        /\ holds'[y] = IF y = x THEN NoConn ELSE holds[y]
  BY DEF Settles, PoolInv, PoolTypes
<1>2. \A c \in Conn : slot'[c] = IF holds[x] = c THEN "idle" ELSE slot[c]
  BY DEF Settles
<1>3. at[x] \notin {"new", "acquiring", "settled", "open"}
  BY DEF Active, InFlight
<1>4. PoolTypes'
  BY DEF Settles, PoolInv, PoolTypes, Stages
<1>5. Queueing'
  BY <1>1, <1>3 DEF PoolInv, PoolTypes, Queueing
<1>6. Holding'
  <2>1. \A y \in Lessee : holds'[y] # NoConn => slot'[holds'[y]] = "used"
    BY <1>1, <1>2 DEF PoolInv, PoolTypes, Holding
  <2>2. \A y, z \in Lessee : holds'[y] = holds'[z] /\ holds'[y] # NoConn => y = z
    BY <1>1 DEF PoolInv, Holding
  <2>3. \A c \in Conn : slot'[c] = "used" => \E y \in Lessee : holds'[y] = c
    BY <1>1, <1>2 DEF PoolInv, Holding
  <2> QED
    BY <2>1, <2>2, <2>3 DEF Holding
<1>7. Lending'
  <2>1. \A y \in Lessee : at'[y] \in {"new", "acquiring"} => holds'[y] = NoConn
    BY <1>1 DEF PoolInv, Lending
  <2>2. "settled" \notin Active
    BY DEF Active, InFlight
  <2>3. \A t \in Trx : at'[t] \in Active => holds'[t] # NoConn
    BY <1>1, <2>2 DEF PoolInv, Lending, Lessee
  <2>4. \A r \in Run : home'[r] = NoTrx /\ at'[r] \in Active => holds'[r] # NoConn
    BY <1>1, <2>2 DEF PoolInv, Lending, Lessee
  <2>5. ASSUME NEW r \in Run, home[r] # NoTrx
        PROVE  /\ holds'[r] = NoConn
               /\ at'[r] \notin {"new", "acquiring"}
               /\ at'[r] \in Active => at'[home[r]] = "open"
    <3>1. home[r] \in Lessee /\ r \in Lessee
      BY <2>5 DEF PoolInv, PoolTypes, Lessee
    <3>2. home[r] = x => at[r] \notin Active
      BY <1>3, <2>5 DEF PoolInv, Lending
    <3> QED
      BY <1>1, <1>3, <2>2, <2>5, <3>1, <3>2 DEF PoolInv, Lending
  <2> QED
    BY <2>1, <2>3, <2>4, <2>5 DEF Lending
<1>8. Closed'
  <2>1. ASSUME pool = "gone"
        PROVE  holds[x] = NoConn
    BY <2>1 DEF PoolInv, Closed, Holding, PoolTypes
  <2> QED
    BY <1>2, <2>1 DEF PoolInv, Closed
<1> QED
  BY <1>4, <1>5, <1>6, <1>7, <1>8 DEF PoolInv

\* No lessee moves, and no slot changes hands.
LEMMA IdleStep ==
  ASSUME PoolInv, UNCHANGED <<holds, at, waiting, home>>,
         slot' \in [Conn -> {"empty", "creating", "idle", "used"}],
         \A c \in Conn : slot'[c] = "used" <=> slot[c] = "used",
         pool' = "gone" => waiting = <<>> /\ \A c \in Conn : slot'[c] = "empty"
  PROVE  PoolInv'
<1>1. PoolTypes' /\ Queueing' /\ Lending' /\ Closed'
  BY DEF PoolInv, PoolTypes, Queueing, Lending, Closed
<1>2. Holding'
  BY DEF PoolInv, PoolTypes, Holding
<1> QED
  BY <1>1, <1>2 DEF PoolInv

\* Those who have no connection yet are rejected.
LEMMA RefuseKeeps ==
  ASSUME PoolInv, UNCHANGED home, NEW xs \in SUBSET Lessee, Refused(xs),
         \A x \in xs : at[x] \in {"new", "acquiring"}
  PROVE  /\ \A y \in Lessee : at'[y] = IF y \in xs THEN "settled" ELSE at[y]
         /\ at' \in [Lessee -> Stages]
         /\ \A r \in Run : at'[r] \notin {"beginning", "open", "committing"}
         /\ UNCHANGED holds
         /\ Lending'
<1> USE RunnerAssumption
<1>1. UNCHANGED holds /\ \A y \in Lessee : at'[y] = IF y \in xs THEN "settled" ELSE at[y]
  BY DEF Refused
<1>2. at' \in [Lessee -> Stages]
  BY DEF Refused, PoolInv, PoolTypes, Stages
<1>3. \A r \in Run : at'[r] \notin {"beginning", "open", "committing"}
  BY <1>1 DEF PoolInv, PoolTypes, Lessee
<1>4. "settled" \notin Active
  BY DEF Active, InFlight
<1>5. Lending'
  <2>1. \A y \in Lessee : at'[y] \in {"new", "acquiring"} => holds'[y] = NoConn
    BY <1>1 DEF PoolInv, Lending
  <2>2. \A t \in Trx : at'[t] \in Active => holds'[t] # NoConn
    BY <1>1, <1>4 DEF PoolInv, Lending, Lessee
  <2>3. \A r \in Run : home'[r] = NoTrx /\ at'[r] \in Active => holds'[r] # NoConn
    BY <1>1, <1>4 DEF PoolInv, Lending, Lessee
  <2>4. ASSUME NEW r \in Run, home[r] # NoTrx
        PROVE  /\ holds'[r] = NoConn
               /\ at'[r] \notin {"new", "acquiring"}
               /\ at'[r] \in Active => at'[home[r]] = "open"
    <3>1. home[r] \in Lessee /\ r \in Lessee
      BY <2>4 DEF PoolInv, PoolTypes, Lessee
    <3> QED
      BY <1>1, <1>4, <2>4, <3>1 DEF PoolInv, Lending
  <2> QED
    BY <2>1, <2>2, <2>3, <2>4 DEF Lending
<1> QED
  BY <1>1, <1>2, <1>3, <1>5

\* One who waits is rejected.
LEMMA TurnedAway ==
  ASSUME PoolInv, UNCHANGED home, NEW k \in DOMAIN waiting, Shrunk(k),
         Refused({waiting[k]}), pool' = "gone" => pool = "gone",
         slot' \in [Conn -> {"empty", "creating", "idle", "used"}],
         \A c \in Conn : slot'[c] = "used" <=> slot[c] = "used"
  PROVE  PoolInv'
<1>1. waiting[k] \in Lessee /\ at[waiting[k]] = "acquiring"
  BY DEF PoolInv, PoolTypes, Queueing
<1>2. /\ \A y \in Lessee : at'[y] = IF y \in {waiting[k]} THEN "settled" ELSE at[y]
      /\ at' \in [Lessee -> Stages]
      /\ \A r \in Run : at'[r] \notin {"beginning", "open", "committing"}
      /\ UNCHANGED holds
      /\ Lending'
  BY <1>1, RefuseKeeps
<1>3. PoolTypes'
  BY <1>2 DEF PoolInv, PoolTypes, Shrunk
<1>4. Queueing'
  BY <1>2, Dequeue DEF PoolInv
<1>5. Holding'
  BY <1>2 DEF PoolInv, PoolTypes, Holding
<1>6. Closed'
  BY DEF PoolInv, PoolTypes, Closed
<1> QED
  BY <1>2, <1>3, <1>4, <1>5, <1>6 DEF PoolInv

LEMMA AcquireStep ==
  ASSUME PoolInv, UNCHANGED <<pool, slot, home>>,
         NEW x \in Lessee, at[x] = "new", Acquire(x)
  PROVE  PoolInv'
<1> USE RunnerAssumption
<1>1. CASE pool = "gone"
  <2>1. Refused({x}) /\ UNCHANGED waiting
    BY <1>1 DEF Acquire
  <2>2. /\ \A y \in Lessee : at'[y] = IF y \in {x} THEN "settled" ELSE at[y]
        /\ at' \in [Lessee -> Stages]
        /\ \A r \in Run : at'[r] \notin {"beginning", "open", "committing"}
        /\ UNCHANGED holds
        /\ Lending'
    BY <2>1, RefuseKeeps
  <2>3. PoolTypes' /\ Holding' /\ Closed'
    BY <2>1, <2>2 DEF PoolInv, PoolTypes, Holding, Closed
  <2>4. Queueing'
    BY <2>1, <2>2 DEF PoolInv, PoolTypes, Queueing
  <2> QED
    BY <2>2, <2>3, <2>4 DEF PoolInv
<1>2. CASE pool # "gone"
  <2>1. waiting' = Append(waiting, x) /\ at' = [at EXCEPT ![x] = "acquiring"]
        /\ UNCHANGED holds
    BY <1>2 DEF Acquire, Goto
  <2>2. \A y \in Lessee : at'[y] = IF y = x THEN "acquiring" ELSE at[y]
    BY <2>1 DEF PoolInv, PoolTypes
  <2>3. PoolTypes' /\ Holding' /\ Closed'
    BY <1>2, <2>1 DEF PoolInv, PoolTypes, Holding, Closed, Stages, Lessee
  <2>4. /\ Len(waiting) \in Nat /\ DOMAIN waiting = 1 .. Len(waiting)
        /\ DOMAIN waiting' = 1 .. Len(waiting) + 1
        /\ \A i \in DOMAIN waiting : waiting'[i] = waiting[i]
        /\ waiting'[Len(waiting) + 1] = x
        /\ \A i \in DOMAIN waiting : waiting[i] \in Lessee /\ waiting[i] # x
    BY <2>1 DEF PoolInv, PoolTypes, Queueing
  <2>5. \A i \in DOMAIN waiting' : i \in DOMAIN waiting \/ i = Len(waiting) + 1
    BY <2>4
  <2>6. \A i \in DOMAIN waiting : i \in DOMAIN waiting'
    BY <2>4
  <2>7. Len(waiting) + 1 \in DOMAIN waiting'
    BY <2>4
  <2>8. Queueing'
    <3>1. \A i \in DOMAIN waiting' : at'[waiting'[i]] = "acquiring"
      BY <2>2, <2>4, <2>5 DEF PoolInv, Queueing
    <3>2. \A i, j \in DOMAIN waiting' : waiting'[i] = waiting'[j] => i = j
      BY <2>4, <2>5 DEF PoolInv, Queueing
    <3>3. \A y \in Lessee : at'[y] = "acquiring" =>
            \E i \in DOMAIN waiting' : waiting'[i] = y
      BY <2>2, <2>4, <2>6, <2>7 DEF PoolInv, Queueing
    <3> QED
      BY <3>1, <3>2, <3>3 DEF Queueing
  <2>9. Lending'
    <3>1. "acquiring" \notin Active
      BY DEF Active, InFlight
    <3>2. \A y \in Lessee : at'[y] \in {"new", "acquiring"} => holds'[y] = NoConn
      BY <2>1, <2>2 DEF PoolInv, Lending
    <3>3. \A t \in Trx : at'[t] \in Active => holds'[t] # NoConn
      BY <2>1, <2>2, <3>1 DEF PoolInv, Lending, Lessee
    <3>4. \A r \in Run : home'[r] = NoTrx /\ at'[r] \in Active => holds'[r] # NoConn
      BY <2>1, <2>2, <3>1 DEF PoolInv, Lending, Lessee
    <3>5. ASSUME NEW r \in Run, home[r] # NoTrx
          PROVE  /\ holds'[r] = NoConn
                 /\ at'[r] \notin {"new", "acquiring"}
                 /\ at'[r] \in Active => at'[home[r]] = "open"
      <4>1. home[r] \in Lessee /\ r \in Lessee
        BY <3>5 DEF PoolInv, PoolTypes, Lessee
      <4> QED
        BY <2>1, <2>2, <3>1, <3>5, <4>1 DEF PoolInv, Lending
    <3> QED
      BY <3>2, <3>3, <3>4, <3>5 DEF Lending
  <2> QED
    BY <2>3, <2>8, <2>9 DEF PoolInv
<1> QED
  BY <1>1, <1>2

-----------------------------------------------------------------------------
\* A query of an open transaction starts.
LEMMA StartInStep ==
  ASSUME PoolInv, NEW r \in Run, NEW t \in Trx, StartIn(r, t)
  PROVE  PoolInv'
<1> USE RunnerAssumption
<1>1. /\ at[r] = "new" /\ at[t] = "open"
      /\ at' = [at EXCEPT ![r] = "awaiting"]
      /\ home' = [home EXCEPT ![r] = t]
      /\ UNCHANGED <<holds, slot, waiting, pool>>
  BY DEF StartIn, Goto
<1>2. r \in Lessee /\ t \in Lessee /\ r # t /\ t # NoTrx
  BY DEF Lessee
<1>3. /\ \A y \in Lessee : at'[y] = IF y = r THEN "awaiting" ELSE at[y]
      /\ \A q \in Run : home'[q] = IF q = r THEN t ELSE home[q]
  BY <1>1, <1>2 DEF PoolInv, PoolTypes
<1>4. PoolTypes'
  BY <1>1, <1>2 DEF PoolInv, PoolTypes, Stages, Active, InFlight
<1>5. Queueing'
  BY <1>1, <1>3 DEF PoolInv, PoolTypes, Queueing
<1>6. Holding' /\ Closed'
  BY <1>1 DEF PoolInv, Holding, Closed
<1>7. Lending'
  <2>1. \A y \in Lessee : at'[y] \in {"new", "acquiring"} => holds'[y] = NoConn
    BY <1>1, <1>3 DEF PoolInv, Lending
  <2>2. \A u \in Trx : at'[u] \in Active => holds'[u] # NoConn
    <3>1. \A u \in Trx : u \in Lessee /\ u # r
      BY DEF Lessee
    <3> QED
      BY <1>1, <1>3, <3>1 DEF PoolInv, Lending
  <2>3. \A q \in Run : home'[q] = NoTrx /\ at'[q] \in Active => holds'[q] # NoConn
    BY <1>1, <1>2, <1>3 DEF PoolInv, Lending, Lessee
  <2>4. ASSUME NEW q \in Run, home'[q] # NoTrx
        PROVE  /\ holds'[q] = NoConn
               /\ at'[q] \notin {"new", "acquiring"}
               /\ at'[q] \in Active => at'[home'[q]] = "open"
    <3>1. CASE q = r
      BY <1>1, <1>2, <1>3, <3>1 DEF PoolInv, Lending
    <3>2. CASE q # r
      <4>1. home'[q] = home[q] /\ home[q] \in Lessee /\ home[q] # r /\ q \in Lessee
        BY <1>3, <2>4, <3>2 DEF PoolInv, PoolTypes, Lessee
      <4> QED
        BY <1>1, <1>3, <2>4, <3>2, <4>1 DEF PoolInv, Lending
    <3> QED
      BY <3>1, <3>2
  <2> QED
    BY <2>1, <2>2, <2>3, <2>4 DEF Lending
<1> QED
  BY <1>4, <1>5, <1>6, <1>7 DEF PoolInv

\* The oldest of those who wait gets an idle connection.
LEMMA ServeStep ==
  ASSUME PoolInv, NEW c \in Conn, Serve(c)
  PROVE  PoolInv'
<1> USE RunnerAssumption
<1> DEFINE x == waiting[1]
           label == IF x \in Run THEN "awaiting" ELSE "beginning"
<1>1. Shrunk(1) /\ 1 \in DOMAIN waiting /\ Head(waiting) = x
  BY TailShrinks DEF Serve, PoolInv, PoolTypes
<1>2. /\ pool = "open" /\ slot[c] = "idle"
      /\ slot' = [slot EXCEPT ![c] = "used"]
      /\ holds' = [holds EXCEPT ![x] = c]
      /\ at' = [at EXCEPT ![x] = label]
      /\ UNCHANGED <<pool, home>>
  BY <1>1 DEF Serve, work
<1>3. x \in Lessee /\ at[x] = "acquiring"
  BY <1>1 DEF PoolInv, PoolTypes, Queueing
<1>4. label \in Active /\ label \notin {"acquiring", "new", "settled", "open"}
  BY DEF Active, InFlight
<1>5. x \in Run => label \notin {"beginning", "open", "committing"}
  OBVIOUS
<1> HIDE DEF x, label
<1>6. \A y \in Lessee : /\ at'[y] = IF y = x THEN label ELSE at[y]
                        /\ holds'[y] = IF y = x THEN c ELSE holds[y]
  BY <1>2, <1>3 DEF PoolInv, PoolTypes
<1>7. \A d \in Conn : slot'[d] = IF d = c THEN "used" ELSE slot[d]
  BY <1>2 DEF PoolInv, PoolTypes
<1>8. PoolTypes'
  <2>1. slot' \in [Conn -> {"empty", "creating", "idle", "used"}]
    BY <1>2 DEF PoolInv, PoolTypes
  <2>2. holds' \in [Lessee -> Conn \cup {NoConn}]
    BY <1>2 DEF PoolInv, PoolTypes
  <2>3. at' \in [Lessee -> Stages]
    BY <1>2, <1>4 DEF PoolInv, PoolTypes, Stages
  <2>4. \A r \in Run : at'[r] \notin {"beginning", "open", "committing"}
    BY <1>5, <1>6 DEF PoolInv, PoolTypes, Lessee
  <2> QED
    BY <1>1, <1>2, <2>1, <2>2, <2>3, <2>4 DEF PoolInv, PoolTypes, Shrunk
<1>9. Queueing'
  <2>1. \A y \in Lessee : at'[y] = IF y = waiting[1] THEN label ELSE at[y]
    BY <1>6 DEF x
  <2> QED
    BY <1>1, <1>4, <2>1, Dequeue DEF PoolInv
<1>10. \A y \in Lessee : holds[y] # c
  BY <1>2 DEF PoolInv, Holding
<1>11. Holding'
  <2>1. \A y \in Lessee : holds'[y] # NoConn => slot'[holds'[y]] = "used"
    BY <1>6, <1>7 DEF PoolInv, PoolTypes, Holding
  <2>2. \A y, z \in Lessee : holds'[y] = holds'[z] /\ holds'[y] # NoConn => y = z
    BY <1>6, <1>10 DEF PoolInv, Holding
  <2>3. \A d \in Conn : slot'[d] = "used" => \E y \in Lessee : holds'[y] = d
    <3>1. holds[x] = NoConn
      BY <1>3 DEF PoolInv, Lending
    <3> QED
      BY <1>3, <1>6, <1>7, <3>1 DEF PoolInv, Holding
  <2> QED
    BY <2>1, <2>2, <2>3 DEF Holding
<1>12. Lending'
  <2>1. \A y \in Lessee : at'[y] \in {"new", "acquiring"} => holds'[y] = NoConn
    BY <1>4, <1>6 DEF PoolInv, Lending
  <2>2. \A t \in Trx : at'[t] \in Active => holds'[t] # NoConn
    BY <1>6 DEF PoolInv, Lending, Lessee
  <2>3. \A r \in Run : home'[r] = NoTrx /\ at'[r] \in Active => holds'[r] # NoConn
    BY <1>2, <1>6 DEF PoolInv, Lending, Lessee
  <2>4. ASSUME NEW r \in Run, home[r] # NoTrx
        PROVE  /\ holds'[r] = NoConn
               /\ at'[r] \notin {"new", "acquiring"}
               /\ at'[r] \in Active => at'[home[r]] = "open"
    <3>1. r \in Lessee /\ r # x /\ home[r] \in Lessee
      BY <1>3, <2>4 DEF PoolInv, PoolTypes, Lending, Lessee
    <3>2. at[home[r]] = "open" => home[r] # x
      BY <1>3
    <3> QED
      BY <1>6, <2>4, <3>1, <3>2 DEF PoolInv, Lending
  <2> QED
    BY <1>2, <2>1, <2>2, <2>3, <2>4 DEF Lending
<1>13. Closed'
  BY <1>2 DEF Closed
<1> QED
  BY <1>8, <1>9, <1>11, <1>12, <1>13 DEF PoolInv

\* destroy() ends, when no connection is used.
LEMMA DestroyedStep ==
  ASSUME PoolInv, Destroyed
  PROVE  PoolInv'
<1> USE RunnerAssumption
<1>1. \A x \in ToSet(waiting) : x \in Lessee /\ at[x] = "acquiring"
  BY DEF PoolInv, PoolTypes, Queueing, ToSet
<1>2. Refused(ToSet(waiting)) /\ UNCHANGED home /\ waiting' = <<>>
  BY DEF Destroyed, work
<1>3. /\ \A y \in Lessee : at'[y] = IF y \in ToSet(waiting) THEN "settled" ELSE at[y]
      /\ at' \in [Lessee -> Stages]
      /\ \A r \in Run : at'[r] \notin {"beginning", "open", "committing"}
      /\ UNCHANGED holds
      /\ Lending'
  BY <1>1, <1>2, RefuseKeeps
<1>4. \A x \in Lessee : at[x] = "acquiring" => x \in ToSet(waiting)
  BY DEF PoolInv, Queueing, ToSet
<1>5. slot' = [d \in Conn |-> "empty"]
  <2>1. slot' = [d \in Conn |-> IF d \in Conn THEN "empty" ELSE slot[d]]
    BY DEF Destroyed, Emptied
  <2> QED
    BY <2>1
<1>6. \A x \in Lessee : holds[x] = NoConn
  BY DEF Destroyed, PoolInv, PoolTypes, Holding
<1>7. PoolTypes'
  BY <1>2, <1>3, <1>5 DEF PoolInv, PoolTypes
<1>8. Queueing' /\ Holding' /\ Closed'
  BY <1>2, <1>3, <1>4, <1>5, <1>6 DEF Queueing, Holding, Closed
<1> QED
  BY <1>3, <1>7, <1>8 DEF PoolInv

-----------------------------------------------------------------------------
LEMMA UserPreserves ==
  ASSUME PoolInv, User
  PROVE  PoolInv'
<1>1. ASSUME NEW r \in Run, Start(r)
      PROVE  PoolInv'
  BY <1>1, AcquireStep DEF Start, resources, Lessee
<1>2. ASSUME NEW r \in Run, NEW t \in Trx, StartIn(r, t)
      PROVE  PoolInv'
  BY <1>2, StartInStep
<1>3. ASSUME NEW t \in Trx, Begin(t)
      PROVE  PoolInv'
  BY <1>3, AcquireStep DEF Begin, resources, work, Lessee
<1>4. ASSUME NEW t \in Trx, Commit(t)
      PROVE  PoolInv'
  <2>1. /\ t \in Lessee /\ t \notin Run
        /\ at[t] = "open" /\ \A r \in Runs(t) : at[r] = "settled"
        /\ at' = [at EXCEPT ![t] = "committing"]
        /\ UNCHANGED <<slot, holds, waiting, pool, home>>
    BY <1>4, RunnerAssumption DEF Commit, Goto, work, Lessee
  <2>2. "committing" \in Active /\ "open" \in Active
    BY DEF Active
  <2> QED
    BY <2>1, <2>2, QuietStep
<1>5. CASE Destroy
  BY <1>5, IdleStep DEF Destroy, resources, fate, work, PoolInv, PoolTypes
<1>6. CASE Initialize
  BY <1>6, IdleStep DEF Initialize, resources, fate, work, PoolInv, PoolTypes
<1> QED
  BY <1>1, <1>2, <1>3, <1>4, <1>5, <1>6 DEF User

LEMMA TarnPreserves ==
  ASSUME PoolInv, Tarn
  PROVE  PoolInv'
<1>1. ASSUME NEW c \in Conn, Serve(c)
      PROVE  PoolInv'
  BY <1>1, ServeStep
<1>2. ASSUME NEW c \in Conn, Discard(c)
      PROVE  PoolInv'
  <2>1. /\ \A d \in Conn : slot'[d] = IF d = c THEN "empty" ELSE slot[d]
        /\ slot' \in [Conn -> {"empty", "creating", "idle", "used"}]
    BY <1>2 DEF Discard, Emptied, PoolInv, PoolTypes
  <2> QED
    BY <1>2, <2>1, IdleStep DEF Discard, fate, work
<1>3. ASSUME NEW c \in Conn, Create(c) \/ Created(c)
      PROVE  PoolInv'
  <2>1. UNCHANGED <<holds, at, waiting, home, pool>>
    BY <1>3 DEF Create, Created, fate, work
  <2>2. \A d \in Conn : slot'[d] = "used" <=> slot[d] = "used"
    BY <1>3 DEF Create, Created, PoolInv, PoolTypes
  <2>3. slot' \in [Conn -> {"empty", "creating", "idle", "used"}]
    BY <1>3 DEF Create, Created, PoolInv, PoolTypes
  <2>4. pool # "gone"
    BY <1>3 DEF Create, Created, PoolInv, Closed
  <2> QED
    BY <2>1, <2>2, <2>3, <2>4, IdleStep
<1>4. ASSUME NEW c \in Conn, CreateFails(c)
      PROVE  PoolInv'
  <2>1. UNCHANGED <<home, pool>>
    BY <1>4 DEF CreateFails, work
  <2>2. /\ \A d \in Conn : slot'[d] = "used" <=> slot[d] = "used"
        /\ slot' \in [Conn -> {"empty", "creating", "idle", "used"}]
    BY <1>4 DEF CreateFails, PoolInv, PoolTypes
  <2>3. pool # "gone"
    BY <1>4 DEF CreateFails, PoolInv, Closed
  <2>4. CASE waiting = <<>>
    <3>1. UNCHANGED <<waiting, holds, at>>
      BY <1>4, <2>4 DEF CreateFails, fate
    <3> QED
      BY <2>1, <2>2, <2>3, <3>1, IdleStep
  <2>5. CASE waiting # <<>>
    <3>1. Shrunk(1) /\ 1 \in DOMAIN waiting /\ Head(waiting) = waiting[1]
      BY <1>4, <2>5, TailShrinks DEF CreateFails, PoolInv, PoolTypes
    <3>2. Refused({waiting[1]})
      BY <1>4, <2>5, <3>1 DEF CreateFails
    <3> QED
      BY <2>1, <2>2, <3>1, <3>2, TurnedAway
  <2> QED
    BY <2>4, <2>5
<1>5. ASSUME NEW x \in Lessee, AcquireTimeout(x)
      PROVE  PoolInv'
  <2>1. PICK k \in DOMAIN waiting : waiting[k] = x /\ waiting' = RemoveAt(waiting, k)
    BY <1>5 DEF AcquireTimeout
  <2>2. Refused({waiting[k]}) /\ UNCHANGED <<home, pool, slot>>
    BY <1>5, <2>1 DEF AcquireTimeout, resources, work
  <2>3. waiting \in Seq(Lessee) /\ k \in 1 .. Len(waiting)
    BY DEF PoolInv, PoolTypes
  <2>4. Shrunk(k)
    BY <2>1, <2>3, Removal DEF Shrunk
  <2>5. slot \in [Conn -> {"empty", "creating", "idle", "used"}]
    BY DEF PoolInv, PoolTypes
  <2> QED
    BY <2>2, <2>4, <2>5, TurnedAway
<1>6. CASE Destroyed
  BY <1>6, DestroyedStep
<1> QED
  BY <1>1, <1>2, <1>3, <1>4, <1>5, <1>6 DEF Tarn

LEMMA NetworkPreserves ==
  ASSUME PoolInv, Network
  PROVE  PoolInv'
<1> USE RunnerAssumption
<1>1. ASSUME UNCHANGED <<slot, holds, at, waiting, pool, home>>
      PROVE  PoolInv'
  BY <1>1, IdleStep DEF PoolInv, PoolTypes, Closed
<1>2. /\ "awaiting" \in Active \ {"open"} /\ "beginning" \in Active \ {"open"}
      /\ "committing" \in Active \ {"open"} /\ "open" \in Active
  BY DEF Active, InFlight
<1>3. ASSUME NEW c \in Conn, AnswerRun(c)
      PROVE  PoolInv'
  <2> DEFINE r == Head(queue[c]).by
  <2>1. /\ r \in Run /\ at[r] = "awaiting"
        /\ SendsNext(c, r) \/ Succeeds(c, r) \/ Fails(c, r)
        /\ UNCHANGED <<pool, waiting, home>>
    BY <1>3 DEF AnswerRun
  <2> HIDE DEF r
  <2>2. CASE SendsNext(c, r)
    BY <1>1, <2>1, <2>2 DEF SendsNext, fate
  <2>3. CASE Succeeds(c, r) \/ Fails(c, r)
    <3>1. Settles(r, "ok") \/ Settles(r, "failed")
      BY <2>3 DEF Succeeds, Fails
    <3> QED
      BY <1>2, <2>1, <3>1, SettleStep DEF Lessee
  <2> QED
    BY <2>1, <2>2, <2>3
<1>4. ASSUME NEW c \in Conn, AnswerLate(c) \/ Lose(c)
      PROVE  PoolInv'
  BY <1>1, <1>4 DEF AnswerLate, Lose, fate, work
<1>5. ASSUME NEW c \in Conn, AnswerTrx(c)
      PROVE  PoolInv'
  <2> DEFINE t == Head(queue[c]).by
  <2>1. /\ t \in Trx
        /\ \/ /\ at[t] = "beginning" /\ Goto(t, "open") /\ UNCHANGED slot
           \/ /\ at[t] \in {"beginning", "committing"}
              /\ Settles(t, "ok") \/ Settles(t, "failed")
        /\ UNCHANGED <<pool, waiting, home>>
    BY <1>5 DEF AnswerTrx, Fails
  <2> HIDE DEF t
  <2>2. t \in Lessee /\ t \notin Run
    BY <2>1 DEF Lessee
  <2>3. CASE at[t] = "beginning" /\ Goto(t, "open") /\ UNCHANGED slot
    BY <1>2, <2>1, <2>2, <2>3, QuietStep DEF Goto
  <2>4. CASE /\ at[t] \in {"beginning", "committing"}
             /\ Settles(t, "ok") \/ Settles(t, "failed")
    BY <1>2, <2>1, <2>2, <2>4, SettleStep
  <2> QED
    BY <2>1, <2>3, <2>4
<1> QED
  BY <1>3, <1>4, <1>5 DEF Network

LEMMA TimeoutsPreserve ==
  ASSUME PoolInv, Timers \/ Cancellation
  PROVE  PoolInv'
<1>1. InFlight \subseteq Active \ {"open"} /\ InFlight = {"awaiting", "killing", "killed"}
  BY DEF Active, InFlight
<1>2. PICK r \in Run : \/ Timeout(r) \/ TimeoutCancels(r)
                       \/ Kill(r) \/ Cancelled(r) \/ CancelFails(r)
  BY DEF Timers, Cancellation
<1>3. r \in Lessee
  BY DEF Lessee
<1>4. CASE Timeout(r) \/ Cancelled(r) \/ CancelFails(r)
  <2>1. /\ at[r] \in InFlight /\ UNCHANGED <<waiting, pool, home>>
        /\ Settles(r, "timeout") \/ Settles(r, "cancelFailed")
    BY <1>1, <1>4 DEF Timeout, Cancelled, CancelFails, work
  <2> QED
    BY <1>1, <1>3, <2>1, SettleStep
<1>5. CASE TimeoutCancels(r) \/ Kill(r)
  <2>1. /\ at[r] \in InFlight /\ UNCHANGED <<slot, holds, waiting, pool, home>>
        /\ \E label \in InFlight : at' = [at EXCEPT ![r] = label]
    BY <1>1, <1>5 DEF TimeoutCancels, Kill, Goto, resources, work
  <2>2. PICK label \in InFlight : at' = [at EXCEPT ![r] = label]
    BY <2>1
  <2>3. label \notin {"beginning", "open", "committing"} /\ at[r] # "open"
    BY <1>1, <2>1
  <2> QED
    BY <1>1, <1>3, <2>1, <2>2, <2>3, QuietStep
<1> QED
  BY <1>2, <1>4, <1>5

\* The inductive invariant: where every query and transaction has got to says
\* whether it waits, holds a connection, or works on its transaction's.
THEOREM PoolInductive == Spec => []PoolInv
<1>1. PoolInv /\ [Next]_vars => PoolInv'
  <2> SUFFICES ASSUME PoolInv, [Next]_vars
               PROVE  PoolInv'
    OBVIOUS
  <2>1. CASE UNCHANGED vars
    BY <2>1 DEF vars, resources, fate, work, PoolInv, PoolTypes, Queueing, Holding,
                Lending, Closed
  <2> QED
    BY <2>1, UserPreserves, TarnPreserves, NetworkPreserves, TimeoutsPreserve DEF Next
<1> QED
  BY InitPool, <1>1, PTL DEF Spec

\* A connection has exactly the user to whom the pool has given it, through
\* success, errors, timeouts and failed cancellations: ensureConnection and
\* Transaction.acquireConnection release what they have acquired, once.
THEOREM OneUserHolds == Spec => []OneUser
<1>1. PoolInv => OneUser
  <2> SUFFICES ASSUME PoolInv, NEW c \in Conn
               PROVE  Cardinality({x \in Lessee : holds[x] = c})
                        = IF slot[c] = "used" THEN 1 ELSE 0
    BY DEF OneUser
  <2> USE RunnerAssumption
  <2>1. CASE slot[c] = "used"
    <3>1. PICK y \in Lessee : holds[y] = c
      BY <2>1 DEF PoolInv, Holding
    <3>2. {x \in Lessee : holds[x] = c} = {y}
      BY <3>1 DEF PoolInv, Holding
    <3> QED
      BY <2>1, <3>2, FS_Singleton
  <2>2. CASE slot[c] # "used"
    <3>1. {x \in Lessee : holds[x] = c} = {}
      BY <2>2 DEF PoolInv, Holding
    <3> QED
      BY <2>2, <3>1, FS_EmptySet
  <2> QED
    BY <2>1, <2>2
<1> QED
  BY PoolInductive, <1>1, PTL

\* When the promise of client.destroy() resolves, no connection is open, and no
\* query, transaction or cancellation is still going on.
THEOREM GoneIsOverHolds == Spec => []GoneIsOver
<1>1. PoolInv => GoneIsOver
  <2> SUFFICES ASSUME PoolInv, pool = "gone"
               PROVE  /\ \A c \in Conn : slot[c] = "empty"
                      /\ \A x \in Lessee : at[x] \in {"new", "settled"}
    BY DEF GoneIsOver
  <2>1. waiting = <<>> /\ \A c \in Conn : slot[c] = "empty"
    BY DEF PoolInv, Closed
  <2>2. \A x \in Lessee : holds[x] = NoConn
    BY <2>1 DEF PoolInv, PoolTypes, Holding
  <2>3. \A x \in Lessee : at[x] # "acquiring"
    BY <2>1 DEF PoolInv, Queueing
  <2>4. \A t \in Trx : at[t] \notin Active
    BY <2>2 DEF PoolInv, Lending, Lessee
  <2>5. ASSUME NEW r \in Run
        PROVE  at[r] \notin Active
    <3>1. CASE home[r] = NoTrx
      BY <2>2, <3>1 DEF PoolInv, Lending, Lessee
    <3>2. CASE home[r] # NoTrx
      <4>1. home[r] \in Trx
        BY <3>2 DEF PoolInv, PoolTypes
      <4>2. "open" \in Active
        BY DEF Active
      <4> QED
        BY <2>4, <3>2, <4>1, <4>2 DEF PoolInv, Lending
    <3> QED
      BY <3>1, <3>2
  <2> QED
    BY <2>1, <2>3, <2>4, <2>5 DEF PoolInv, PoolTypes, Stages, Lessee
<1> QED
  BY PoolInductive, <1>1, PTL

-----------------------------------------------------------------------------
(* What a query that times out or is cancelled leaves behind: the statements *)
(* the server has not answered, and who still waits for them.                *)

StatementTypes ==
  /\ pool \in {"open", "closing", "gone"}
  /\ disposed \subseteq Conn /\ lost \subseteq Conn
  /\ queue \in [Conn -> Seq(Statement)]
  /\ plan \in [Run -> Plan]
  /\ answered \in [Run -> Nat]
  /\ outcome \in [Lessee -> {"none", "ok", "failed", "timeout", "cancelFailed"}]
  /\ losses \in Nat

\* A query has sent no more statements than it has, and only one that is to be
\* cancelled is cancelled.
Progress == \A r \in Run :
  /\ answered[r] <= plan[r].length
  /\ at[r] \in {"new", "acquiring"} => answered[r] = 0
  /\ at[r] \in InFlight => answered[r] < plan[r].length
  /\ at[r] \in {"killing", "killed"} => plan[r].timeout = "cancel"

\* Nobody waits for more than one statement.
Once == \A c, d \in Conn : \A i \in DOMAIN queue[c], j \in DOMAIN queue[d] :
  queue[c][i].by = queue[d][j].by => c = d /\ i = j

\* Who has settled leaves a statement behind only where it was cancelled, or
\* where nobody else gets the connection.
Abandoned(c, x) ==
  /\ x \in Run
  /\ \/ plan[x].timeout = "cancel" /\ outcome[x] = "timeout"
     \/ c \in disposed /\ \A y \in Lessee : holds[y] = c => y = Lease(x)

\* A statement m on the connection c.
Item(c, m) ==
  /\ at[m.by] \notin {"new", "acquiring", "open"}
  /\ IF at[m.by] = "settled" THEN Abandoned(c, m.by) ELSE Uses(m.by) = c
  /\ m.killer # Nobody =>
       /\ at[m.killer] \notin {"new", "acquiring"}
       /\ at[m.by] # "settled" => Lease(m.killer) = Lease(m.by)

\* The statement m is one the server has not answered on c.
Out(c, m) == \E i \in DOMAIN queue[c] : queue[c][i] = m

Items == \A c \in Conn, m \in Statement : Out(c, m) => Item(c, m)

StatementInv == StatementTypes /\ Progress /\ Once /\ Items

-----------------------------------------------------------------------------
\* The statements of s are old ones of c's queue, not of x, and one of x at its end.
Follows(c, s, x, old) ==
  /\ \A i, j \in DOMAIN s : old[i] = old[j] => i = j
  /\ \A i \in DOMAIN s :
       \/ old[i] \in DOMAIN queue[c] /\ s[i] = queue[c][old[i]] /\ s[i].by # x
       \/ i = Len(s) /\ s[i].by = x

Replaced(c, s) == queue' = [queue EXCEPT ![c] = s]

\* x has no statement out, except perhaps on c.
OnlyOn(c, x) == \A d \in Conn : \A j \in DOMAIN queue[d] : queue[d][j].by = x => d = c

\* m is the last statement of s.
AtEnd(s, m) == Len(s) \in DOMAIN s /\ s[Len(s)] = m

\* Every statement is an old one, on c not of x, or the last one on c and of x.
Renewed(c, s, x) ==
  /\ queue' \in [Conn -> Seq(Statement)] /\ queue'[c] = s
  /\ \A d \in Conn, m \in Statement : Out(d, m)' =>
       \/ Out(d, m) /\ (d = c => m.by # x)
       \/ d = c /\ AtEnd(s, m) /\ m.by = x

\* One queue changes: its first statement leaves, or none, and x sends one, or
\* nobody does.  x has no other statement out.
LEMMA OneQueue ==
  ASSUME StatementTypes, Once, NEW c \in Conn, NEW s \in Seq(Statement),
         Replaced(c, s), NEW x \in Lessee, NEW old \in [DOMAIN s -> Nat],
         Follows(c, s, x, old)
  PROVE  Renewed(c, s, x) /\ (OnlyOn(c, x) => Once')
<1>1. queue' \in [Conn -> Seq(Statement)] /\ queue'[c] = s
      /\ \A d \in Conn \ {c} : queue'[d] = queue[d]
  BY DEF StatementTypes, Replaced
<1> USE DEF Follows, Replaced
<1>3. \A d \in Conn : \A i \in DOMAIN queue'[d] :
              \/ \E j \in DOMAIN queue[d] : queue'[d][i] = queue[d][j] /\ (d = c => queue[d][j].by # x)
              \/ d = c /\ i = Len(s) /\ queue'[d][i].by = x
  <2> SUFFICES ASSUME NEW d \in Conn, NEW i \in DOMAIN queue'[d]
               PROVE  \/ \E j \in DOMAIN queue[d] : queue'[d][i] = queue[d][j] /\ (d = c => queue[d][j].by # x)
                      \/ d = c /\ i = Len(s) /\ queue'[d][i].by = x
    OBVIOUS
  <2>1. CASE d # c
    BY <1>1, <2>1
  <2>2. CASE d = c
    BY <1>1, <2>2
  <2> QED
    BY <2>1, <2>2
<1>4. ASSUME \A d \in Conn : \A j \in DOMAIN queue[d] : queue[d][j].by = x => d = c,
             NEW d \in Conn, NEW e \in Conn, NEW i \in DOMAIN queue'[d], NEW j \in DOMAIN queue'[e],
             queue'[d][i].by = queue'[e][j].by
      PROVE  d = e /\ i = j
  <2>1. CASE d = c /\ e = c
    <3>1. i \in DOMAIN s /\ j \in DOMAIN s /\ s[i].by = s[j].by
      BY <1>1, <1>4, <2>1
    <3>2. CASE s[i].by = x
      BY <2>1, <3>1, <3>2
    <3>3. CASE s[i].by # x
      <4>1. /\ old[i] \in DOMAIN queue[c] /\ s[i] = queue[c][old[i]]
            /\ old[j] \in DOMAIN queue[c] /\ s[j] = queue[c][old[j]]
        BY <3>1, <3>3
      <4> QED
        BY <2>1, <3>1, <4>1 DEF Once
    <3> QED
      BY <3>2, <3>3
  <2>2. CASE d # c /\ e # c
    BY <1>1, <1>4, <2>2 DEF Once
  <2>3. ASSUME NEW f \in Conn \ {c}, NEW a \in DOMAIN queue'[f], NEW b \in DOMAIN queue'[c],
               queue'[f][a].by = queue'[c][b].by
        PROVE  FALSE
    <3>1. a \in DOMAIN queue[f] /\ queue'[f][a] = queue[f][a] /\ b \in DOMAIN s /\ queue'[c] = s
      BY <1>1
    <3>2. queue[f][a].by # x
      BY <1>4, <3>1
    <3>3. old[b] \in DOMAIN queue[c] /\ s[b] = queue[c][old[b]]
      BY <2>3, <3>1, <3>2
    <3> QED
      BY <2>3, <3>1, <3>3 DEF Once
  <2> QED
    BY <1>4, <2>1, <2>2, <2>3
<1>5. OnlyOn(c, x) => Once'
  BY <1>4 DEF Once, OnlyOn
<1>6. ASSUME NEW d \in Conn, NEW m \in Statement, Out(d, m)'
      PROVE  \/ Out(d, m) /\ (d = c => m.by # x)
             \/ d = c /\ AtEnd(s, m) /\ m.by = x
  <2>1. PICK i \in DOMAIN queue'[d] : queue'[d][i] = m
    BY <1>6 DEF Out
  <2> QED
    BY <1>1, <1>3, <2>1 DEF Out, AtEnd
<1> QED
  BY <1>1, <1>5, <1>6 DEF Renewed

\* The first statement is answered.
LEMMA Popped ==
  ASSUME StatementTypes, Once, NEW c \in Conn, queue[c] # <<>>, Consume(c)
  PROVE  /\ queue' \in [Conn -> Seq(Statement)] /\ Once'
         /\ \A d \in Conn, m \in Statement :
              Out(d, m)' => Out(d, m) /\ m.by # Head(queue[c]).by
<1>1. PICK q \in Seq(Statement) : q = queue[c] /\ q # <<>>
  BY DEF StatementTypes
<1>2. PICK x \in Lessee : x = Head(q).by
  <2>1. Head(q) \in Statement
    BY <1>1
  <2> QED
    BY <2>1 DEF Statement
<1>3. PICK s \in Seq(Statement) : s = Tail(q)
  <2>1. Tail(q) \in Seq(Statement)
    BY <1>1
  <2> QED
    BY <2>1
<1>11. PICK old \in [DOMAIN s -> Nat] : old = [i \in DOMAIN s |-> i + 1]
  <2>1. [i \in DOMAIN s |-> i + 1] \in [DOMAIN s -> Nat]
    OBVIOUS
  <2> QED
    BY <2>1
<1>4. /\ 1 \in DOMAIN q /\ Head(q) = q[1]
      /\ \A i \in DOMAIN s : old[i] \in DOMAIN q /\ s[i] = q[old[i]] /\ old[i] # 1
      /\ \A i, j \in DOMAIN s : old[i] = old[j] => i = j
  BY <1>1, <1>3, <1>11
<1>5. \A d \in Conn : \A j \in DOMAIN queue[d] : queue[d][j].by = x => d = c /\ j = 1
  BY <1>1, <1>2, <1>4 DEF Once
<1>6. Replaced(c, s)
  BY <1>1, <1>3 DEF Consume, Replaced
<1>7. \A i \in DOMAIN s : s[i].by # x
  BY <1>1, <1>4, <1>5
<1>8. Follows(c, s, x, old)
  BY <1>1, <1>4, <1>7 DEF Follows
<1>9. Renewed(c, s, x) /\ (OnlyOn(c, x) => Once')
  BY <1>6, <1>8, OneQueue
<1>10. ASSUME NEW d \in Conn, NEW m \in Statement, Out(d, m)'
       PROVE  Out(d, m) /\ m.by # x
  <2>1. Out(d, m) /\ (d = c => m.by # x)
    BY <1>7, <1>9, <1>10 DEF Renewed, AtEnd
  <2> QED
    BY <1>5, <2>1 DEF Out
<1>13. OnlyOn(c, x)
  BY <1>5 DEF OnlyOn
<1> QED
  BY <1>1, <1>2, <1>9, <1>10, <1>13 DEF Renewed

\* x, who has no statement out, sends one.
LEMMA Posted ==
  ASSUME StatementTypes, Once, NEW c \in Conn, NEW x \in Lessee, Post(c, x),
         \A d \in Conn : \A j \in DOMAIN queue[d] : queue[d][j].by # x
  PROVE  /\ queue' \in [Conn -> Seq(Statement)] /\ Once'
         /\ \A d \in Conn, m \in Statement :
              Out(d, m)' => Out(d, m) \/ (d = c /\ m = [by |-> x, killer |-> Nobody])
<1>1. PICK q \in Seq(Statement) : q = queue[c]
  BY DEF StatementTypes
<1>2. PICK m \in Statement : m = [by |-> x, killer |-> Nobody]
  BY DEF Statement
<1>3. PICK s \in Seq(Statement) : s = Append(q, m)
  <2>1. Append(q, m) \in Seq(Statement)
    OBVIOUS
  <2> QED
    BY <2>1
<1>12. PICK old \in [DOMAIN s -> Nat] : old = [i \in DOMAIN s |-> i]
  <2>1. [i \in DOMAIN s |-> i] \in [DOMAIN s -> Nat]
    OBVIOUS
  <2> QED
    BY <2>1
<1>4. /\ Len(s) = Len(q) + 1 /\ Len(q) \in Nat
      /\ DOMAIN s = 1 .. Len(q) + 1 /\ DOMAIN q = 1 .. Len(q)
      /\ s[Len(q) + 1] = m
      /\ \A i \in 1 .. Len(q) : s[i] = q[i]
  BY <1>1, <1>3
<1>5. \A i \in DOMAIN s : i \in DOMAIN q \/ i = Len(s)
  BY <1>4
<1>6. Replaced(c, s)
  BY <1>1, <1>2, <1>3 DEF Post, Sent, Replaced
<1>7. m.by = x
  BY <1>2
<1>8. Follows(c, s, x, old)
  BY <1>1, <1>4, <1>5, <1>7, <1>12 DEF Follows
<1>9. Renewed(c, s, x) /\ (OnlyOn(c, x) => Once')
  BY <1>6, <1>8, OneQueue
<1>10. Once'
  BY <1>9 DEF OnlyOn
<1>11. ASSUME NEW d \in Conn, NEW n \in Statement, Out(d, n)'
       PROVE  Out(d, n) \/ (d = c /\ n = m)
  BY <1>4, <1>9, <1>11 DEF Renewed, AtEnd
<1> QED
  BY <1>2, <1>9, <1>10, <1>11 DEF Renewed

\* r, whose statement is the first, is answered and sends the next.
LEMMA Resent ==
  ASSUME StatementTypes, Once, NEW c \in Conn, queue[c] # <<>>,
         NEW r \in Lessee, Head(queue[c]).by = r,
         queue' = [queue EXCEPT ![c] = Sent(Tail(@), r)]
  PROVE  /\ queue' \in [Conn -> Seq(Statement)] /\ Once'
         /\ \A d \in Conn, m \in Statement :
              Out(d, m)' => Out(d, m) \/ (d = c /\ m = [by |-> r, killer |-> Nobody])
<1>1. PICK q \in Seq(Statement) : q = queue[c] /\ q # <<>>
  BY DEF StatementTypes
<1>2. PICK m \in Statement : m = [by |-> r, killer |-> Nobody]
  BY DEF Statement
<1>3. PICK p \in Seq(Statement) : p = Tail(q)
  <2>1. Tail(q) \in Seq(Statement)
    BY <1>1
  <2> QED
    BY <2>1
<1>4. PICK s \in Seq(Statement) : s = Append(p, m)
  <2>1. Append(p, m) \in Seq(Statement)
    OBVIOUS
  <2> QED
    BY <2>1
<1>16. PICK old \in [DOMAIN s -> Nat] : old = [i \in DOMAIN s |-> i + 1]
  <2>1. [i \in DOMAIN s |-> i + 1] \in [DOMAIN s -> Nat]
    OBVIOUS
  <2> QED
    BY <2>1
<1>5. /\ 1 \in DOMAIN q /\ Head(q) = q[1]
      /\ \A i \in DOMAIN p : i + 1 \in DOMAIN q /\ p[i] = q[i + 1] /\ i + 1 # 1
  BY <1>1, <1>3
<1>6. /\ Len(s) = Len(p) + 1 /\ Len(p) \in Nat
      /\ DOMAIN s = 1 .. Len(p) + 1 /\ DOMAIN p = 1 .. Len(p)
      /\ s[Len(p) + 1] = m
      /\ \A i \in 1 .. Len(p) : s[i] = p[i]
  BY <1>4
<1>7. \A i \in DOMAIN s : i \in DOMAIN p \/ i = Len(s)
  BY <1>6
<1>8. Replaced(c, s) /\ \A i, j \in DOMAIN s : old[i] = old[j] => i = j
  BY <1>1, <1>2, <1>3, <1>4, <1>6, <1>16 DEF Sent, Replaced
<1>9. \A d \in Conn : \A j \in DOMAIN queue[d] : queue[d][j].by = r => d = c /\ j = 1
  BY <1>1, <1>5 DEF Once
<1>10. \A i \in DOMAIN p : old[i] \in DOMAIN q /\ s[i] = q[old[i]] /\ s[i].by # r
  <2>1. \A i \in DOMAIN p : i \in DOMAIN s /\ s[i] = p[i]
    BY <1>6
  <2> QED
    BY <1>1, <1>5, <1>9, <1>16, <2>1
<1>11. m.by = r
  BY <1>2
<1>12. Follows(c, s, r, old)
  BY <1>1, <1>6, <1>7, <1>8, <1>10, <1>11 DEF Follows
<1>13. Renewed(c, s, r) /\ (OnlyOn(c, r) => Once')
  BY <1>8, <1>12, OneQueue
<1>14. Once'
  BY <1>9, <1>13 DEF OnlyOn
<1>15. ASSUME NEW d \in Conn, NEW n \in Statement, Out(d, n)'
       PROVE  Out(d, n) \/ (d = c /\ n = m)
  BY <1>6, <1>13, <1>15 DEF Renewed, AtEnd
<1> QED
  BY <1>2, <1>13, <1>14, <1>15 DEF Renewed

-----------------------------------------------------------------------------
\* Nobody goes back: stages are left for later ones, a query keeps its plan and
\* its transaction, and whoever is active his connection.
Advances ==
  /\ \A x \in Lessee : at[x] \notin {"new", "acquiring"} => at'[x] \notin {"new", "acquiring"}
  /\ \A x \in Lessee : at[x] = "settled" => at'[x] = "settled" /\ outcome'[x] = outcome[x]
  /\ \A r \in Run : at[r] # "new" => home'[r] = home[r] /\ plan'[r] = plan[r]
  /\ \A x \in Lessee : at[x] \in Active /\ at'[x] \in Active => holds'[x] = holds[x]

\* What a step must leave to the statement m on the connection c: whoever
\* settles while it is out has cancelled it or spoilt the connection.
Stays(c, m) ==
  /\ at'[m.by] # "open"
  /\ at'[m.by] = "settled" => at[m.by] = "settled" \/ Abandoned(c, m.by)'
  /\ c \in disposed => c \in disposed' /\ \A y \in Lessee : holds'[y] = c => holds[y] = c

LEMMA LeaseStays ==
  ASSUME PoolInv, Advances, NEW x \in Lessee, at[x] # "new"
  PROVE  Lease(x)' = Lease(x) /\ Lease(x) \in Lessee
<1>1. CASE x \in Trx
  BY <1>1 DEF Lease
<1>2. CASE x \notin Trx
  <2>1. x \in Run /\ home'[x] = home[x]
    BY <1>2 DEF Advances, Lessee
  <2>2. home[x] \in Trx \cup {NoTrx}
    BY <2>1 DEF PoolInv, PoolTypes
  <2> QED
    BY <1>2, <2>1, <2>2 DEF Lease, Lessee
<1> QED
  BY <1>1, <1>2

\* Whoever is active before and after a step works on the same connection.
LEMMA UsesStays ==
  ASSUME PoolInv, PoolInv', Advances, NEW x \in Lessee, at[x] \in Active, at'[x] \in Active
  PROVE  Uses(x)' = Uses(x)
<1> USE RunnerAssumption
<1>0. "new" \notin Active /\ "open" \in Active
  BY DEF Active, InFlight
<1>1. CASE x \in Trx \/ home[x] = NoTrx
  <2>1. Lease(x) = x /\ Lease(x)' = Lease(x)
    BY <1>0, <1>1, LeaseStays DEF Lease
  <2> QED
    BY <2>1 DEF Uses, Advances
<1>2. CASE ~(x \in Trx \/ home[x] = NoTrx)
  <2>1. x \in Run /\ Lease(x) = home[x] /\ home'[x] = home[x] /\ home[x] \in Lessee
    BY <1>0, <1>2, LeaseStays DEF Lease, Lessee, Advances
  <2>2. at[home[x]] = "open" /\ at'[home[x]] = "open"
    BY <1>2, <2>1 DEF PoolInv, Lending
  <2>3. holds'[home[x]] = holds[home[x]]
    BY <1>0, <2>1, <2>2 DEF Advances
  <2>4. Lease(x)' = home[x]
    BY <1>0, <2>1, LeaseStays
  <2> QED
    BY <2>1, <2>3, <2>4 DEF Uses
<1> QED
  BY <1>1, <1>2

LEMMA Carried ==
  ASSUME PoolInv, PoolInv', Advances, NEW c \in Conn, NEW m \in Statement,
         Item(c, m), Stays(c, m)
  PROVE  Item(c, m)'
<1> USE RunnerAssumption
<1> DEFINE x == m.by
<1>1. x \in Lessee /\ m.killer \in Run \cup {Nobody} /\ (m.killer # Nobody => m.killer \in Lessee)
  BY DEF Statement, Lessee
<1>2. at[x] \in Stages /\ at'[x] \in Stages
  BY <1>1 DEF PoolInv, PoolTypes
<1>3. at[x] \notin {"new", "acquiring", "open"} /\ at'[x] \notin {"new", "acquiring", "open"}
  BY <1>1 DEF Item, Stays, Advances
<1>4. ASSUME at'[x] = "settled"
      PROVE  Abandoned(c, x)'
  <2>1. CASE at[x] = "settled"
    <3>1. Abandoned(c, x)
      BY <2>1 DEF Item
    <3>2. x \in Run /\ plan'[x] = plan[x] /\ outcome'[x] = outcome[x] /\ Lease(x)' = Lease(x)
      BY <1>1, <2>1, <3>1, LeaseStays DEF Advances, Abandoned
    <3> QED
      BY <3>1, <3>2 DEF Abandoned, Stays
  <2> QED
    BY <1>4, <2>1 DEF Stays
<1>5. ASSUME at'[x] # "settled"
      PROVE  Uses(x)' = c
  <2>1. at[x] # "settled"
    BY <1>1, <1>5 DEF Advances
  <2>2. at[x] \in Active /\ at'[x] \in Active
    BY <1>2, <1>3, <1>5, <2>1 DEF Stages
  <2>3. Uses(x) = c
    BY <2>1 DEF Item
  <2> QED
    BY <1>1, <2>2, <2>3, UsesStays
<1>6. ASSUME m.killer # Nobody
      PROVE  /\ at'[m.killer] \notin {"new", "acquiring"}
             /\ at'[x] # "settled" => Lease(m.killer)' = Lease(x)'
  <2>1. at[m.killer] \notin {"new", "acquiring"} /\ m.killer \in Lessee
    BY <1>1, <1>6 DEF Item
  <2>2. Lease(m.killer)' = Lease(m.killer) /\ Lease(x)' = Lease(x)
    BY <1>1, <1>3, <2>1, LeaseStays
  <2>3. at'[x] # "settled" => at[x] # "settled"
    BY <1>1 DEF Advances
  <2> QED
    BY <1>6, <2>1, <2>2, <2>3 DEF Item, Advances
<1> QED
  BY <1>3, <1>4, <1>5, <1>6 DEF Item

\* Statements are old ones that stay, or new ones in order.
LEMMA ItemsKept ==
  ASSUME PoolInv, PoolInv', Items, Advances,
         \A c \in Conn, m \in Statement :
           Out(c, m)' => (Out(c, m) /\ Stays(c, m)) \/ Item(c, m)'
  PROVE  Items'
<1>1. ASSUME NEW c \in Conn, NEW m \in Statement, Out(c, m)'
      PROVE  Item(c, m)'
  <2>1. CASE Out(c, m) /\ Stays(c, m)
    BY <2>1, Carried DEF Items
  <2> QED
    BY <1>1, <2>1
<1> QED
  BY <1>1 DEF Items

\* Whoever has not been served, or has nothing to send, has no statement out.
LEMMA NoneOut ==
  ASSUME StatementInv, NEW x \in Lessee, at[x] \in {"new", "acquiring", "open"}
  PROVE  \A d \in Conn : \A j \in DOMAIN queue[d] : queue[d][j].by # x
<1> SUFFICES ASSUME NEW d \in Conn, NEW j \in DOMAIN queue[d], queue[d][j].by = x
             PROVE  FALSE
  OBVIOUS
<1>1. PICK m \in Statement : m = queue[d][j]
  <2>1. queue[d][j] \in Statement
    BY DEF StatementInv, StatementTypes
  <2> QED
    BY <2>1
<1>2. Item(d, m) /\ m.by = x
  BY <1>1 DEF StatementInv, Items, Out
<1> QED
  BY <1>2 DEF Item

\* Whose turn it is.
LEMMA HeadOut ==
  ASSUME StatementInv, NEW c \in Conn, queue[c] # <<>>
  PROVE  Head(queue[c]) \in Statement /\ Out(c, Head(queue[c])) /\ Item(c, Head(queue[c]))
<1>1. PICK q \in Seq(Statement) : q = queue[c] /\ q # <<>>
  BY DEF StatementInv, StatementTypes
<1>2. 1 \in DOMAIN q /\ q[1] = Head(q) /\ Head(q) \in Statement
  BY <1>1
<1>3. Out(c, Head(q))
  BY <1>1, <1>2 DEF Out
<1> QED
  BY <1>1, <1>2, <1>3 DEF StatementInv, Items

\* Some queues are forgotten.
LEMMA Thinned ==
  ASSUME Once, \A c \in Conn : queue'[c] \in {queue[c], <<>>}
  PROVE  Once' /\ \A c \in Conn, m \in Statement : Out(c, m)' => Out(c, m) /\ queue'[c] = queue[c]
<1>1. \A c \in Conn : \A i \in DOMAIN queue'[c] : queue'[c] = queue[c]
  OBVIOUS
<1>2. Once'
  BY <1>1 DEF Once
<1>3. ASSUME NEW c \in Conn, NEW m \in Statement, Out(c, m)'
      PROVE  Out(c, m) /\ queue'[c] = queue[c]
  BY <1>1, <1>3 DEF Out
<1> QED
  BY <1>2, <1>3

-----------------------------------------------------------------------------
\* Somebody queues for a connection or is refused one, or nobody moves.
LEMMA CalmStep ==
  ASSUME PoolInv, PoolInv', StatementInv, StatementTypes',
         \A y \in Lessee : \/ at'[y] = at[y]
                           \/ at[y] \in {"new", "acquiring"} /\ at'[y] \in {"acquiring", "settled"},
         \A y \in Lessee : at[y] = "settled" => outcome'[y] = outcome[y],
         \A r \in Run : at[r] # "new" => plan'[r] = plan[r],
         UNCHANGED <<home, holds, answered>>,
         Once',
         \A c \in Conn, m \in Statement :
           Out(c, m)' => Out(c, m) /\ (c \in disposed => c \in disposed')
  PROVE  StatementInv'
<1>1. Advances
  BY DEF Advances, Lessee
<1>2. Progress'
  <2> SUFFICES ASSUME NEW r \in Run
               PROVE  /\ answered[r] <= plan'[r].length
                      /\ at'[r] \in {"new", "acquiring"} => answered[r] = 0
                      /\ at'[r] \in InFlight => answered[r] < plan'[r].length
                      /\ at'[r] \in {"killing", "killed"} => plan'[r].timeout = "cancel"
    BY DEF Progress
  <2>1. r \in Lessee /\ plan'[r].length \in Nat
    BY DEF StatementTypes, Plan, Lessee
  <2>2. CASE at[r] = "new"
    <3>1. answered[r] = 0
      BY <2>2 DEF StatementInv, Progress
    <3>2. at'[r] \notin InFlight \cup {"killing", "killed"}
      BY <2>1, <2>2 DEF InFlight
    <3> QED
      BY <2>1, <3>1, <3>2
  <2>3. CASE at[r] # "new"
    <3>1. at'[r] = at[r] \/ at'[r] \notin InFlight
      BY <2>1 DEF InFlight
    <3>2. at'[r] \in {"new", "acquiring"} => at[r] \in {"new", "acquiring"}
      BY <2>1
    <3>3. "killing" \in InFlight /\ "killed" \in InFlight
      BY DEF InFlight
    <3> QED
      BY <2>3, <3>1, <3>2, <3>3 DEF StatementInv, Progress
  <2> QED
    BY <2>2, <2>3
<1>3. ASSUME NEW c \in Conn, NEW m \in Statement, Out(c, m)'
      PROVE  Out(c, m) /\ Stays(c, m)
  <2>1. Out(c, m) /\ (c \in disposed => c \in disposed')
    BY <1>3
  <2>2. m.by \in Lessee /\ at[m.by] \notin {"new", "acquiring", "open"}
    BY <2>1 DEF StatementInv, Items, Item, Statement
  <2> QED
    BY <2>1, <2>2 DEF Stays
<1>4. Items'
  BY <1>1, <1>3, ItemsKept DEF StatementInv
<1> QED
  BY <1>2, <1>4 DEF StatementInv

\* x settles: its statement is answered, or it leaves one that spoils nobody's
\* connection.
LEMMA SettlingStep ==
  ASSUME PoolInv, PoolInv', StatementInv, StatementTypes',
         NEW x \in Lessee, NEW result, Settles(x, result), at[x] \in Active \ {"open"},
         UNCHANGED <<home, plan>>, disposed \subseteq disposed',
         \A r \in Run : /\ answered'[r] <= plan[r].length
                        /\ r # x => answered'[r] = answered[r],
         Once',
         \A c \in Conn, m \in Statement :
           Out(c, m)' => Out(c, m) /\ (m.by = x => Abandoned(c, x)')
  PROVE  StatementInv'
<1>0. at[x] \notin {"new", "acquiring", "settled"} /\ "settled" \notin Active
  BY DEF Active, InFlight
<1>1. \A y \in Lessee : /\ at'[y] = IF y = x THEN "settled" ELSE at[y]
                        /\ y # x => outcome'[y] = outcome[y]
                        /\ holds'[y] = IF y = x THEN NoConn ELSE holds[y]
  BY DEF Settles, PoolInv, PoolTypes, StatementInv, StatementTypes
<1>2. Advances
  BY <1>0, <1>1 DEF Advances
<1>3. Progress'
  <2> SUFFICES ASSUME NEW r \in Run
               PROVE  /\ answered'[r] <= plan[r].length
                      /\ at'[r] \in {"new", "acquiring"} => answered'[r] = 0
                      /\ at'[r] \in InFlight => answered'[r] < plan[r].length
                      /\ at'[r] \in {"killing", "killed"} => plan[r].timeout = "cancel"
    BY DEF Progress
  <2>1. r \in Lessee
    BY DEF Lessee
  <2>2. CASE r = x
    BY <1>1, <2>2 DEF InFlight
  <2>3. CASE r # x
    BY <1>1, <2>1, <2>3 DEF StatementInv, Progress
  <2> QED
    BY <2>2, <2>3
<1>4. ASSUME NEW c \in Conn, NEW m \in Statement, Out(c, m)'
      PROVE  Out(c, m) /\ Stays(c, m)
  <2>1. Out(c, m) /\ (m.by = x => Abandoned(c, x)')
    BY <1>4
  <2>2. m.by \in Lessee /\ at[m.by] # "open"
    BY <2>1 DEF StatementInv, Items, Item, Statement
  <2>3. at'[m.by] # "open"
    BY <1>1, <2>2
  <2>4. at'[m.by] = "settled" => at[m.by] = "settled" \/ Abandoned(c, m.by)'
    <3>1. CASE m.by = x
      BY <2>1, <3>1 DEF Abandoned, Lease
    <3>2. CASE m.by # x
      BY <1>1, <2>2, <3>2
    <3> QED
      BY <3>1, <3>2
  <2>5. \A y \in Lessee : holds'[y] = c => holds[y] = c
    BY <1>1, RunnerAssumption
  <2> QED
    BY <2>1, <2>3, <2>4, <2>5 DEF Stays
<1>5. Items'
  BY <1>2, <1>4, ItemsKept DEF StatementInv
<1> QED
  BY <1>3, <1>5 DEF StatementInv

\* The statements that are out when x gets to label were so before and stay, or
\* are in order.
Passed(x, label) ==
  \A c \in Conn, m \in Statement : Out(c, m)' =>
    \/ /\ Out(c, m)
       /\ m.by = x => label # "open"
       /\ c \in disposed => c \in disposed' /\ \A y \in Lessee : holds'[y] = c => holds[y] = c
    \/ Item(c, m)'

\* x gets to another stage where it is active.
LEMMA MovingStep ==
  ASSUME PoolInv, PoolInv', StatementInv, StatementTypes', Progress', Once',
         NEW x \in Lessee, NEW label \in Active, at' = [at EXCEPT ![x] = label],
         at[x] # "settled", UNCHANGED outcome,
         \A r \in Run : at[r] # "new" => home'[r] = home[r] /\ plan'[r] = plan[r],
         \A y \in Lessee : at[y] \in Active => holds'[y] = holds[y],
         Passed(x, label)
  PROVE  StatementInv'
<1>0. label \notin {"new", "acquiring", "settled"}
  BY DEF Active, InFlight
<1>1. \A y \in Lessee : at'[y] = IF y = x THEN label ELSE at[y]
  BY DEF PoolInv, PoolTypes
<1>2. Advances
  BY <1>0, <1>1 DEF Advances
<1>3. ASSUME NEW c \in Conn, NEW m \in Statement, Out(c, m)'
      PROVE  (Out(c, m) /\ Stays(c, m)) \/ Item(c, m)'
  <2>1. CASE Item(c, m)'
    BY <2>1
  <2>2. CASE /\ Out(c, m)
             /\ m.by = x => label # "open"
             /\ c \in disposed => c \in disposed' /\ \A y \in Lessee : holds'[y] = c => holds[y] = c
    <3>1. m.by \in Lessee /\ at[m.by] # "open"
      BY <2>2 DEF StatementInv, Items, Item, Statement
    <3>2. at'[m.by] # "open" /\ (at'[m.by] = "settled" => at[m.by] = "settled")
      BY <1>0, <1>1, <2>2, <3>1
    <3> QED
      BY <2>2, <3>2 DEF Stays
  <2> QED
    BY <1>3, <2>1, <2>2 DEF Passed
<1>4. Items'
  BY <1>2, <1>3, ItemsKept DEF StatementInv
<1> QED
  BY <1>4 DEF StatementInv

\* A statement sent by x, who has got to a stage where it works on c.
LEMMA SentItem ==
  ASSUME NEW c \in Conn, NEW x \in Lessee, Uses(x)' = c,
         at'[x] \in Active \ {"open"}, NEW m \in Statement, m = [by |-> x, killer |-> Nobody]
  PROVE  Item(c, m)'
<1>1. m.by = x /\ m.killer = Nobody
  OBVIOUS
<1>2. at'[x] \notin {"new", "acquiring", "open", "settled"}
  BY DEF Active, InFlight
<1> QED
  BY <1>1, <1>2 DEF Item

\* Those who are refused have not been served.
LEMMA RefusedCalmly ==
  ASSUME PoolInv, StatementInv, NEW xs, Refused(xs),
         \A x \in xs : at[x] \in {"new", "acquiring"}
  PROVE  /\ \A y \in Lessee : \/ at'[y] = at[y]
                              \/ at[y] \in {"new", "acquiring"} /\ at'[y] \in {"acquiring", "settled"}
         /\ \A y \in Lessee : at[y] = "settled" => outcome'[y] = outcome[y]
         /\ outcome' \in [Lessee -> {"none", "ok", "failed", "timeout", "cancelFailed"}]
         /\ UNCHANGED holds
BY DEF Refused, StatementInv, StatementTypes

LEMMA AcquireStatements ==
  ASSUME PoolInv, PoolInv', StatementInv, NEW x \in Lessee, at[x] = "new", Acquire(x),
         UNCHANGED <<pool, resources, home, answered, losses>>,
         plan' \in [Run -> Plan], \A r \in Run : at[r] # "new" => plan'[r] = plan[r]
  PROVE  StatementInv'
<1>1. /\ \A y \in Lessee : \/ at'[y] = at[y]
                           \/ at[y] \in {"new", "acquiring"} /\ at'[y] \in {"acquiring", "settled"}
      /\ \A y \in Lessee : at[y] = "settled" => outcome'[y] = outcome[y]
      /\ outcome' \in [Lessee -> {"none", "ok", "failed", "timeout", "cancelFailed"}]
      /\ UNCHANGED holds
  <2>1. CASE pool = "gone"
    <3>1. Refused({x})
      BY <2>1 DEF Acquire
    <3> QED
      BY <3>1, RefusedCalmly
  <2>2. CASE pool # "gone"
    BY <2>2 DEF Acquire, Goto, PoolInv, PoolTypes, StatementInv, StatementTypes
  <2> QED
    BY <2>1, <2>2
<1>2. StatementTypes'
  BY <1>1 DEF StatementInv, StatementTypes, resources
<1>3. Once' /\ \A c \in Conn, m \in Statement : Out(c, m)' => Out(c, m)
  BY DEF StatementInv, Once, Out, resources
<1>4. UNCHANGED <<home, holds, answered, disposed>>
  BY <1>1 DEF resources
<1> QED
  BY <1>1, <1>2, <1>3, <1>4, CalmStep

LEMMA StartInStatements ==
  ASSUME PoolInv, PoolInv', StatementInv, NEW r \in Run, NEW t \in Trx, StartIn(r, t)
  PROVE  StatementInv'
<1> USE RunnerAssumption
<1>1. /\ at[r] = "new" /\ at[t] = "open"
      /\ at' = [at EXCEPT ![r] = "awaiting"]
      /\ home' = [home EXCEPT ![r] = t]
      /\ UNCHANGED <<outcome, holds, pool, disposed, lost, answered, losses>>
      /\ \E p \in Plans : plan' = [plan EXCEPT ![r] = p]
  BY DEF StartIn, Goto
<1>2. r \in Lessee /\ t \in Lessee /\ r \notin Trx /\ t # NoTrx
  BY DEF Lessee
<1>3. PICK c \in Conn : c = holds[t]
  <2>1. "open" \in Active
    BY DEF Active
  <2>2. holds[t] \in Conn
    BY <1>1, <1>2, <2>1 DEF PoolInv, PoolTypes, Lending
  <2> QED
    BY <2>2
<1>4. Post(c, r)
  BY <1>3 DEF StartIn
<1>5. \A d \in Conn : \A j \in DOMAIN queue[d] : queue[d][j].by # r
  BY <1>1, <1>2, NoneOut
<1>6. /\ queue' \in [Conn -> Seq(Statement)] /\ Once'
      /\ \A d \in Conn, m \in Statement :
           Out(d, m)' => Out(d, m) \/ (d = c /\ m = [by |-> r, killer |-> Nobody])
  BY <1>2, <1>4, <1>5, Posted DEF StatementInv
<1>7. plan' \in [Run -> Plan] /\ \A q \in Run : q # r => plan'[q] = plan[q] /\ home'[q] = home[q]
  BY <1>1 DEF StatementInv, StatementTypes, PoolInv, PoolTypes
<1>8. StatementTypes'
  BY <1>1, <1>6, <1>7 DEF StatementInv, StatementTypes
<1>9. "awaiting" \in Active \ {"open"} /\ "awaiting" \notin {"new", "acquiring", "killing", "killed", "settled"}
  BY DEF Active, InFlight
<1>10. \A q \in Lessee : at'[q] = IF q = r THEN "awaiting" ELSE at[q]
  BY <1>1 DEF PoolInv, PoolTypes
<1>11. Progress'
  <2> SUFFICES ASSUME NEW q \in Run
               PROVE  /\ answered[q] <= plan'[q].length
                      /\ at'[q] \in {"new", "acquiring"} => answered[q] = 0
                      /\ at'[q] \in InFlight => answered[q] < plan'[q].length
                      /\ at'[q] \in {"killing", "killed"} => plan'[q].timeout = "cancel"
    BY <1>1 DEF Progress
  <2>1. q \in Lessee
    BY DEF Lessee
  <2>2. CASE q = r
    <3>1. answered[q] = 0 /\ plan'[q].length \in Nat \ {0}
      BY <1>1, <1>7, <2>2 DEF StatementInv, Progress, Plan
    <3> QED
      BY <1>9, <1>10, <2>1, <2>2, <3>1
  <2>3. CASE q # r
    BY <1>7, <1>10, <2>1, <2>3 DEF StatementInv, Progress
  <2> QED
    BY <2>2, <2>3
<1>12. ASSUME NEW d \in Conn, NEW m \in Statement, Out(d, m)'
       PROVE  Out(d, m) \/ Item(d, m)'
  <2>1. home'[r] = t
    BY <1>1 DEF PoolInv, PoolTypes
  <2>2. Uses(r)' = c
    BY <1>1, <1>2, <1>3, <2>1 DEF Uses, Lease
  <2>3. at'[r] \in Active \ {"open"}
    BY <1>2, <1>9, <1>10
  <2> QED
    BY <1>2, <1>6, <1>12, <2>2, <2>3, SentItem
<1>13. \A q \in Run : at[q] # "new" => home'[q] = home[q] /\ plan'[q] = plan[q]
  BY <1>1, <1>7
<1>14. UNCHANGED <<outcome, holds, disposed>> /\ at[r] # "settled" /\ "awaiting" # "open"
  BY <1>1
<1>15. Passed(r, "awaiting")
  BY <1>12, <1>14 DEF Passed
<1> QED
  BY <1>1, <1>2, <1>6, <1>8, <1>9, <1>11, <1>13, <1>14, <1>15, MovingStep

LEMMA CommitStatements ==
  ASSUME PoolInv, PoolInv', StatementInv, NEW t \in Trx, Commit(t)
  PROVE  StatementInv'
<1> USE RunnerAssumption
<1>0. PICK label \in Active : label = "committing"
  BY DEF Active
<1>1. /\ at[t] = "open"
      /\ at' = [at EXCEPT ![t] = "committing"]
      /\ UNCHANGED <<outcome, holds, pool, disposed, lost, home, plan, answered, losses>>
  BY DEF Commit, Goto, work
<1>2. t \in Lessee /\ t \notin Run
  BY DEF Lessee
<1>3. PICK c \in Conn : c = holds[t]
  <2>1. "open" \in Active
    BY DEF Active
  <2>2. holds[t] \in Conn
    BY <1>1, <1>2, <2>1 DEF PoolInv, PoolTypes, Lending
  <2> QED
    BY <2>2
<1>4. Post(c, t)
  BY <1>3 DEF Commit
<1>5. \A d \in Conn : \A j \in DOMAIN queue[d] : queue[d][j].by # t
  BY <1>1, <1>2, NoneOut
<1>6. /\ queue' \in [Conn -> Seq(Statement)] /\ Once'
      /\ \A d \in Conn, m \in Statement :
           Out(d, m)' => Out(d, m) \/ (d = c /\ m = [by |-> t, killer |-> Nobody])
  BY <1>2, <1>4, <1>5, Posted DEF StatementInv
<1>8. StatementTypes'
  BY <1>1, <1>6 DEF StatementInv, StatementTypes
<1>9. "committing" \in Active \ {"open"}
  BY DEF Active, InFlight
<1>10. \A q \in Lessee : at'[q] = IF q = t THEN "committing" ELSE at[q]
  BY <1>1 DEF PoolInv, PoolTypes
<1>11. Progress'
  BY <1>1, <1>2, <1>10 DEF StatementInv, Progress, Lessee
<1>12. ASSUME NEW d \in Conn, NEW m \in Statement, Out(d, m)'
       PROVE  Out(d, m) \/ Item(d, m)'
  <2>1. Uses(t)' = c
    BY <1>1, <1>2, <1>3 DEF Uses, Lease
  <2>2. at'[t] \in Active \ {"open"}
    BY <1>2, <1>9, <1>10
  <2> QED
    BY <1>2, <1>6, <1>12, <2>1, <2>2, SentItem
<1>13. Passed(t, label)
  BY <1>0, <1>1, <1>12 DEF Passed
<1>14. \A r \in Run : at[r] # "new" => home'[r] = home[r] /\ plan'[r] = plan[r]
  BY <1>1
<1>15. \A y \in Lessee : at[y] \in Active => holds'[y] = holds[y]
  BY <1>1
<1>16. at' = [at EXCEPT ![t] = label] /\ at[t] # "settled" /\ UNCHANGED outcome
  BY <1>0, <1>1
<1>17. Once'
  BY <1>6
<1> HIDE RunnerAssumption
<1> QED
  BY <1>2, <1>8, <1>11, <1>13, <1>14, <1>15, <1>16, <1>17, MovingStep

\* Nobody moves, and no statement is sent.
LEMMA StillStep ==
  ASSUME PoolInv, PoolInv', StatementInv, StatementTypes',
         UNCHANGED <<fate, work>>, Once',
         \A c \in Conn, m \in Statement :
           Out(c, m)' => Out(c, m) /\ (c \in disposed => c \in disposed')
  PROVE  StatementInv'
<1>1. UNCHANGED <<at, outcome, holds, home, plan, answered>>
  BY DEF fate, work
<1>2. /\ \A y \in Lessee : \/ at'[y] = at[y]
                           \/ at[y] \in {"new", "acquiring"} /\ at'[y] \in {"acquiring", "settled"}
      /\ \A y \in Lessee : at[y] = "settled" => outcome'[y] = outcome[y]
      /\ \A r \in Run : at[r] # "new" => plan'[r] = plan[r]
  BY <1>1
<1> QED
  BY <1>1, <1>2, CalmStep

LEMMA UserStatements ==
  ASSUME PoolInv, PoolInv', StatementInv, User
  PROVE  StatementInv'
<1> USE RunnerAssumption
<1>1. ASSUME NEW r \in Run, Start(r)
      PROVE  StatementInv'
  <2>1. plan' \in [Run -> Plan] /\ \A q \in Run : at[q] # "new" => plan'[q] = plan[q]
    BY <1>1 DEF Start, StatementInv, StatementTypes
  <2>2. /\ r \in Lessee /\ at[r] = "new" /\ Acquire(r)
        /\ UNCHANGED <<pool, resources, home, answered, losses>>
    BY <1>1 DEF Start, Lessee
  <2> QED
    BY <2>1, <2>2, AcquireStatements
<1>2. ASSUME NEW r \in Run, NEW t \in Trx, StartIn(r, t)
      PROVE  StatementInv'
  BY <1>2, StartInStatements
<1>3. ASSUME NEW t \in Trx, Begin(t)
      PROVE  StatementInv'
  <2>1. /\ t \in Lessee /\ at[t] = "new" /\ Acquire(t)
        /\ UNCHANGED <<pool, resources, home, plan, answered, losses>>
    BY <1>3 DEF Begin, Lessee, work
  <2>2. plan' \in [Run -> Plan] /\ \A q \in Run : at[q] # "new" => plan'[q] = plan[q]
    BY <2>1 DEF StatementInv, StatementTypes
  <2> QED
    BY <2>1, <2>2, AcquireStatements
<1>4. ASSUME NEW t \in Trx, Commit(t)
      PROVE  StatementInv'
  BY <1>4, CommitStatements
<1>5. CASE Destroy \/ Initialize
  <2>1. UNCHANGED <<fate, work>> /\ UNCHANGED <<disposed, lost, queue, losses>>
        /\ pool' \in {"open", "closing"}
    BY <1>5 DEF Destroy, Initialize, resources
  <2>2. StatementTypes' /\ Once'
    BY <2>1 DEF StatementInv, StatementTypes, Once, fate, work
  <2>3. \A c \in Conn, m \in Statement :
          Out(c, m)' => Out(c, m) /\ (c \in disposed => c \in disposed')
    BY <2>1 DEF Out
  <2> QED
    BY <2>1, <2>2, <2>3, StillStep
<1> QED
  BY <1>1, <1>2, <1>3, <1>4, <1>5 DEF User

-----------------------------------------------------------------------------
\* Whoever is served finds on the connection no statement that anyone waits for.
LEMMA ServeStatements ==
  ASSUME PoolInv, PoolInv', StatementInv, NEW c \in Conn, Serve(c)
  PROVE  StatementInv'
<1> USE RunnerAssumption
<1>1. Shrunk(1) /\ 1 \in DOMAIN waiting /\ Head(waiting) = waiting[1]
  BY TailShrinks DEF Serve, PoolInv, PoolTypes
<1>2. PICK x \in Lessee : x = Head(waiting) /\ at[x] = "acquiring"
  <2>1. Head(waiting) \in Lessee /\ at[Head(waiting)] = "acquiring"
    BY <1>1 DEF PoolInv, PoolTypes, Queueing
  <2> QED
    BY <2>1
<1>3. PICK label \in Active : label = IF x \in Run THEN "awaiting" ELSE "beginning"
  BY DEF Active, InFlight
<1>4. /\ slot[c] = "idle" /\ c \notin disposed
      /\ holds' = [holds EXCEPT ![x] = c]
      /\ at' = [at EXCEPT ![x] = label]
      /\ Post(c, x)
      /\ UNCHANGED <<pool, disposed, lost, outcome, home, plan, answered, losses>>
  BY <1>2, <1>3 DEF Serve, Valid, work
<1>5. /\ \A y \in Lessee : /\ at'[y] = IF y = x THEN label ELSE at[y]
                           /\ holds'[y] = IF y = x THEN c ELSE holds[y]
      /\ label \notin {"new", "acquiring", "open", "killing", "killed", "settled"}
  BY <1>3, <1>4 DEF PoolInv, PoolTypes
<1>6. \A d \in Conn : \A j \in DOMAIN queue[d] : queue[d][j].by # x
  BY <1>2, NoneOut
<1>7. /\ queue' \in [Conn -> Seq(Statement)] /\ Once'
      /\ \A d \in Conn, m \in Statement :
           Out(d, m)' => Out(d, m) \/ (d = c /\ m = [by |-> x, killer |-> Nobody])
  BY <1>4, <1>6, Posted DEF StatementInv
<1>8. StatementTypes'
  BY <1>4, <1>7 DEF StatementInv, StatementTypes
<1>9. Progress'
  <2> SUFFICES ASSUME NEW q \in Run
               PROVE  /\ answered[q] <= plan[q].length
                      /\ at'[q] \in {"new", "acquiring"} => answered[q] = 0
                      /\ at'[q] \in InFlight => answered[q] < plan[q].length
                      /\ at'[q] \in {"killing", "killed"} => plan[q].timeout = "cancel"
    BY <1>4 DEF Progress
  <2>1. q \in Lessee
    BY DEF Lessee
  <2>2. CASE q = x
    <3>1. answered[q] = 0 /\ plan[q].length \in Nat \ {0}
      BY <1>2, <2>2 DEF StatementInv, StatementTypes, Progress, Plan
    <3> QED
      BY <1>5, <2>1, <2>2, <3>1
  <2>3. CASE q # x
    BY <1>5, <2>1, <2>3 DEF StatementInv, Progress
  <2> QED
    BY <2>2, <2>3
<1>10. Uses(x)' = c
  <2>1. x \in Run => home[x] = NoTrx
    BY <1>2 DEF PoolInv, Lending
  <2>2. Lease(x)' = x
    BY <1>4, <2>1 DEF Lease, Lessee
  <2> QED
    BY <1>5, <2>2 DEF Uses
<1>11. at'[x] \in Active \ {"open"}
  BY <1>5
<1>12. ASSUME NEW d \in Conn, NEW m \in Statement, Out(d, m)'
       PROVE  \/ /\ Out(d, m)
                 /\ m.by = x => label # "open"
                 /\ d \in disposed => d \in disposed' /\ \A y \in Lessee : holds'[y] = d => holds[y] = d
              \/ Item(d, m)'
  <2>1. CASE d = c /\ m = [by |-> x, killer |-> Nobody]
    BY <1>10, <1>11, <2>1, SentItem
  <2>2. CASE Out(d, m)
    BY <1>4, <1>5, <2>2
  <2> QED
    BY <1>7, <1>12, <2>1, <2>2
<1>13. \A r \in Run : at[r] # "new" => home'[r] = home[r] /\ plan'[r] = plan[r]
  BY <1>4
<1>14. \A y \in Lessee : at[y] \in Active => holds'[y] = holds[y]
  BY <1>2, <1>5 DEF Active, InFlight
<1>15. at' = [at EXCEPT ![x] = label] /\ at[x] # "settled" /\ UNCHANGED outcome
  BY <1>2, <1>4
<1>16. Once'
  BY <1>7
<1>17. Passed(x, label)
  BY <1>12 DEF Passed
<1> HIDE RunnerAssumption
<1> QED
  BY <1>8, <1>9, <1>13, <1>14, <1>15, <1>16, <1>17, MovingStep

LEMMA TarnStatements ==
  ASSUME PoolInv, PoolInv', StatementInv, Tarn
  PROVE  StatementInv'
<1> USE RunnerAssumption
<1>1. ASSUME NEW c \in Conn, Serve(c)
      PROVE  StatementInv'
  BY <1>1, ServeStatements
<1>2. ASSUME NEW c \in Conn, Discard(c)
      PROVE  StatementInv'
  <2>1. /\ UNCHANGED <<fate, work>> /\ UNCHANGED <<pool, losses>>
        /\ disposed' = disposed \ {c} /\ lost' = lost \ {c}
        /\ queue' = [d \in Conn |-> IF d \in {c} THEN <<>> ELSE queue[d]]
    BY <1>2 DEF Discard, Emptied
  <2>2. \A d \in Conn : queue'[d] \in {queue[d], <<>>} /\ (d # c => queue'[d] = queue[d])
    BY <2>1
  <2>3. queue' \in [Conn -> Seq(Statement)] /\ queue'[c] = <<>>
    BY <2>1 DEF StatementInv, StatementTypes
  <2>4. Once' /\ \A d \in Conn, m \in Statement : Out(d, m)' => Out(d, m) /\ queue'[d] = queue[d]
    BY <2>2, Thinned DEF StatementInv
  <2>5. StatementTypes'
    BY <2>1, <2>3 DEF StatementInv, StatementTypes, fate, work
  <2>6. ASSUME NEW d \in Conn, NEW m \in Statement, Out(d, m)'
        PROVE  Out(d, m) /\ (d \in disposed => d \in disposed')
    <3>1. d # c
      BY <2>3, <2>6 DEF Out
    <3> QED
      BY <2>1, <2>4, <2>6, <3>1
  <2> QED
    BY <2>1, <2>4, <2>5, <2>6, StillStep
<1>3. ASSUME NEW c \in Conn, Create(c) \/ Created(c)
      PROVE  StatementInv'
  <2>1. UNCHANGED <<fate, work>> /\ UNCHANGED <<pool, disposed, lost, queue, losses>>
    BY <1>3 DEF Create, Created
  <2>2. StatementTypes' /\ Once'
    BY <2>1 DEF StatementInv, StatementTypes, Once, fate, work
  <2>3. \A d \in Conn, m \in Statement :
          Out(d, m)' => Out(d, m) /\ (d \in disposed => d \in disposed')
    BY <2>1 DEF Out
  <2> QED
    BY <2>1, <2>2, <2>3, StillStep
<1>4. ASSUME NEW xs, Refused(xs), \A x \in xs : at[x] \in {"new", "acquiring"},
             UNCHANGED <<home, plan, answered, losses>>,
             pool' \in {"open", "closing", "gone"},
             disposed' \subseteq Conn, lost' \subseteq Conn,
             queue' \in [Conn -> Seq(Statement)],
             \A d \in Conn : \/ queue'[d] = <<>>
                             \/ queue'[d] = queue[d] /\ (d \in disposed => d \in disposed')
      PROVE  StatementInv'
  <2>1. /\ \A y \in Lessee : \/ at'[y] = at[y]
                             \/ at[y] \in {"new", "acquiring"} /\ at'[y] \in {"acquiring", "settled"}
        /\ \A y \in Lessee : at[y] = "settled" => outcome'[y] = outcome[y]
        /\ outcome' \in [Lessee -> {"none", "ok", "failed", "timeout", "cancelFailed"}]
        /\ UNCHANGED holds
    BY <1>4, RefusedCalmly
  <2>2. StatementTypes'
    BY <1>4, <2>1 DEF StatementInv, StatementTypes
  <2>3. \A d \in Conn : queue'[d] \in {queue[d], <<>>}
    BY <1>4
  <2>4. Once' /\ \A d \in Conn, m \in Statement : Out(d, m)' => Out(d, m) /\ queue'[d] = queue[d]
    BY <2>3, Thinned DEF StatementInv
  <2>5. ASSUME NEW d \in Conn, NEW m \in Statement, Out(d, m)'
        PROVE  Out(d, m) /\ (d \in disposed => d \in disposed')
    <3>1. queue'[d] # <<>>
      BY <2>5 DEF Out
    <3> QED
      BY <1>4, <2>4, <2>5, <3>1
  <2>6. UNCHANGED <<home, holds, answered>> /\ \A r \in Run : at[r] # "new" => plan'[r] = plan[r]
    BY <1>4, <2>1
  <2>7. Once'
    BY <2>4
  <2> QED
    BY <2>1, <2>2, <2>5, <2>6, <2>7, CalmStep
<1>5. ASSUME NEW c \in Conn, CreateFails(c)
      PROVE  StatementInv'
  <2>1. UNCHANGED <<work, pool, disposed, lost, queue, losses>>
    BY <1>5 DEF CreateFails
  <2>2. CASE waiting = <<>>
    <3>1. UNCHANGED <<fate, work>>
      BY <1>5, <2>2 DEF CreateFails
    <3>2. StatementTypes' /\ Once'
      BY <2>1, <3>1 DEF StatementInv, StatementTypes, Once, fate, work
    <3>3. \A d \in Conn, m \in Statement :
            Out(d, m)' => Out(d, m) /\ (d \in disposed => d \in disposed')
      BY <2>1 DEF Out
    <3> QED
      BY <3>1, <3>2, <3>3, StillStep
  <2>3. CASE waiting # <<>>
    <3>1. Shrunk(1) /\ 1 \in DOMAIN waiting /\ Head(waiting) = waiting[1]
      BY <1>5, <2>3, TailShrinks DEF CreateFails, PoolInv, PoolTypes
    <3>2. Refused({waiting[1]}) /\ at[waiting[1]] = "acquiring"
      BY <1>5, <2>3, <3>1 DEF CreateFails, PoolInv, Queueing
    <3>3. /\ UNCHANGED <<home, plan, answered, losses>>
          /\ pool' \in {"open", "closing", "gone"}
          /\ disposed' \subseteq Conn /\ lost' \subseteq Conn
          /\ queue' \in [Conn -> Seq(Statement)]
          /\ \A d \in Conn : queue'[d] = queue[d] /\ (d \in disposed => d \in disposed')
      BY <2>1 DEF work, StatementInv, StatementTypes
    <3>4. \A x \in {waiting[1]} : at[x] \in {"new", "acquiring"}
      BY <3>2
    <3> QED
      BY <1>4, <3>2, <3>3, <3>4
  <2> QED
    BY <2>2, <2>3
<1>6. ASSUME NEW x \in Lessee, AcquireTimeout(x)
      PROVE  StatementInv'
  <2>1. Refused({x}) /\ at[x] = "acquiring" /\ UNCHANGED <<work, pool, resources, losses>>
    BY <1>6 DEF AcquireTimeout
  <2>2. /\ UNCHANGED <<home, plan, answered, losses>>
        /\ pool' \in {"open", "closing", "gone"}
        /\ disposed' \subseteq Conn /\ lost' \subseteq Conn
        /\ queue' \in [Conn -> Seq(Statement)]
        /\ \A d \in Conn : queue'[d] = queue[d] /\ (d \in disposed => d \in disposed')
    BY <2>1 DEF work, resources, StatementInv, StatementTypes
  <2>3. \A y \in {x} : at[y] \in {"new", "acquiring"}
    BY <2>1
  <2> QED
    BY <1>4, <2>1, <2>2, <2>3
<1>7. CASE Destroyed
  <2>1. /\ Refused(ToSet(waiting)) /\ UNCHANGED <<work, losses>> /\ pool' = "gone"
        /\ disposed' = disposed \ Conn /\ lost' = lost \ Conn
        /\ queue' = [d \in Conn |-> IF d \in Conn THEN <<>> ELSE queue[d]]
    BY <1>7 DEF Destroyed, Emptied
  <2>2. \A x \in ToSet(waiting) : at[x] \in {"new", "acquiring"}
    BY DEF PoolInv, Queueing, ToSet
  <2>3. queue' = [d \in Conn |-> <<>>]
    BY <2>1
  <2>4. /\ UNCHANGED <<home, plan, answered, losses>>
        /\ pool' \in {"open", "closing", "gone"}
        /\ disposed' \subseteq Conn /\ lost' \subseteq Conn
        /\ queue' \in [Conn -> Seq(Statement)]
        /\ \A d \in Conn : queue'[d] = <<>>
    BY <2>1, <2>3 DEF work, StatementInv, StatementTypes
  <2> QED
    BY <1>4, <2>1, <2>2, <2>4
<1> QED
  BY <1>1, <1>2, <1>3, <1>5, <1>6, <1>7 DEF Tarn

-----------------------------------------------------------------------------
LEMMA UsesConn ==
  ASSUME PoolInv, NEW x \in Lessee, at[x] \in Active
  PROVE  Lease(x) \in Lessee /\ Uses(x) \in Conn
<1> USE RunnerAssumption
<1>1. CASE x \in Trx \/ home[x] = NoTrx
  <2>1. Lease(x) = x /\ holds[x] # NoConn
    BY <1>1 DEF Lease, PoolInv, Lending, Lessee
  <2> QED
    BY <2>1 DEF Uses, PoolInv, PoolTypes
<1>2. CASE ~(x \in Trx \/ home[x] = NoTrx)
  <2>1. Lease(x) = home[x] /\ home[x] \in Trx /\ at[home[x]] = "open"
    BY <1>2 DEF Lease, PoolInv, PoolTypes, Lending, Lessee
  <2>2. "open" \in Active /\ home[x] \in Lessee
    BY <2>1 DEF Active, Lessee
  <2>3. holds[home[x]] \in Conn
    BY <2>1, <2>2 DEF PoolInv, PoolTypes, Lending
  <2> QED
    BY <2>1, <2>2, <2>3 DEF Uses
<1> QED
  BY <1>1, <1>2

\* The first statement of c, x's, is answered, and x settles.
LEMMA AnswerSettles ==
  ASSUME PoolInv, PoolInv', StatementInv, NEW c \in Conn, queue[c] # <<>>,
         NEW x \in Lessee, x = Head(queue[c]).by, Consume(c),
         NEW result \in {"ok", "failed"}, Settles(x, result), at[x] \in Active \ {"open"},
         UNCHANGED <<pool, disposed, lost, home, plan, losses>>,
         answered' \in [Run -> Nat],
         \A r \in Run : /\ answered'[r] <= plan[r].length
                        /\ r # x => answered'[r] = answered[r]
  PROVE  StatementInv'
<1>1. /\ queue' \in [Conn -> Seq(Statement)] /\ Once'
      /\ \A d \in Conn, m \in Statement : Out(d, m)' => Out(d, m) /\ m.by # x
  BY Popped DEF StatementInv
<1>2. outcome' \in [Lessee -> {"none", "ok", "failed", "timeout", "cancelFailed"}]
  BY DEF Settles, StatementInv, StatementTypes
<1>3. StatementTypes'
  BY <1>1, <1>2 DEF StatementInv, StatementTypes
<1>4. \A d \in Conn, m \in Statement : Out(d, m)' => Out(d, m) /\ (m.by = x => Abandoned(d, x)')
  BY <1>1
<1>5. disposed \subseteq disposed' /\ Once' /\ UNCHANGED <<home, plan>>
  BY <1>1
<1> QED
  BY <1>3, <1>4, <1>5, SettlingStep

\* A query with statements left sends the next.
LEMMA SendsNextStatements ==
  ASSUME PoolInv, PoolInv', StatementInv, NEW c \in Conn, queue[c] # <<>>,
         NEW r \in Run, r = Head(queue[c]).by, at[r] = "awaiting", SendsNext(c, r),
         UNCHANGED <<pool, disposed, lost, home, plan, losses>>
  PROVE  StatementInv'
<1>1. /\ ~LastOne(r)
      /\ queue' = [queue EXCEPT ![c] = Sent(Tail(@), r)]
      /\ answered' = [answered EXCEPT ![r] = @ + 1]
      /\ UNCHANGED <<at, outcome, holds>>
  BY DEF SendsNext, fate
<1>2. r \in Lessee
  BY DEF Lessee
<1>3. /\ queue' \in [Conn -> Seq(Statement)] /\ Once'
      /\ \A d \in Conn, m \in Statement :
           Out(d, m)' => Out(d, m) \/ (d = c /\ m = [by |-> r, killer |-> Nobody])
  BY <1>1, <1>2, Resent DEF StatementInv
<1>4. Uses(r) = c
  BY HeadOut DEF Item
<1>5. Uses(r)' = c
  BY <1>1, <1>4 DEF Uses, Lease
<1>6. PICK label \in Active : label = "awaiting"
  BY DEF Active, InFlight
<1>7. at'[r] \in Active \ {"open"}
  BY <1>1, <1>6
<1>8. answered' \in [Run -> Nat]
  BY <1>1 DEF StatementInv, StatementTypes
<1>9. StatementTypes'
  BY <1>1, <1>3, <1>8 DEF StatementInv, StatementTypes
<1>10. Progress'
  <2> SUFFICES ASSUME NEW q \in Run
               PROVE  /\ answered'[q] <= plan[q].length
                      /\ at[q] \in {"new", "acquiring"} => answered'[q] = 0
                      /\ at[q] \in InFlight => answered'[q] < plan[q].length
                      /\ at[q] \in {"killing", "killed"} => plan[q].timeout = "cancel"
    BY <1>1 DEF Progress
  <2>1. CASE q = r
    <3>1. answered[q] \in Nat /\ plan[q].length \in Nat /\ answered'[q] = answered[q] + 1
      BY <1>1, <2>1 DEF StatementInv, StatementTypes, Plan
    <3>2. answered[q] < plan[q].length /\ answered[q] + 1 # plan[q].length
      BY <1>1, <2>1 DEF StatementInv, Progress, LastOne, InFlight
    <3> QED
      BY <2>1, <3>1, <3>2
  <2>2. CASE q # r
    <3>1. answered'[q] = answered[q]
      BY <1>1, <2>2 DEF StatementInv, StatementTypes
    <3> QED
      BY <3>1 DEF StatementInv, Progress
  <2> QED
    BY <2>1, <2>2
<1>11. ASSUME NEW d \in Conn, NEW m \in Statement, Out(d, m)'
       PROVE  Out(d, m) \/ Item(d, m)'
  BY <1>2, <1>3, <1>5, <1>7, <1>11, SentItem
<1>12. Passed(r, label)
  BY <1>1, <1>6, <1>11 DEF Passed
<1>13. \A q \in Run : at[q] # "new" => home'[q] = home[q] /\ plan'[q] = plan[q]
  OBVIOUS
<1>14. \A y \in Lessee : at[y] \in Active => holds'[y] = holds[y]
  BY <1>1
<1>15. at' = [at EXCEPT ![r] = label] /\ at[r] # "settled" /\ UNCHANGED outcome
  BY <1>1, <1>6 DEF PoolInv, PoolTypes
<1>16. Once'
  BY <1>3
<1> QED
  BY <1>2, <1>9, <1>10, <1>12, <1>13, <1>14, <1>15, <1>16, MovingStep

\* BEGIN is answered.
LEMMA OpensStatements ==
  ASSUME PoolInv, PoolInv', StatementInv, NEW c \in Conn, queue[c] # <<>>,
         NEW t \in Trx, t = Head(queue[c]).by, at[t] = "beginning",
         Consume(c), Goto(t, "open"),
         UNCHANGED <<pool, disposed, lost, home, plan, answered, losses>>
  PROVE  StatementInv'
<1>1. t \in Lessee /\ t \notin Run
  BY RunnerAssumption DEF Lessee
<1>2. PICK label \in Active : label = "open"
  BY DEF Active
<1>3. at' = [at EXCEPT ![t] = label] /\ at[t] # "settled" /\ UNCHANGED <<outcome, holds>>
  BY <1>2 DEF Goto
<1>4. /\ queue' \in [Conn -> Seq(Statement)] /\ Once'
      /\ \A d \in Conn, m \in Statement : Out(d, m)' => Out(d, m) /\ m.by # t
  BY Popped DEF StatementInv
<1>5. StatementTypes'
  BY <1>3, <1>4 DEF StatementInv, StatementTypes
<1>6. \A q \in Run : q \in Lessee /\ at'[q] = at[q]
  BY <1>1, <1>3 DEF PoolInv, PoolTypes, Lessee
<1>7. Progress'
  BY <1>6 DEF StatementInv, Progress
<1>8. Passed(t, label)
  BY <1>3, <1>4 DEF Passed
<1>9. \A q \in Run : at[q] # "new" => home'[q] = home[q] /\ plan'[q] = plan[q]
  OBVIOUS
<1>10. \A y \in Lessee : at[y] \in Active => holds'[y] = holds[y]
  BY <1>3
<1>11. Once' /\ UNCHANGED outcome
  BY <1>3, <1>4
<1> QED
  BY <1>1, <1>3, <1>5, <1>7, <1>8, <1>9, <1>10, <1>11, MovingStep

LEMMA NetworkStatements ==
  ASSUME PoolInv, PoolInv', StatementInv, Network
  PROVE  StatementInv'
<1> USE RunnerAssumption
<1>0. {"awaiting", "beginning", "committing"} \subseteq Active \ {"open"}
  BY DEF Active, InFlight
<1>1. ASSUME NEW c \in Conn, AnswerRun(c)
      PROVE  StatementInv'
  <2>1. PICK r \in Run : r = Head(queue[c]).by
    BY <1>1 DEF AnswerRun
  <2>2. /\ queue[c] # <<>> /\ at[r] = "awaiting" /\ r \in Lessee
        /\ SendsNext(c, r) \/ Succeeds(c, r) \/ Fails(c, r)
        /\ UNCHANGED <<pool, disposed, lost, home, plan, losses>>
    BY <1>1, <2>1 DEF AnswerRun, Lessee
  <2>3. CASE SendsNext(c, r)
    BY <2>1, <2>2, <2>3, SendsNextStatements
  <2>4. CASE Succeeds(c, r)
    <3>1. /\ Consume(c) /\ Settles(r, "ok") /\ LastOne(r)
          /\ answered' = [answered EXCEPT ![r] = @ + 1]
      BY <2>4 DEF Succeeds
    <3>2. answered' \in [Run -> Nat]
          /\ \A q \in Run : /\ answered'[q] <= plan[q].length
                            /\ q # r => answered'[q] = answered[q]
      <4>1. answered' \in [Run -> Nat] /\ answered'[r] = answered[r] + 1
            /\ \A q \in Run : q # r => answered'[q] = answered[q]
        BY <3>1 DEF StatementInv, StatementTypes
      <4>2. plan[r].length \in Nat /\ answered'[r] <= plan[r].length
        BY <3>1, <4>1 DEF LastOne, StatementInv, StatementTypes, Plan
      <4> QED
        BY <4>1, <4>2 DEF StatementInv, Progress
    <3> QED
      BY <1>0, <2>1, <2>2, <3>1, <3>2, AnswerSettles
  <2>5. CASE Fails(c, r)
    <3>1. Consume(c) /\ Settles(r, "failed") /\ UNCHANGED answered
      BY <2>5 DEF Fails
    <3>2. answered' \in [Run -> Nat]
          /\ \A q \in Run : /\ answered'[q] <= plan[q].length
                            /\ q # r => answered'[q] = answered[q]
      BY <3>1 DEF StatementInv, StatementTypes, Progress
    <3> QED
      BY <1>0, <2>1, <2>2, <3>1, <3>2, AnswerSettles
  <2> QED
    BY <2>2, <2>3, <2>4, <2>5
<1>2. ASSUME NEW c \in Conn, AnswerLate(c)
      PROVE  StatementInv'
  <2>1. /\ queue[c] # <<>> /\ Consume(c)
        /\ UNCHANGED <<pool, disposed, lost, losses>> /\ UNCHANGED <<fate, work>>
    BY <1>2 DEF AnswerLate, CanAnswer
  <2>2. /\ queue' \in [Conn -> Seq(Statement)] /\ Once'
        /\ \A d \in Conn, m \in Statement :
             Out(d, m)' => Out(d, m) /\ m.by # Head(queue[c]).by
    BY <2>1, Popped DEF StatementInv
  <2>3. StatementTypes'
    BY <2>1, <2>2 DEF StatementInv, StatementTypes, fate, work
  <2>4. \A d \in Conn, m \in Statement : Out(d, m)' => Out(d, m) /\ (d \in disposed => d \in disposed')
    BY <2>1, <2>2
  <2> QED
    BY <2>1, <2>2, <2>3, <2>4, StillStep
<1>3. ASSUME NEW c \in Conn, AnswerTrx(c)
      PROVE  StatementInv'
  <2>1. PICK t \in Trx : t = Head(queue[c]).by
    BY <1>3 DEF AnswerTrx
  <2>2. /\ queue[c] # <<>> /\ t \in Lessee
        /\ \/ at[t] = "beginning" /\ Consume(c) /\ Goto(t, "open")
           \/ /\ at[t] \in {"beginning", "committing"} /\ Consume(c)
              /\ Settles(t, "ok") \/ Settles(t, "failed")
        /\ UNCHANGED <<pool, disposed, lost, home, plan, answered, losses>>
    BY <1>3, <2>1 DEF AnswerTrx, Fails, Lessee
  <2>3. CASE at[t] = "beginning" /\ Consume(c) /\ Goto(t, "open")
    BY <2>1, <2>2, <2>3, OpensStatements
  <2>4. ASSUME NEW result \in {"ok", "failed"}, Consume(c), Settles(t, result),
               at[t] \in {"beginning", "committing"}
        PROVE  StatementInv'
    <3>1. answered' \in [Run -> Nat]
          /\ \A q \in Run : /\ answered'[q] <= plan[q].length
                            /\ q # t => answered'[q] = answered[q]
      BY <2>2 DEF StatementInv, StatementTypes, Progress
    <3>2. UNCHANGED <<pool, disposed, lost, home, plan, losses>>
      BY <2>2
    <3>3. at[t] \in Active \ {"open"}
      BY <1>0, <2>4
    <3> QED
      BY <2>1, <2>2, <2>4, <3>1, <3>2, <3>3, AnswerSettles
  <2> QED
    BY <2>2, <2>3, <2>4
<1>4. ASSUME NEW c \in Conn, Lose(c)
      PROVE  StatementInv'
  <2>1. /\ losses' = losses + 1 /\ lost' = lost \cup {c} /\ disposed' = disposed \cup {c}
        /\ UNCHANGED <<pool, queue>> /\ UNCHANGED <<fate, work>>
    BY <1>4 DEF Lose
  <2>2. StatementTypes' /\ Once'
    BY <2>1 DEF StatementInv, StatementTypes, Once, fate, work
  <2>3. \A d \in Conn, m \in Statement : Out(d, m)' => Out(d, m) /\ (d \in disposed => d \in disposed')
    BY <2>1 DEF Out
  <2> QED
    BY <2>1, <2>2, <2>3, StillStep
<1> QED
  BY <1>1, <1>2, <1>3, <1>4 DEF Network

-----------------------------------------------------------------------------
\* r stops waiting: it has cancelled its statement, or nobody gets its connection.
LEMMA LeavesStatements ==
  ASSUME PoolInv, PoolInv', StatementInv, NEW r \in Run, at[r] \in InFlight,
         NEW result \in {"timeout", "cancelFailed"}, Settles(r, result),
         UNCHANGED <<pool, lost, queue, home, plan, answered, losses>>,
         \/ Dispose(Uses(r))
         \/ plan[r].timeout = "cancel" /\ result = "timeout" /\ UNCHANGED disposed
  PROVE  StatementInv'
<1> USE RunnerAssumption
<1>1. r \in Lessee /\ at[r] \in Active \ {"open"}
  BY DEF Lessee, Active, InFlight
<1>2. Lease(r) \in Lessee /\ Uses(r) \in Conn
  BY <1>1, UsesConn
<1>3. \A y \in Lessee : holds'[y] = IF y = r THEN NoConn ELSE holds[y]
  BY <1>1 DEF Settles, PoolInv, PoolTypes
<1>4. outcome' \in [Lessee -> {"none", "ok", "failed", "timeout", "cancelFailed"}]
      /\ outcome'[r] = result
  BY <1>1 DEF Settles, StatementInv, StatementTypes
<1>5. disposed \subseteq disposed' /\ disposed' \subseteq Conn
  BY <1>2 DEF Dispose, StatementInv, StatementTypes
<1>6. StatementTypes'
  BY <1>4, <1>5 DEF StatementInv, StatementTypes
<1>7. Once' /\ \A c \in Conn, m \in Statement : Out(c, m)' => Out(c, m)
  BY DEF StatementInv, Once, Out
<1>8. ASSUME NEW c \in Conn, NEW m \in Statement, Out(c, m), m.by = r
      PROVE  Abandoned(c, r)'
  <2>1. CASE plan[r].timeout = "cancel" /\ result = "timeout" /\ UNCHANGED disposed
    BY <1>4, <2>1 DEF Abandoned
  <2>2. CASE Dispose(Uses(r))
    <3>1. Uses(r) = c
      <4>1. Item(c, m) /\ at[r] # "settled"
        BY <1>8 DEF StatementInv, Items, InFlight
      <4> QED
        BY <1>8, <4>1 DEF Item
    <3>2. c \in disposed'
      BY <2>2, <3>1 DEF Dispose
    <3>3. Lease(r)' = Lease(r)
      BY DEF Lease
    <3>4. ASSUME NEW y \in Lessee, holds'[y] = c
          PROVE  y = Lease(r)'
      <4>1. holds[y] = c /\ holds[Lease(r)] = c /\ c # NoConn
        BY <1>3, <3>1, <3>4 DEF Uses
      <4> QED
        BY <1>2, <3>3, <4>1 DEF PoolInv, Holding
    <3> QED
      BY <3>2, <3>4 DEF Abandoned
  <2> QED
    BY <2>1, <2>2
<1>9. \A c \in Conn, m \in Statement : Out(c, m)' => Out(c, m) /\ (m.by = r => Abandoned(c, r)')
  BY <1>7, <1>8
<1>10. \A q \in Run : answered'[q] <= plan[q].length /\ (q # r => answered'[q] = answered[q])
  BY DEF StatementInv, Progress
<1>11. Once' /\ UNCHANGED <<home, plan>>
  BY <1>7
<1> QED
  BY <1>1, <1>5, <1>6, <1>9, <1>10, <1>11, SettlingStep

\* r goes on with its cancellation.
LEMMA CancellingStatements ==
  ASSUME PoolInv, PoolInv', StatementInv, NEW r \in Run, at[r] \in InFlight,
         NEW label \in {"killing", "killed"}, Goto(r, label), plan[r].timeout = "cancel",
         UNCHANGED <<pool, disposed, lost, work, losses>>,
         queue' \in [Conn -> Seq(Statement)], Once',
         \A c \in Conn, m \in Statement : Out(c, m)' => Out(c, m) \/ Item(c, m)'
  PROVE  StatementInv'
<1>1. r \in Lessee /\ label \in Active /\ label \in InFlight /\ label \notin {"open", "new", "acquiring"}
  BY DEF Lessee, Active, InFlight
<1>2. at' = [at EXCEPT ![r] = label] /\ at[r] # "settled" /\ UNCHANGED <<outcome, holds>>
  BY DEF Goto, InFlight
<1>3. StatementTypes'
  BY <1>2 DEF StatementInv, StatementTypes, work
<1>4. \A q \in Run : at'[q] = IF q = r THEN label ELSE at[q]
  BY <1>2 DEF PoolInv, PoolTypes, Lessee
<1>5. UNCHANGED <<home, plan, answered>>
  BY DEF work
<1>6. Progress'
  BY <1>1, <1>4, <1>5 DEF StatementInv, Progress
<1>7. Passed(r, label)
  BY <1>1, <1>2 DEF Passed
<1>8. \A q \in Run : at[q] # "new" => home'[q] = home[q] /\ plan'[q] = plan[q]
  BY <1>5
<1>9. \A y \in Lessee : at[y] \in Active => holds'[y] = holds[y]
  BY <1>2
<1>10. UNCHANGED outcome
  BY <1>2
<1> QED
  BY <1>1, <1>2, <1>3, <1>6, <1>7, <1>8, <1>9, <1>10, MovingStep

\* KILL reaches the connection of r while r still holds it: the statement it
\* hits is one of r's own, or of r's transaction.
LEMMA KillStatements ==
  ASSUME PoolInv, PoolInv', StatementInv, NEW r \in Run, Kill(r)
  PROVE  StatementInv'
<1> USE RunnerAssumption
<1>1. /\ at[r] = "killing" /\ Goto(r, "killed")
      /\ UNCHANGED <<pool, disposed, lost, work, losses>>
  BY DEF Kill
<1>2. r \in Lessee /\ at[r] \in InFlight /\ at[r] \in Active /\ "killed" \in Active
  BY <1>1 DEF Lessee, Active, InFlight
<1>3. plan[r].timeout = "cancel"
  BY <1>1 DEF StatementInv, Progress
<1>4. PICK c \in Conn : c = Uses(r)
  BY <1>2, UsesConn
<1>5. CASE UNCHANGED queue
  <2>1. /\ queue' \in [Conn -> Seq(Statement)] /\ Once'
        /\ \A d \in Conn, m \in Statement : Out(d, m)' => Out(d, m) \/ Item(d, m)'
    BY <1>5 DEF StatementInv, StatementTypes, Once, Out
  <2> QED
    BY <1>1, <1>2, <1>3, <2>1, CancellingStatements
<1>6. CASE queue[c] # <<>> /\ queue' = [queue EXCEPT ![c][1].killer = r]
  <2>1. PICK q \in Seq(Statement) : q = queue[c] /\ q # <<>>
    BY <1>6 DEF StatementInv, StatementTypes
  <2>2. 1 \in DOMAIN q /\ q[1] \in Statement
    BY <2>1
  <2>3. PICK n \in Statement : n = [q[1] EXCEPT !.killer = r]
    <3>1. [q[1] EXCEPT !.killer = r] \in Statement
      BY <2>2 DEF Statement
    <3> QED
      BY <3>1
  <2>4. n.by = q[1].by /\ n.killer = r
    BY <2>2, <2>3 DEF Statement
  <2>5. PICK s \in Seq(Statement) : s = [q EXCEPT ![1] = n]
    <3>1. [q EXCEPT ![1] = n] \in Seq(Statement)
      BY <2>1, <2>2
    <3> QED
      BY <3>1
  <2>6. DOMAIN s = DOMAIN q /\ s[1] = n /\ \A i \in DOMAIN q : i # 1 => s[i] = q[i]
    BY <2>1, <2>2, <2>5
  <2>7. queue' = [queue EXCEPT ![c] = s]
    BY <1>6, <2>1, <2>3, <2>5
  <2>8. /\ queue' \in [Conn -> Seq(Statement)] /\ queue'[c] = s
        /\ \A d \in Conn : d # c => queue'[d] = queue[d]
    BY <2>7 DEF StatementInv, StatementTypes
  <2>9. \A d \in Conn : /\ DOMAIN queue'[d] = DOMAIN queue[d]
                        /\ \A i \in DOMAIN queue[d] : queue'[d][i].by = queue[d][i].by
    BY <2>1, <2>4, <2>6, <2>8
  <2>10. Once'
    BY <2>9 DEF StatementInv, Once
  <2>11. Item(c, n)'
    <3>1. Item(c, q[1])
      BY <2>1, <2>2 DEF StatementInv, Items, Out
    <3>2. PICK x \in Lessee : x = n.by
      BY DEF Statement
    <3>3. /\ at[x] \notin {"new", "acquiring", "open"}
          /\ IF at[x] = "settled" THEN Abandoned(c, x) ELSE Uses(x) = c
      BY <2>4, <3>1, <3>2 DEF Item
    <3>4. /\ \A y \in Lessee : at'[y] = IF y = r THEN "killed" ELSE at[y]
          /\ UNCHANGED <<home, plan, outcome, holds, disposed>>
      BY <1>1 DEF Goto, work, PoolInv, PoolTypes
    <3>5. at'[x] \notin {"new", "acquiring", "open"}
      BY <3>3, <3>4
    <3>6. ASSUME at'[x] = "settled"
          PROVE  Abandoned(c, x)'
      BY <3>3, <3>4, <3>6 DEF Abandoned, Lease
    <3>7. ASSUME at'[x] # "settled"
          PROVE  Uses(x)' = c /\ Lease(x)' = Lease(r)'
      <4>1. at[x] # "settled"
        BY <1>1, <3>4, <3>7
      <4>2. Uses(x) = c
        BY <3>3, <4>1
      <4>3. at[x] \in Active
        BY <3>3, <4>1 DEF PoolInv, PoolTypes, Stages
      <4>4. Lease(x) \in Lessee /\ Lease(r) \in Lessee
        BY <1>2, <4>3, UsesConn
      <4>5. holds[Lease(x)] = c /\ holds[Lease(r)] = c /\ c # NoConn
        BY <1>4, <4>2 DEF Uses
      <4>6. Lease(x) = Lease(r)
        BY <4>4, <4>5 DEF PoolInv, Holding
      <4> QED
        BY <3>4, <4>2, <4>6 DEF Uses, Lease
    <3>8. at'[r] \notin {"new", "acquiring"}
      BY <1>2, <3>4
    <3> QED
      BY <2>4, <3>2, <3>5, <3>6, <3>7, <3>8 DEF Item
  <2>12. ASSUME NEW d \in Conn, NEW m \in Statement, Out(d, m)'
         PROVE  Out(d, m) \/ Item(d, m)'
    <3>1. PICK i \in DOMAIN queue'[d] : queue'[d][i] = m
      BY <2>12 DEF Out
    <3>2. CASE d = c /\ i = 1
      <4>1. m = n
        BY <2>6, <2>8, <3>1, <3>2
      <4> QED
        BY <2>11, <3>2, <4>1
    <3>3. CASE ~(d = c /\ i = 1)
      <4>1. i \in DOMAIN queue[d] /\ queue[d][i] = m
        BY <2>1, <2>6, <2>8, <2>9, <3>1, <3>3
      <4> QED
        BY <4>1 DEF Out
    <3> QED
      BY <3>2, <3>3
  <2> QED
    BY <1>1, <1>2, <1>3, <2>8, <2>10, <2>12, CancellingStatements
<1> QED
  BY <1>4, <1>5, <1>6 DEF Kill

LEMMA TimeoutStatements ==
  ASSUME PoolInv, PoolInv', StatementInv, Timers \/ Cancellation
  PROVE  StatementInv'
<1>1. PICK r \in Run : \/ Timeout(r) \/ TimeoutCancels(r)
                       \/ Kill(r) \/ Cancelled(r) \/ CancelFails(r)
  BY DEF Timers, Cancellation
<1>2. CASE Timeout(r) \/ Cancelled(r) \/ CancelFails(r)
  <2>1. /\ at[r] \in InFlight
        /\ UNCHANGED <<pool, lost, queue, home, plan, answered, losses>>
    BY <1>2 DEF Timeout, Cancelled, CancelFails, work, InFlight
  <2>2. \/ Settles(r, "timeout") /\ Dispose(Uses(r))
        \/ Settles(r, "timeout") /\ at[r] = "killed" /\ UNCHANGED disposed
        \/ Settles(r, "cancelFailed") /\ Dispose(Uses(r))
    BY <1>2 DEF Timeout, Cancelled, CancelFails
  <2>3. at[r] = "killed" => plan[r].timeout = "cancel"
    BY DEF StatementInv, Progress
  <2> QED
    BY <2>1, <2>2, <2>3, LeavesStatements
<1>3. CASE TimeoutCancels(r)
  <2>1. /\ at[r] \in InFlight /\ Goto(r, "killing") /\ plan[r].timeout = "cancel"
        /\ UNCHANGED <<pool, disposed, lost, queue, work, losses>>
    BY <1>3 DEF TimeoutCancels, InFlight, resources
  <2>2. /\ queue' \in [Conn -> Seq(Statement)] /\ Once'
        /\ \A d \in Conn, m \in Statement : Out(d, m)' => Out(d, m) \/ Item(d, m)'
    BY <2>1 DEF StatementInv, StatementTypes, Once, Out
  <2> QED
    BY <2>1, <2>2, CancellingStatements
<1> QED
  BY <1>1, <1>2, <1>3, KillStatements

-----------------------------------------------------------------------------
LEMMA InitStatements == Init => StatementInv
<1> SUFFICES ASSUME Init
             PROVE  StatementInv
  OBVIOUS
<1> USE RunnerAssumption
<1>1. StatementTypes
  BY DEF Init, StatementTypes, Plan
<1>2. Progress
  BY DEF Init, Progress, InFlight, Lessee
<1>3. Once /\ Items
  BY DEF Init, Once, Items, Out
<1> QED
  BY <1>1, <1>2, <1>3 DEF StatementInv

\* The inductive invariant: every statement the server has not answered is one
\* somebody waits for on the connection he uses, or one whose query has
\* cancelled it or spoilt the connection.
THEOREM StatementsInductive == Spec => [](PoolInv /\ StatementInv)
<1>1. Init => PoolInv /\ StatementInv
  BY InitPool, InitStatements
<1>2. PoolInv /\ StatementInv /\ [Next]_vars => PoolInv' /\ StatementInv'
  <2> SUFFICES ASSUME PoolInv, StatementInv, [Next]_vars
               PROVE  PoolInv' /\ StatementInv'
    OBVIOUS
  <2>1. CASE UNCHANGED vars
    <3>1. PoolInv'
      BY <2>1 DEF vars, resources, fate, work, PoolInv, PoolTypes, Queueing, Holding,
                  Lending, Closed
    <3>2. UNCHANGED <<fate, work>> /\ UNCHANGED <<pool, disposed, lost, queue, losses>>
      BY <2>1 DEF vars, resources
    <3>3. StatementTypes' /\ Once'
      BY <3>2 DEF StatementInv, StatementTypes, Once, fate, work
    <3>4. \A d \in Conn, m \in Statement :
            Out(d, m)' => Out(d, m) /\ (d \in disposed => d \in disposed')
      BY <3>2 DEF Out
    <3> QED
      BY <3>1, <3>2, <3>3, <3>4, StillStep
  <2>2. CASE Next
    <3>1. PoolInv'
      BY <2>2, UserPreserves, TarnPreserves, NetworkPreserves, TimeoutsPreserve DEF Next
    <3> QED
      BY <2>2, <3>1, UserStatements, TarnStatements, NetworkStatements, TimeoutStatements
      DEF Next
  <2> QED
    BY <2>1, <2>2
<1> QED
  BY <1>1, <1>2, PTL DEF Spec

\* Every variable of the pool and the runner keeps its type, and a query never
\* counts more answers than it has statements.
THEOREM RunnerTyping == Spec => []TypeOK
<1>1. PoolInv /\ StatementInv => TypeOK
  BY DEF PoolInv, PoolTypes, Stages, Active, StatementInv, StatementTypes, Progress, TypeOK
<1> QED
  BY StatementsInductive, <1>1, PTL

\* When a query times out without being cancelled, or its cancellation fails,
\* __knex__disposed keeps its connection from everybody else: nobody waits
\* behind the statement it leaves.
THEOREM NobodyWaitsBehind == Spec => []NobodyBehindTimedOut
<1>1. PoolInv /\ StatementInv => NobodyBehindTimedOut
  <2> SUFFICES ASSUME PoolInv, StatementInv, NEW c \in Conn, NEW j \in DOMAIN queue[c],
                      NEW i \in 1 .. j - 1,
                      at[queue[c][i].by] = "settled", at[queue[c][j].by] # "settled",
                      Lease(queue[c][i].by) # Lease(queue[c][j].by)
               PROVE  /\ queue[c][i].by \in Run
                      /\ plan[queue[c][i].by].timeout = "cancel"
                      /\ outcome[queue[c][i].by] = "timeout"
    BY DEF NobodyBehindTimedOut
  <2>1. PICK q \in Seq(Statement) : q = queue[c]
    BY DEF StatementInv, StatementTypes
  <2>2. i \in DOMAIN q /\ j \in DOMAIN q
    BY <2>1
  <2>3. PICK m \in Statement, n \in Statement : m = queue[c][i] /\ n = queue[c][j]
    BY <2>1, <2>2
  <2>4. Item(c, m) /\ Item(c, n)
    BY <2>1, <2>2, <2>3 DEF StatementInv, Items, Out
  <2>5. Abandoned(c, m.by) /\ Uses(n.by) = c /\ at[n.by] \in Active
    BY <2>3, <2>4 DEF Item, Statement, PoolInv, PoolTypes, Stages
  <2>6. Lease(n.by) \in Lessee /\ holds[Lease(n.by)] = c
    BY <2>5, UsesConn DEF Uses, Statement
  <2> QED
    BY <2>3, <2>5, <2>6 DEF Abandoned
<1> QED
  BY StatementsInductive, <1>1, PTL

\* A cancelled query keeps its connection until KILL is answered, so KILL, which
\* names the connection only, hits no statement of a stranger.
THEOREM NoInnocentHit == Spec => []NoInnocentKilled
<1>1. PoolInv /\ StatementInv => NoInnocentKilled
  <2> SUFFICES ASSUME PoolInv, StatementInv, NEW c \in Conn, NEW i \in DOMAIN queue[c],
                      queue[c][i].killer # Nobody, at[queue[c][i].by] # "settled"
               PROVE  Lease(queue[c][i].killer) = Lease(queue[c][i].by)
    BY DEF NoInnocentKilled
  <2>1. PICK m \in Statement : m = queue[c][i]
    BY DEF StatementInv, StatementTypes
  <2>2. Item(c, m)
    BY <2>1 DEF StatementInv, Items, Out
  <2> QED
    BY <2>1, <2>2 DEF Item
<1> QED
  BY StatementsInductive, <1>1, PTL
==============================================================================
