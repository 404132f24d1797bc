--------------------------- MODULE MigratorProofs ---------------------------
(***************************************************************************)
(* The types of Migrator in every configuration; and, for any number of    *)
(* runners and migrations and any bounds, on a database whose migration    *)
(* tables exist and which nobody unlocks by force: mutual exclusion of the *)
(* runners, the return of the lock, and how far the record of the          *)
(* migrations can be from what they did.  Both conditions are needed: the  *)
(* race of table-creator.ts and forceFreeMigrationsLock can leave two lock *)
(* rows.                                                                   *)
(***************************************************************************)
EXTENDS Migrator, FiniteSetTheorems, WellFoundedInduction, TLAPS

-----------------------------------------------------------------------------
(* The lists of module Order exist and are what their names say.  An       *)
(* induction here is a minimal counterexample: LeastNatural is a set's     *)
(* least element, which takes no operator as a parameter.                  *)

Below == {p \in Nat \X Nat : p[1] < p[2]}

\* A set of naturals that is not empty has a least element.
LEMMA LeastNatural ==
  ASSUME NEW T \in SUBSET Nat, T # {}
  PROVE  \E x \in T : \A y \in T : x <= y
<1>1. IsWellFoundedOn(OpToRel(<, Nat), Nat)
  BY NatLessThanWellFounded, Zenon
<1>2. OpToRel(<, Nat) = Below
  BY Zenon DEF OpToRel, Below
<1>3. IsWellFoundedOn(Below, Nat)
  BY <1>1, <1>2, Zenon
<1>4. PICK x \in T : \A y \in T : ~ (<<y, x>> \in Below)
  BY <1>3, WFMin, Zenon
<1> HIDE <1>1, <1>2, <1>3
<1>5. \A a, b \in Nat : a < b => <<a, b>> \in Below
  BY DEF Below
<1>6. \A y \in T : ~(y < x)
  BY <1>4, <1>5
<1> QED
  BY <1>6

Sortable(S) == \E s \in [1 .. Cardinality(S) -> S] : Increasing(s)

\* A finite set of numbers can be sorted: take its least element, then the rest.
LEMMA FiniteSetsSort ==
  ASSUME NEW S \in SUBSET Nat, IsFiniteSet(S)
  PROVE  Sortable(S)
<1> DEFINE Bad == {n \in Nat : \E U \in SUBSET Nat : /\ IsFiniteSet(U)
                                                   /\ Cardinality(U) = n
                                                   /\ ~Sortable(U)}
<1> SUFFICES ASSUME Bad # {}
             PROVE  FALSE
  BY FS_CardinalityType
<1>1. PICK n \in Bad : \A m \in Bad : n <= m
  BY LeastNatural
<1>2. PICK U \in SUBSET Nat : IsFiniteSet(U) /\ Cardinality(U) = n /\ ~Sortable(U)
  OBVIOUS
<1>3. CASE U = {}
  <2>1. n = 0
    BY <1>2, <1>3, FS_EmptySet
  <2>2. [k \in 1 .. 0 |-> 0] \in [1 .. 0 -> U]
    OBVIOUS
  <2>3. Increasing([k \in 1 .. 0 |-> 0])
    BY DEF Increasing
  <2> QED
    BY <1>2, <2>1, <2>2, <2>3 DEF Sortable
<1>4. CASE U # {}
  <2>1. PICK u \in U : \A v \in U : u <= v
    BY <1>4, LeastNatural
  <2>2. /\ IsFiniteSet(U \ {u}) /\ Cardinality(U \ {u}) = n - 1
        /\ n - 1 \in Nat
    <3>1. n \in Nat /\ n # 0
      BY <1>2, <1>4, FS_EmptySet
    <3>2. IsFiniteSet(U \ {u}) /\ Cardinality(U \ {u}) = Cardinality(U) - 1
      BY <1>2, FS_RemoveElement
    <3> QED
      BY <1>2, <3>1, <3>2
  <2>3. n - 1 \notin Bad
    BY <1>1, <2>2
  <2>4. Sortable(U \ {u})
    BY <2>2, <2>3
  <2>5. PICK s \in [1 .. n - 1 -> U \ {u}] : Increasing(s)
    BY <2>2, <2>4 DEF Sortable
  <2> DEFINE t == [k \in 1 .. n |-> IF k = 1 THEN u ELSE s[k - 1]]
  <2>6. t \in [1 .. n -> U]
    OBVIOUS
  <2>7. ASSUME NEW i \in 1 .. n, NEW j \in 1 .. n, i < j
        PROVE  t[i] < t[j]
    <3>1. j - 1 \in 1 .. n - 1 /\ t[j] = s[j - 1] /\ s[j - 1] \in U \ {u}
      BY <2>7
    <3>2. CASE i = 1
      <4>1. t[i] = u /\ u <= t[j] /\ u # t[j] /\ u \in Nat /\ t[j] \in Nat
        BY <2>1, <3>1, <3>2
      <4> QED
        BY <4>1
    <3>3. CASE i # 1
      <4>1. i - 1 \in 1 .. n - 1 /\ t[i] = s[i - 1] /\ i - 1 < j - 1
        BY <2>7, <3>3
      <4> QED
        BY <2>5, <3>1, <4>1 DEF Increasing
    <3> QED
      BY <3>2, <3>3
  <2>8. Increasing(t)
    BY <2>7 DEF Increasing
  <2> QED
    BY <1>2, <2>6, <2>8 DEF Sortable
<1> QED
  BY <1>3, <1>4

\* Ascending lists every element once, in ascending order.
LEMMA AscendingLists ==
  ASSUME NEW S \in SUBSET Nat, IsFiniteSet(S)
  PROVE  /\ Cardinality(S) \in Nat
         /\ Ascending(S) \in [1 .. Cardinality(S) -> S]
         /\ Increasing(Ascending(S))
         /\ \A x \in S : \E i \in 1 .. Cardinality(S) : Ascending(S)[i] = x
<1> DEFINE n == Cardinality(S)
           s == Ascending(S)
<1>1. n \in Nat
  BY FS_CardinalityType
<1>2. s \in [1 .. n -> S] /\ Increasing(s)
  BY FiniteSetsSort DEF Sortable, Ascending
<1>3. s \in Injection(1 .. n, S)
  <2>1. \A i, j \in 1 .. n : i # j => s[i] # s[j]
    <3> SUFFICES ASSUME NEW i \in 1 .. n, NEW j \in 1 .. n, i # j
                 PROVE  s[i] # s[j]
      OBVIOUS
    <3> HIDE DEF n, s
    <3>1. s[i] \in Nat /\ s[j] \in Nat
      BY <1>1, <1>2
    <3>3. i < j \/ j < i
      BY <1>1
    <3>2. (i < j => s[i] < s[j]) /\ (j < i => s[j] < s[i])
      BY <1>2 DEF Increasing
    <3>4. i < j => s[i] # s[j]
      BY <3>1, <3>2
    <3>5. j < i => s[i] # s[j]
      BY <3>1, <3>2
    <3> QED
      BY <3>3, <3>4, <3>5
  <2> QED
    BY <1>2, <2>1 DEF Injection, IsInjective
<1>4. s \in Surjection(1 .. n, S)
  <2>1. IsFiniteSet(1 .. n) /\ Cardinality(1 .. n) = n
    BY <1>1, FS_Interval
  <2> QED
    BY <1>3, <2>1, FS_Injection
<1> QED
  BY <1>1, <1>2, <1>4 DEF Surjection

\* Positions and elements that are ordered alike.
LEMMA SameOrder ==
  ASSUME NEW i \in Nat, NEW j \in Nat, NEW k \in Nat, NEW l \in Nat,
         NEW a \in Nat, NEW b \in Nat,
         i < k => a < b, k < i => b < a, i = k => a = b,
         j < l => a < b, l < j => b < a, j = l => a = b
  PROVE  i < k <=> j < l
OBVIOUS

\* Two lists in ascending order with the same elements are the same list.
LEMMA SortedOnce ==
  ASSUME NEW m \in Nat, NEW n \in Nat, NEW s \in [1 .. m -> Nat], NEW t \in [1 .. n -> Nat],
         Increasing(s), Increasing(t),
         \A i \in 1 .. m : \E j \in 1 .. n : s[i] = t[j],
         \A j \in 1 .. n : \E i \in 1 .. m : s[i] = t[j]
  PROVE  m = n /\ s = t
<1>1. ASSUME NEW i \in 1 .. m, NEW k \in 1 .. m, NEW j \in 1 .. n, NEW l \in 1 .. n,
             s[i] = t[j], s[k] = t[l]
      PROVE  i < k <=> j < l
  <2>1. /\ i < k => s[i] < s[k]
        /\ k < i => s[k] < s[i]
    BY DEF Increasing
  <2>2. /\ j < l => t[j] < t[l]
        /\ l < j => t[l] < t[j]
    BY DEF Increasing
  <2>3. s[i] \in Nat /\ s[k] \in Nat
    OBVIOUS
  <2>4. (i = k => s[i] = s[k]) /\ (j = l => t[j] = t[l])
    OBVIOUS
  <2> DEFINE a == s[i]
             b == s[k]
  <2>5. /\ i < k => a < b
        /\ k < i => b < a
        /\ i = k => a = b
        /\ a \in Nat /\ b \in Nat
    BY <2>1, <2>3, <2>4
  <2>6. /\ j < l => a < b
        /\ l < j => b < a
        /\ j = l => a = b
    BY <1>1, <2>2, <2>4
  <2>7. i \in Nat /\ j \in Nat /\ k \in Nat /\ l \in Nat
    OBVIOUS
  <2> HIDE DEF a, b
  <2> QED
    BY <2>5, <2>6, <2>7, SameOrder
<1>2. \A i \in 1 .. m : \A j \in 1 .. n : s[i] = t[j] => i = j
  <2> DEFINE Bad == {i \in 1 .. m : \E j \in 1 .. n : s[i] = t[j] /\ i # j}
  <2> SUFFICES ASSUME Bad # {}
               PROVE  FALSE
    OBVIOUS
  <2>1. PICK i \in Bad : \A k \in Bad : i <= k
    <3>1. Bad \in SUBSET Nat
      OBVIOUS
    <3> HIDE DEF Bad
    <3> QED
      BY <3>1, LeastNatural
  <2>2. PICK j \in 1 .. n : s[i] = t[j] /\ i # j
    OBVIOUS
  <2>3. i \in 1 .. m
    OBVIOUS
  <2>4. \A k \in 1 .. m : \A l \in 1 .. n : k < i /\ s[k] = t[l] => k = l
    BY <2>1, <2>3
  <2> HIDE DEF Bad
  <2>5. CASE j < i
    <3>1. j \in 1 .. m
      BY <2>3, <2>5
    <3>2. PICK l \in 1 .. n : s[j] = t[l]
      BY <3>1
    <3>3. l = j
      BY <2>4, <2>5, <3>1, <3>2
    <3> QED
      BY <1>1, <2>2, <2>3, <2>5, <3>1, <3>2, <3>3
  <2>6. CASE i < j
    <3>1. i \in 1 .. n
      BY <2>3, <2>6
    <3>2. PICK k \in 1 .. m : s[k] = t[i]
      BY <3>1
    <3>3. k < i
      BY <1>1, <2>2, <2>3, <2>6, <3>1, <3>2
    <3> QED
      BY <2>4, <3>1, <3>2, <3>3
  <2> QED
    BY <2>2, <2>3, <2>5, <2>6
<1>3. 1 .. m = 1 .. n
  BY <1>2
<1>4. m = n
  BY <1>3
<1>5. \A i \in 1 .. m : s[i] = t[i]
  BY <1>2, <1>4
<1> QED
  BY <1>4, <1>5

\* A list in ascending order is the ascending list of its elements.
LEMMA AscendingOfSorted ==
  ASSUME NEW s \in Seq(Nat), Increasing(s)
  PROVE  /\ IsFiniteSet(ToSet(s)) /\ ToSet(s) \subseteq Nat
         /\ Ascending(ToSet(s)) = s
<1> DEFINE S == ToSet(s)
           n == Len(s)
<1>1. n \in Nat /\ s \in [1 .. n -> Nat] /\ S = {s[i] : i \in 1 .. n}
  BY DEF ToSet
<1>2. S \subseteq Nat
  BY <1>1
<1>3. s \in Surjection(1 .. n, S)
  BY <1>1 DEF Surjection
<1>4. IsFiniteSet(S)
  BY <1>1, <1>3, FS_Interval, FS_Surjection
<1> DEFINE t == Ascending(S)
<1>5. /\ Cardinality(S) \in Nat /\ t \in [1 .. Cardinality(S) -> S] /\ Increasing(t)
      /\ \A x \in S : \E i \in 1 .. Cardinality(S) : t[i] = x
  BY <1>2, <1>4, AscendingLists
<1> HIDE DEF t
<1>6. \A i \in 1 .. n : \E j \in 1 .. Cardinality(S) : s[i] = t[j]
  BY <1>1, <1>5
<1>7. \A j \in 1 .. Cardinality(S) : \E i \in 1 .. n : s[i] = t[j]
  BY <1>1, <1>5
<1>8. t \in [1 .. Cardinality(S) -> Nat]
  BY <1>2, <1>5
<1> HIDE DEF n, S
<1>9. s \in [1 .. n -> Nat]
  BY <1>1
<1>10. s = t
  BY <1>1, <1>5, <1>6, <1>7, <1>8, <1>9, SortedOnce
<1> QED
  BY <1>2, <1>4, <1>10 DEF t, S

\* What is selected from a list: the elements at the positions asked for, each
\* position once, in the order of the list.
LEMMA SelectedPart ==
  ASSUME NEW D, NEW s \in Seq(D), NEW I \in SUBSET DOMAIN s
  PROVE  /\ Selected(s, I) \in Seq(D) /\ Len(Selected(s, I)) = Cardinality(I)
         /\ Cardinality(I) \in Nat
         /\ \A i \in I : \E k \in 1 .. Cardinality(I) : Selected(s, I)[k] = s[i]
         /\ \A k \in 1 .. Cardinality(I) : \E i \in I : Selected(s, I)[k] = s[i]
         /\ \A k, l \in 1 .. Cardinality(I) : k < l =>
              \E i, j \in I : i < j /\ Selected(s, I)[k] = s[i] /\ Selected(s, I)[l] = s[j]
<1>1. DOMAIN s = 1 .. Len(s) /\ Len(s) \in Nat
  OBVIOUS
<1>2. IsFiniteSet(I) /\ I \subseteq Nat
  <2>1. I \in SUBSET (1 .. Len(s)) /\ IsFiniteSet(1 .. Len(s))
    BY <1>1, FS_Interval
  <2> QED
    BY <1>1, <2>1, FS_Subset
<1> DEFINE n == Cardinality(I)
           at == Ascending(I)
<1>3. /\ n \in Nat /\ at \in [1 .. n -> I] /\ Increasing(at)
      /\ \A i \in I : \E k \in 1 .. n : at[k] = i
  BY <1>2, AscendingLists
<1>4. Selected(s, I) = [k \in 1 .. n |-> s[at[k]]]
  BY <1>3 DEF Selected
<1> HIDE DEF at, n
<1>5. \A k \in 1 .. n : at[k] \in I /\ s[at[k]] \in D
  BY <1>1, <1>3
<1>6. Selected(s, I) \in [1 .. n -> D]
  BY <1>4, <1>5
<1>7. Selected(s, I) \in Seq(D) /\ Len(Selected(s, I)) = n
  BY <1>3, <1>6
<1>8. \A i \in I : \E k \in 1 .. n : Selected(s, I)[k] = s[i]
  BY <1>3, <1>4
<1>9. \A k \in 1 .. n : \E i \in I : Selected(s, I)[k] = s[i]
  BY <1>4, <1>5
<1>10. ASSUME NEW k \in 1 .. n, NEW l \in 1 .. n, k < l
       PROVE  \E i, j \in I : i < j /\ Selected(s, I)[k] = s[i] /\ Selected(s, I)[l] = s[j]
  BY <1>3, <1>4, <1>5, <1>10 DEF Increasing
<1> QED
  BY <1>3, <1>7, <1>8, <1>9, <1>10 DEF n

-----------------------------------------------------------------------------
(* Types *)

Labels == {"idle", "lock"} \cup Ensuring \cup Listing \cup Critical \cup Unlocking

Results == {"none", "done", "locked", "failed"}

\* What the database holds, and what each runner has in memory.
DatabaseTypes ==
  /\ tables \in SUBSET {"migrations", "lock"}
  /\ lockRows \in Seq({0, 1})
  /\ rows \in Seq(Row)
  /\ schema \in [Mig -> {"absent", "partial", "present"}]

RunnerTypes ==
  /\ held \in [Runner -> SUBSET Nat]
  /\ pending \in [Runner -> Seq(Row)]
  /\ pc \in [Runner -> Labels]
  /\ op \in [Runner -> Op \cup {NoOp}]
  /\ todo \in [Runner -> Seq(Mig)]
  /\ wrapped \in [Runner -> BOOLEAN]
  /\ batch \in [Runner -> Nat]
  /\ outcome \in [Runner -> Results]

BoundTypes == calls \in [Runner -> Nat] /\ fails \in Nat /\ losses \in Nat /\ crashes \in Nat

\* A migration that is about to be run or recorded is on the list.
Busy == \A r \in Runner : pc[r] \in {"run", "record"} => todo[r] # <<>>

TypeInv == DatabaseTypes /\ RunnerTypes /\ BoundTypes /\ Busy

-----------------------------------------------------------------------------
\* The latest batch exists where there are rows.
LEMMA LatestExists ==
  ASSUME NEW n \in Nat, n # 0, NEW b \in [1 .. n -> Nat]
  PROVE  \E i \in 1 .. n : \A j \in 1 .. n : b[j] <= b[i]
<1> DEFINE Top(m) == \E i \in 1 .. m : \A j \in 1 .. m : b[j] <= b[i]
           Bad == {m \in 1 .. n : ~Top(m)}
<1> SUFFICES ASSUME Bad # {}
             PROVE  FALSE
  <2>1. n \in 1 .. n
    OBVIOUS
  <2> HIDE DEF Top
  <2>2. Bad = {} => Top(n)
    BY <2>1
  <2> USE DEF Top
  <2> QED
    BY <2>2
<1>1. PICK m \in Bad : \A k \in Bad : m <= k
  <2>1. Bad \in SUBSET Nat
    OBVIOUS
  <2> HIDE DEF Bad
  <2> QED
    BY <2>1, LeastNatural
<1>2. m \in 1 .. n /\ ~Top(m)
  OBVIOUS
<1>3. m # 1
  <2>1. \A j \in 1 .. 1 : j = 1
    OBVIOUS
  <2>2. b[1] <= b[1] /\ 1 \in 1 .. 1
    OBVIOUS
  <2>3. Top(1)
    BY <2>1, <2>2
  <2> HIDE DEF Top
  <2> QED
    BY <1>2, <2>3
<1> HIDE DEF Top
<1>4. m - 1 \in 1 .. n /\ m - 1 \notin Bad
  <2>1. m - 1 \in 1 .. n
    BY <1>2, <1>3
  <2> HIDE DEF Bad
  <2> QED
    BY <1>1, <1>2, <2>1
<1>5. PICK i \in 1 .. m - 1 : \A j \in 1 .. m - 1 : b[j] <= b[i]
  BY <1>4 DEF Top
<1> HIDE DEF Bad
<1>6. /\ i \in 1 .. n /\ i \in 1 .. m /\ m \in 1 .. m /\ b[i] \in Nat /\ b[m] \in Nat
      /\ \A j \in 1 .. m : j = m \/ j \in 1 .. m - 1
      /\ \A j \in 1 .. m : b[j] \in Nat
  BY <1>2, <1>4, <1>5
<1>7. CASE b[m] <= b[i]
  <2>1. \A j \in 1 .. m : b[j] <= b[i]
    BY <1>5, <1>6, <1>7
  <2> QED
    BY <1>2, <1>6, <2>1 DEF Top
<1>8. CASE b[i] < b[m]
  <2>1. ASSUME NEW j \in 1 .. m
        PROVE  b[j] <= b[m]
    <3>1. CASE j = m
      BY <1>6, <3>1
    <3>2. CASE j \in 1 .. m - 1
      <4>1. b[j] <= b[i] /\ b[j] \in Nat /\ b[i] \in Nat /\ b[m] \in Nat
        BY <1>5, <1>6, <3>2
      <4> QED
        BY <1>8, <4>1
    <3> QED
      BY <1>6, <3>1, <3>2
  <2> QED
    BY <1>2, <1>6, <2>1 DEF Top
<1> QED
  BY <1>6, <1>7, <1>8

LEMMA LatestBatchIs ==
  ASSUME rows \in Seq(Row)
  PROVE  /\ LatestBatch \in Nat
         /\ rows = <<>> => LatestBatch = 0
         /\ \A i \in DOMAIN rows : rows[i].batch <= LatestBatch
         /\ rows # <<>> => \E i \in DOMAIN rows : LatestBatch = rows[i].batch
<1> DEFINE n == Len(rows)
           b == [i \in 1 .. n |-> rows[i].batch]
<1>1. n \in Nat /\ DOMAIN rows = 1 .. n /\ \A i \in 1 .. n : rows[i].batch \in Nat
  <2>1. n \in Nat /\ DOMAIN rows = 1 .. n /\ \A i \in 1 .. n : rows[i] \in Row
    OBVIOUS
  <2> QED
    BY <2>1 DEF Row
<1>2. CASE rows = <<>>
  BY <1>2 DEF LatestBatch
<1>3. CASE rows # <<>>
  <2>1. n # 0
    BY <1>3
  <2>2. b \in [1 .. n -> Nat]
    BY <1>1
  <2> HIDE DEF b
  <2>3. \E i \in 1 .. n : \A j \in 1 .. n : b[j] <= b[i]
    BY <1>1, <2>1, <2>2, LatestExists
  <2> USE DEF b
  <2>4. \E i \in DOMAIN rows : \A j \in DOMAIN rows : rows[j].batch <= rows[i].batch
    BY <1>1, <2>3
  <2> DEFINE top == CHOOSE i \in DOMAIN rows : \A j \in DOMAIN rows : rows[j].batch <= rows[i].batch
  <2>5. top \in DOMAIN rows /\ \A j \in DOMAIN rows : rows[j].batch <= rows[top].batch
    BY <2>4
  <2>6. LatestBatch = rows[top].batch
    BY <1>3 DEF LatestBatch
  <2> HIDE DEF top
  <2> QED
    BY <1>1, <1>3, <2>5, <2>6
<1> QED
  BY <1>2, <1>3

\* The list an operation picks consists of migrations.
LEMMA PickedTypes ==
  ASSUME rows \in Seq(Row), op \in [Runner -> Op \cup {NoOp}], NEW r \in Runner
  PROVE  Picked(r) \in Seq(Mig)
<1>1. /\ NewMigrations(r) \subseteq Mig /\ CompletedMigrations(r) \subseteq Mig
      /\ Mig \subseteq Nat /\ IsFiniteSet(Mig)
  BY MigratorAssumption DEF NewMigrations, CompletedMigrations
<1>2. \A S \in SUBSET Mig : Ascending(S) \in Seq(Mig)
  <2> SUFFICES ASSUME NEW S \in SUBSET Mig
               PROVE  Ascending(S) \in Seq(Mig)
    OBVIOUS
  <2>1. S \in SUBSET Nat /\ IsFiniteSet(S)
    BY <1>1, FS_Subset
  <2>2. Cardinality(S) \in Nat /\ Ascending(S) \in [1 .. Cardinality(S) -> S]
    BY <2>1, AscendingLists
  <2> QED
    BY <2>2
<1>3. \A s \in Seq(Mig) : FirstOf(s) \in Seq(Mig)
  BY DEF FirstOf
<1>4. \A s \in Seq(Mig) : Reverse(s) \in Seq(Mig)
  <2> SUFFICES ASSUME NEW s \in Seq(Mig)
               PROVE  Reverse(s) \in Seq(Mig)
    OBVIOUS
  <2>1. \A i \in 1 .. Len(s) : (Len(s) - i) + 1 \in 1 .. Len(s)
    OBVIOUS
  <2>2. Reverse(s) \in [1 .. Len(s) -> Mig]
    BY <2>1 DEF Reverse
  <2> QED
    BY <2>2
<1>5. op[r].name # Unnamed => <<op[r].name>> \in Seq(Mig)
  BY DEF Op, NoOp
<1> QED
  <2> DEFINE new == Ascending(NewMigrations(r))
             done == Ascending(CompletedMigrations(r))
  <2>1. /\ new \in Seq(Mig) /\ FirstOf(new) \in Seq(Mig)
        /\ Reverse(done) \in Seq(Mig) /\ LastOf(done) \in Seq(Mig)
        /\ <<>> \in Seq(Mig)
    BY <1>1, <1>2, <1>3, <1>4 DEF LastOf
  <2> QED
    BY <1>5, <2>1, Zenon DEF Picked

-----------------------------------------------------------------------------
\* The operation of r settles.
LEMMA FinishedTypes ==
  ASSUME RunnerTypes, Busy, NEW r \in Runner, NEW result \in Results, Finished(r, result)
  PROVE  RunnerTypes' /\ Busy'
<1>1. NoOp \in Op \cup {NoOp} /\ <<>> \in Seq(Mig) /\ <<>> \in Seq(Row) /\ {} \in SUBSET Nat
      /\ "idle" \in Labels /\ 0 \in Nat
  BY DEF Labels
<1>2. RunnerTypes'
  BY <1>1 DEF RunnerTypes, Finished, Goto
<1>3. Busy'
  BY DEF RunnerTypes, Busy, Finished, Goto
<1> QED
  BY <1>2, <1>3

\* r goes on to another statement and keeps what it has.
LEMMA GotoTypes ==
  ASSUME RunnerTypes, Busy, NEW r \in Runner, NEW label \in Labels, Goto(r, label),
         label \in {"run", "record"} => todo'[r] # <<>>,
         \A q \in Runner \ {r} : todo'[q] = todo[q],
         held' \in [Runner -> SUBSET Nat], pending' \in [Runner -> Seq(Row)],
         op' \in [Runner -> Op \cup {NoOp}], todo' \in [Runner -> Seq(Mig)],
         wrapped' \in [Runner -> BOOLEAN], batch' \in [Runner -> Nat],
         outcome' \in [Runner -> Results]
  PROVE  RunnerTypes' /\ Busy'
<1>1. pc' \in [Runner -> Labels]
  BY DEF RunnerTypes, Goto
<1>2. Busy'
  BY DEF RunnerTypes, Busy, Goto
<1> QED
  BY <1>1, <1>2 DEF RunnerTypes

\* The same, with nothing changed but the program counter.
LEMMA MoveTypes ==
  ASSUME RunnerTypes, Busy, NEW r \in Runner, NEW label \in Labels, Goto(r, label),
         label \in {"run", "record"} => todo[r] # <<>>,
         UNCHANGED <<trx, task, outcome>>
  PROVE  RunnerTypes' /\ Busy'
<1>1. UNCHANGED <<held, pending, op, todo, wrapped, batch, outcome>>
  BY DEF trx, task
<1> QED
  BY <1>1, GotoTypes DEF RunnerTypes

LEMMA LabelNames ==
  /\ {"idle", "lock", "hasTable", "createTable", "hasLock", "createLock", "peek", "recheck",
      "insertLock", "list", "lastBatch", "relist", "batch", "run", "record", "free",
      "cleanup", "unlock", "unlockDelete", "unlockInsert"} \subseteq Labels
BY DEF Labels, Ensuring, Listing, Critical, Unlocking

LEMMA AllRowsTypes ==
  ASSUME lockRows \in Seq({0, 1}), NEW v \in {0, 1}
  PROVE  AllRows(v) \in Seq({0, 1}) /\ Len(AllRows(v)) = Len(lockRows)
<1>1. AllRows(v) \in [1 .. Len(lockRows) -> {0, 1}] /\ Len(lockRows) \in Nat
  BY DEF AllRows
<1> QED
  BY <1>1

LEMMA SelectedTypes ==
  ASSUME NEW D, NEW s \in Seq(D), NEW I \in SUBSET DOMAIN s
  PROVE  Selected(s, I) \in Seq(D)
BY SelectedPart

LEMMA WithoutTypes ==
  ASSUME rows \in Seq(Row), NEW m
  PROVE  Without(m) \in Seq(Row)
BY SelectedTypes DEF Without

\* What is left of an interrupted migration.
LEMMA InterruptedTypes ==
  ASSUME DatabaseTypes, NEW r \in Runner, Interrupted(r)
  PROVE  schema' \in [Mig -> {"absent", "partial", "present"}]
BY DEF DatabaseTypes, Interrupted

-----------------------------------------------------------------------------
LEMMA EnsureTypes ==
  ASSUME TypeInv, NEW r \in Runner, Ensure(r)
  PROVE  TypeInv'
<1> USE LabelNames DEF TypeInv
<1>1. BoundTypes'
  BY DEF Ensure, HasTable, CreateMigrationTable, CreateLockTable, CreateTable, SelectLock,
         InsertLock, bounds, BoundTypes
<1>2. ASSUME NEW table \in {"migrations", "lock"}, NEW then \in {"hasLock", "peek"},
             CreateTable(r, table, then)
      PROVE  DatabaseTypes' /\ RunnerTypes' /\ Busy'
  <2>1. DatabaseTypes'
    BY <1>2 DEF CreateTable, DatabaseTypes
  <2>2. CASE table \in tables
    BY <1>2, <2>1, <2>2, FinishedTypes DEF CreateTable, Results
  <2>3. CASE table \notin tables
    BY <1>2, <2>1, <2>3, MoveTypes DEF CreateTable
  <2> QED
    BY <2>1, <2>2, <2>3
<1>3. CASE HasTable(r)
  <2>1. DatabaseTypes'
    BY <1>3 DEF HasTable, db, DatabaseTypes
  <2>2. PICK label \in {"hasLock", "createTable", "createLock", "peek"} : Goto(r, label)
    BY <1>3 DEF HasTable
  <2> QED
    BY <1>1, <1>3, <2>1, <2>2, MoveTypes DEF HasTable
<1>4. CASE CreateMigrationTable(r)
  BY <1>1, <1>2, <1>4 DEF CreateMigrationTable
<1>5. CASE CreateLockTable(r)
  BY <1>1, <1>2, <1>5 DEF CreateLockTable
<1>6. CASE SelectLock(r)
  <2>1. DatabaseTypes'
    BY <1>6 DEF SelectLock, db, DatabaseTypes
  <2>2. PICK label \in {"recheck", "insertLock", "list"} : Goto(r, label)
    BY <1>6 DEF SelectLock
  <2> QED
    BY <1>1, <1>6, <2>1, <2>2, MoveTypes DEF SelectLock
<1>7. CASE InsertLock(r)
  <2>1. DatabaseTypes'
    BY <1>7 DEF InsertLock, DatabaseTypes
  <2> QED
    BY <1>1, <1>7, <2>1, MoveTypes DEF InsertLock
<1> QED
  BY <1>3, <1>4, <1>5, <1>6, <1>7 DEF Ensure

LEMMA ListTypes ==
  ASSUME TypeInv, NEW r \in Runner, List(r) \/ LastBatch(r)
  PROVE  TypeInv'
<1> USE LabelNames DEF TypeInv
<1>1. DatabaseTypes' /\ BoundTypes'
  BY DEF List, LastBatch, db, bounds, DatabaseTypes, BoundTypes
<1>2. ASSUME NEW result \in {"failed", "done"}, Finished(r, result)
      PROVE  RunnerTypes' /\ Busy'
  BY <1>2, FinishedTypes DEF Results
<1>3. ASSUME List(r), ~(Corrupt(r) \/ NotFound(r)), op[r].kind # "list"
      PROVE  RunnerTypes' /\ Busy'
  <2>1. Picked(r) \in Seq(Mig) /\ TransactionForAll(r, Picked(r)) \in BOOLEAN
    BY PickedTypes DEF DatabaseTypes, RunnerTypes, TransactionForAll
  <2>2. PICK label \in {"lastBatch", "lock"} : Goto(r, label)
    BY <1>3 DEF List
  <2>3. /\ todo' = [todo EXCEPT ![r] = Picked(r)]
        /\ wrapped' = [wrapped EXCEPT ![r] = TransactionForAll(r, Picked(r))]
        /\ UNCHANGED <<held, pending, op, batch, outcome>>
    BY <1>3 DEF List, trx
  <2>4. /\ todo' \in [Runner -> Seq(Mig)] /\ wrapped' \in [Runner -> BOOLEAN]
        /\ \A q \in Runner \ {r} : todo'[q] = todo[q]
    BY <2>1, <2>3 DEF RunnerTypes
  <2> QED
    BY <2>2, <2>3, <2>4, GotoTypes DEF RunnerTypes
<1>4. CASE LastBatch(r)
  <2> DEFINE last == Reverse(Selected(rows, {i \in DOMAIN rows : rows[i].batch = LatestBatch}))
             names == [i \in DOMAIN last |-> last[i].name]
  <2>1. Selected(rows, {i \in DOMAIN rows : rows[i].batch = LatestBatch}) \in Seq(Row)
    BY SelectedTypes DEF DatabaseTypes
  <2>2. \A s \in Seq(Row) : Reverse(s) \in Seq(Row)
    <3> SUFFICES ASSUME NEW s \in Seq(Row)
                 PROVE  Reverse(s) \in Seq(Row)
      OBVIOUS
    <3>1. \A i \in 1 .. Len(s) : (Len(s) - i) + 1 \in 1 .. Len(s)
      OBVIOUS
    <3>2. Reverse(s) \in [1 .. Len(s) -> Row]
      BY <3>1 DEF Reverse
    <3> QED
      BY <3>2
  <2>3. last \in Seq(Row)
    BY <2>1, <2>2
  <2>4. todo' = [todo EXCEPT ![r] = names]
    BY <1>4 DEF LastBatch
  <2> HIDE DEF last
  <2>5. DOMAIN last = 1 .. Len(last) /\ \A i \in DOMAIN last : last[i] \in Row
    BY <2>3
  <2>6. names \in [1 .. Len(last) -> Mig] /\ Len(last) \in Nat
    BY <2>3, <2>5 DEF Row
  <2>7. names \in Seq(Mig)
    BY <2>6
  <2> HIDE DEF names
  <2>8. todo' \in [Runner -> Seq(Mig)] /\ \A q \in Runner \ {r} : todo'[q] = todo[q]
    BY <2>4, <2>7 DEF RunnerTypes
  <2>9. Goto(r, "lock") /\ UNCHANGED <<held, pending, op, wrapped, batch, outcome>>
    BY <1>4 DEF LastBatch, trx
  <2>10. RunnerTypes' /\ Busy'
    BY <2>8, <2>9, GotoTypes DEF RunnerTypes
  <2> QED
    BY <1>1, <2>10
<1>5. CASE List(r)
  <2>1. CASE Corrupt(r) \/ NotFound(r) \/ op[r].kind = "list"
    BY <1>1, <1>2, <1>5, <2>1 DEF List
  <2>2. CASE ~(Corrupt(r) \/ NotFound(r) \/ op[r].kind = "list")
    BY <1>1, <1>3, <1>5, <2>2
  <2> QED
    BY <2>1, <2>2
<1> QED
  BY <1>4, <1>5

\* From the lock to the last migration.
LEMMA BatchTypes ==
  ASSUME TypeInv, NEW r \in Runner,
         Lock(r) \/ Relist(r) \/ ReadBatch(r) \/ Run(r) \/ Record(r)
  PROVE  TypeInv'
<1> USE LabelNames DEF TypeInv
<1>1. BoundTypes'
  BY DEF Lock, Relist, ReadBatch, Run, Record, bounds, BoundTypes
<1>2. CASE Lock(r)
  <2>1. lockRows' \in Seq({0, 1})
    BY <1>2, AllRowsTypes DEF Lock, DatabaseTypes
  <2>2. DatabaseTypes'
    BY <1>2, <2>1 DEF Lock, DatabaseTypes
  <2>3. CASE Cardinality(Unlocked) # 1
    BY <1>1, <1>2, <2>2, <2>3, FinishedTypes DEF Lock, Results
  <2>4. CASE Cardinality(Unlocked) = 1
    <3>1. Unlocked \in SUBSET Nat
      BY DEF Unlocked, DatabaseTypes
    <3>2. held' \in [Runner -> SUBSET Nat]
      BY <1>2, <2>4, <3>1 DEF Lock, RunnerTypes
    <3>3. PICK label \in {"relist", "batch"} : Goto(r, label)
      BY <1>2, <2>4 DEF Lock
    <3>4. UNCHANGED <<pending, op, todo, wrapped, batch, outcome>>
      BY <1>2, <2>4 DEF Lock, task
    <3>5. RunnerTypes' /\ Busy'
      BY <3>2, <3>3, <3>4, GotoTypes DEF RunnerTypes
    <3> QED
      BY <1>1, <2>2, <3>5
  <2> QED
    BY <2>3, <2>4
<1>3. CASE Relist(r)
  <2>1. DatabaseTypes'
    BY <1>3 DEF Relist, db, DatabaseTypes
  <2> DEFINE rest == Selected(todo[r], {i \in DOMAIN todo[r] : todo[r][i] \notin Completed})
  <2>2. rest \in Seq(Mig)
    BY SelectedTypes DEF RunnerTypes
  <2>3. todo' = [todo EXCEPT ![r] = rest]
    BY <1>3 DEF Relist
  <2> HIDE DEF rest
  <2>4. todo' \in [Runner -> Seq(Mig)] /\ \A q \in Runner \ {r} : todo'[q] = todo[q]
    BY <2>2, <2>3 DEF RunnerTypes
  <2>5. Goto(r, "batch") /\ UNCHANGED <<held, pending, op, wrapped, batch, outcome>>
    BY <1>3 DEF Relist, trx
  <2>6. RunnerTypes' /\ Busy'
    BY <2>4, <2>5, GotoTypes DEF RunnerTypes
  <2> QED
    BY <1>1, <2>1, <2>6
<1>4. CASE ReadBatch(r)
  <2>1. DatabaseTypes'
    BY <1>4 DEF ReadBatch, db, DatabaseTypes
  <2>2. BatchNumber(r) \in Nat
    <3>1. LatestBatch \in Nat
      BY LatestBatchIs DEF DatabaseTypes
    <3> QED
      BY <3>1 DEF BatchNumber
  <2>3. batch' \in [Runner -> Nat]
    BY <1>4, <2>2 DEF ReadBatch, RunnerTypes
  <2>4. PICK label \in {"run", "free", "cleanup"} :
          Goto(r, label) /\ (label = "run" => todo[r] # <<>>)
    BY <1>4 DEF ReadBatch, Proceed
  <2>5. UNCHANGED <<held, pending, op, todo, wrapped, outcome>>
    BY <1>4 DEF ReadBatch, trx
  <2>6. RunnerTypes' /\ Busy'
    BY <2>3, <2>4, <2>5, GotoTypes DEF RunnerTypes
  <2> QED
    BY <1>1, <2>1, <2>6
<1>5. CASE Run(r)
  <2>1. DatabaseTypes'
    BY <1>5 DEF Run, DatabaseTypes
  <2>2. todo[r] # <<>>
    BY <1>5 DEF Run, Busy
  <2> QED
    BY <1>1, <1>5, <2>1, <2>2, MoveTypes DEF Run
<1>6. CASE Record(r)
  <2> DEFINE m == Head(todo[r])
             row == [name |-> m, batch |-> batch[r]]
  <2>1. todo[r] # <<>> /\ todo[r] \in Seq(Mig)
    BY <1>6 DEF Record, Busy, RunnerTypes
  <2>2. m \in Mig /\ Tail(todo[r]) \in Seq(Mig)
    BY <2>1
  <2>3. row \in Row
    BY <2>2 DEF Row, RunnerTypes
  <2>4. DatabaseTypes'
    <3>1. Append(rows, row) \in Seq(Row) /\ Without(m) \in Seq(Row)
      BY <2>3, WithoutTypes DEF DatabaseTypes
    <3>2. rows' = rows \/ rows' = Append(rows, row) \/ rows' = Without(m)
      BY <1>6 DEF Record
    <3> QED
      BY <1>6, <3>1, <3>2 DEF Record, DatabaseTypes
  <2>5. pending' \in [Runner -> Seq(Row)]
    <3>1. Append(pending[r], row) \in Seq(Row)
      BY <2>3 DEF RunnerTypes
    <3>2. pending' = pending \/ pending' = [pending EXCEPT ![r] = Append(pending[r], row)]
      BY <1>6 DEF Record
    <3> QED
      BY <3>1, <3>2 DEF RunnerTypes
  <2>6. todo' = [todo EXCEPT ![r] = Tail(todo[r])]
    BY <1>6 DEF Record
  <2>7. todo' \in [Runner -> Seq(Mig)] /\ todo'[r] = Tail(todo[r])
        /\ \A q \in Runner \ {r} : todo'[q] = todo[q]
    BY <2>2, <2>6 DEF RunnerTypes
  <2>8. PICK label \in {"run", "free"} : Goto(r, label) /\ (label = "run" => todo'[r] # <<>>)
    BY <1>6, <2>7 DEF Record, Proceed
  <2>9. UNCHANGED <<held, op, wrapped, batch, outcome>>
    BY <1>6 DEF Record
  <2>10. RunnerTypes' /\ Busy'
    BY <2>5, <2>7, <2>8, <2>9, GotoTypes DEF RunnerTypes
  <2> QED
    BY <1>1, <2>4, <2>10
<1> QED
  BY <1>2, <1>3, <1>4, <1>5, <1>6

\* The ends of a batch, and the unlock.
LEMMA EndTypes ==
  ASSUME TypeInv, NEW r \in Runner,
         FreeLock(r) \/ CommitBatch(r) \/ CleanUp(r) \/ ForceFree(r)
  PROVE  TypeInv'
<1> USE LabelNames DEF TypeInv
<1>1. BoundTypes'
  BY DEF FreeLock, CommitBatch, CleanUp, ForceFree, Unlock, UnlockDelete, UnlockInsert,
         bounds, BoundTypes
<1>2. AllRows(0) \in Seq({0, 1}) /\ Append(lockRows, 0) \in Seq({0, 1}) /\ <<>> \in Seq({0, 1})
  BY AllRowsTypes DEF DatabaseTypes
<1>3. CASE FreeLock(r) \/ CleanUp(r)
  <2>1. DatabaseTypes'
    BY <1>2, <1>3 DEF FreeLock, CleanUp, DatabaseTypes
  <2> QED
    BY <1>1, <1>3, <2>1, FinishedTypes DEF FreeLock, CleanUp, Results
<1>4. CASE CommitBatch(r)
  <2>1. rows' \in Seq(Row)
    <3>1. pending[r] \in Seq(Row)
      BY DEF RunnerTypes
    <3> QED
      BY <1>4, <3>1 DEF CommitBatch, DatabaseTypes
  <2>2. schema' \in [Mig -> {"absent", "partial", "present"}]
    BY <1>4 DEF CommitBatch, DatabaseTypes
  <2>3. DatabaseTypes'
    BY <1>2, <1>4, <2>1, <2>2 DEF CommitBatch, DatabaseTypes
  <2> QED
    BY <1>1, <1>4, <2>3, FinishedTypes DEF CommitBatch, Results
<1>5. CASE ForceFree(r)
  <2>1. DatabaseTypes'
    BY <1>2, <1>5 DEF ForceFree, Unlock, UnlockDelete, UnlockInsert, db, DatabaseTypes
  <2>2. \/ Goto(r, "unlockDelete") /\ UNCHANGED <<trx, task, outcome>>
        \/ Goto(r, "unlockInsert") /\ UNCHANGED <<trx, task, outcome>>
        \/ Finished(r, "done")
    BY <1>5 DEF ForceFree, Unlock, UnlockDelete, UnlockInsert
  <2> QED
    BY <1>1, <2>1, <2>2, MoveTypes, FinishedTypes DEF Results
<1> QED
  BY <1>3, <1>4, <1>5

LEMMA FaultTypes ==
  ASSUME TypeInv, NEW r \in Runner, Fault(r)
  PROVE  TypeInv'
<1> USE LabelNames DEF TypeInv
<1>1. CASE LockFails(r)
  <2>1. lockRows' \in Seq({0, 1})
    BY <1>1, AllRowsTypes DEF LockFails, DatabaseTypes
  <2> QED
    BY <1>1, <2>1, FinishedTypes DEF LockFails, DatabaseTypes, BoundTypes, Results
<1>2. CASE CleanUpFails(r)
  BY <1>2, FinishedTypes DEF CleanUpFails, db, DatabaseTypes, BoundTypes, Results
<1>3. CASE Fail(r)
  <2>1. DatabaseTypes' /\ BoundTypes'
    BY <1>3, InterruptedTypes DEF Fail, DatabaseTypes, BoundTypes
  <2>2. \/ Goto(r, "cleanup") /\ UNCHANGED <<trx, task, outcome>>
        \/ Finished(r, "failed")
    BY <1>3 DEF Fail
  <2> QED
    BY <2>1, <2>2, MoveTypes, FinishedTypes DEF Results
<1>4. CASE Crash(r)
  <2>1. DatabaseTypes' /\ BoundTypes'
    BY <1>4, InterruptedTypes DEF Crash, DatabaseTypes, BoundTypes
  <2> QED
    BY <1>4, <2>1, FinishedTypes DEF Crash, Results
<1> QED
  BY <1>1, <1>2, <1>3, <1>4 DEF Fault

LEMMA StartTypes ==
  ASSUME TypeInv, NEW r \in Runner, Start(r)
  PROVE  TypeInv'
<1> USE LabelNames DEF TypeInv
<1>1. DatabaseTypes' /\ BoundTypes'
  BY DEF Start, db, DatabaseTypes, BoundTypes
<1>2. PICK o \in Op, label \in {"hasTable", "unlock"} :
        op' = [op EXCEPT ![r] = o] /\ Goto(r, label)
  BY MigratorAssumption DEF Start
<1>3. op' \in [Runner -> Op \cup {NoOp}]
  BY <1>2 DEF RunnerTypes
<1>4. UNCHANGED <<held, pending, todo, wrapped, batch>>
      /\ outcome' \in [Runner -> Results]
  BY DEF Start, trx, RunnerTypes, Results
<1>5. RunnerTypes' /\ Busy'
  BY <1>2, <1>3, <1>4, GotoTypes DEF RunnerTypes
<1> QED
  BY <1>1, <1>5

LEMMA InitTypes ==
  ASSUME Init
  PROVE  TypeInv
<1>1. DatabaseTypes
  <2>1. <<>> \in Seq({0, 1}) /\ <<0>> \in Seq({0, 1}) /\ <<>> \in Seq(Row)
    OBVIOUS
  <2>2. lockRows \in Seq({0, 1}) /\ rows \in Seq(Row)
    BY <2>1 DEF Init
  <2>3. tables \in SUBSET {"migrations", "lock"}
    BY DEF Init
  <2> QED
    BY <2>2, <2>3 DEF Init, DatabaseTypes
<1>2. RunnerTypes
  BY LabelNames DEF Init, RunnerTypes, Results
<1>3. BoundTypes /\ Busy
  BY DEF Init, BoundTypes, Busy
<1> QED
  BY <1>1, <1>2, <1>3 DEF TypeInv

LEMMA NextTypes ==
  ASSUME TypeInv, [Next]_vars
  PROVE  TypeInv'
<1>1. CASE UNCHANGED vars
  BY <1>1 DEF vars, db, trx, task, bounds, TypeInv, DatabaseTypes, RunnerTypes, BoundTypes, Busy
<1>2. CASE Next
  BY <1>2, StartTypes, EnsureTypes, ListTypes, BatchTypes, EndTypes, FaultTypes
     DEF Next, Step, RunBatch
<1> QED
  BY <1>1, <1>2

\* The runners, whatever they run and however they fail, keep to the types: a
\* migration to run is on the list, batch numbers are numbers, lock rows are 0 or 1.
THEOREM Typing == Spec => []TypeOK
<1>1. Init => TypeInv
  BY InitTypes
<1>2. TypeInv /\ [Next]_vars => TypeInv'
  BY NextTypes
<1>3. TypeInv => TypeOK
  BY DEF TypeInv, TypeOK, DatabaseTypes, RunnerTypes, BoundTypes, Labels, Results
<1> QED
  BY <1>1, <1>2, <1>3, PTL DEF Spec

-----------------------------------------------------------------------------
\* The lock table with its single row.
Free  == <<0>>
Taken == <<1>>

LockTypes ==
  /\ pc \in [Runner -> Labels]
  /\ wrapped \in [Runner -> BOOLEAN]
  /\ held \in [Runner -> SUBSET Nat]
  /\ op \in [Runner -> Op \cup {NoOp}]
  /\ losses \in Nat /\ crashes \in Nat

\* Nobody is about to add or delete a lock row.
Settled == \A r \in Runner :
  pc[r] \notin {"recheck", "insertLock"} \cup Unlocking /\ op[r].kind # "unlock"

\* The lock row as the runners in their critical sections have set it: not yet
\* visible in a wrapping transaction, committed without one.
Holders == \A r \in Runner :
  /\ held[r] # {} => wrapped[r] /\ pc[r] \in Critical /\ lockRows = Free
  /\ pc[r] \in Critical => IF wrapped[r] THEN held[r] # {} ELSE lockRows = Taken

\* A committed lock has a holder, or something happened to it.
Stranded ==
  lockRows = Taken =>
    \/ \E r \in Runner : pc[r] \in Critical /\ ~wrapped[r]
    \/ crashes + losses > 0

LockInv ==
  /\ LockTypes
  /\ lockRows \in {Free, Taken}
  /\ Settled /\ Holders /\ Stranded /\ MutualExclusion

-----------------------------------------------------------------------------
USE DEF Free, Taken

\* A lock table with one row: which of its rows an UPDATE finds unlocked, and
\* what is left when all its rows are set.
LEMMA SingleRow ==
  ASSUME lockRows \in {Free, Taken}
  PROVE  /\ Cardinality(Unlocked) = 1 => lockRows = Free /\ Unlocked = {1}
         /\ \A v \in {0, 1} : AllRows(v) = <<v>>
         /\ lockRows # <<>>
<1>1. lockRows = Free => Unlocked = {1}
  BY DEF Unlocked
<1>2. lockRows = Taken => Unlocked = {}
  BY DEF Unlocked
<1>3. Cardinality({}) = 0
  BY FS_EmptySet
<1>4. \A v \in {0, 1} : AllRows(v) = <<v>>
  BY DEF AllRows
<1> QED
  BY <1>1, <1>2, <1>3, <1>4

\* Where two counters that never decrease are zero, they have been zero.
LEMMA CountersGrow ==
  ASSUME NEW a \in Nat, NEW b \in Nat, NEW c \in Nat, NEW d \in Nat,
         c >= a, d >= b, ~(c + d > 0)
  PROVE  ~(b + a > 0)
OBVIOUS

\* A step of r that neither enters nor leaves its critical section.
LEMMA StayStep ==
  ASSUME LockInv, NEW r \in Runner, NEW label, NEW w \in BOOLEAN,
         NEW o \in Op \cup {NoOp}, o.kind # "unlock",
         label \in Labels \ ({"recheck", "insertLock"} \cup Unlocking),
         label \in Critical <=> pc[r] \in Critical,
         pc[r] \in Critical => w = wrapped[r],
         pc' = [pc EXCEPT ![r] = label], wrapped' = [wrapped EXCEPT ![r] = w],
         op' = [op EXCEPT ![r] = o],
         UNCHANGED <<held, lockRows, losses, crashes>>
  PROVE  LockInv'
<1>1. LockTypes' /\ lockRows' \in {Free, Taken}
  BY DEF LockInv, LockTypes
<1>2. Settled'
  BY DEF LockInv, LockTypes, Settled
<1>3. \A q \in Runner : /\ pc'[q] \in Critical <=> pc[q] \in Critical
                        /\ pc[q] \in Critical => wrapped'[q] = wrapped[q]
  BY DEF LockInv, LockTypes
<1>4. Holders'
  BY <1>3 DEF LockInv, LockTypes, Holders
<1>5. Stranded'
  BY <1>3 DEF LockInv, Stranded
<1>6. MutualExclusion'
  BY <1>3 DEF LockInv, MutualExclusion
<1> QED
  BY <1>1, <1>2, <1>4, <1>5, <1>6 DEF LockInv

\* A step in which r's operation settles, and the lock row is set to v.
LEMMA LeaveStep ==
  ASSUME LockInv, NEW r \in Runner, NEW result, NEW v \in {0, 1},
         Finished(r, result), lockRows' = <<v>>,
         losses' \in Nat, crashes' \in Nat, losses' >= losses, crashes' >= crashes,
         \A q \in Runner \ {r} : pc[q] \in Critical => lockRows' = lockRows,
         v = 1 => \/ lockRows = Taken /\ (pc[r] \notin Critical \/ wrapped[r])
                  \/ losses' + crashes' > 0
  PROVE  LockInv'
<1>0. losses \in Nat /\ crashes \in Nat
  BY DEF LockInv, LockTypes
<1>1. /\ pc' = [pc EXCEPT ![r] = "idle"]
      /\ wrapped' = [wrapped EXCEPT ![r] = FALSE]
      /\ held' = [held EXCEPT ![r] = {}]
      /\ op' = [op EXCEPT ![r] = NoOp]
  BY DEF Finished, Goto
<1>2. LockTypes' /\ lockRows' \in {Free, Taken}
  BY <1>1 DEF LockInv, LockTypes, Labels
<1>3. /\ pc'[r] = "idle" /\ held'[r] = {} /\ op'[r] = NoOp
      /\ \A q \in Runner \ {r} : pc'[q] = pc[q] /\ wrapped'[q] = wrapped[q]
                                 /\ held'[q] = held[q] /\ op'[q] = op[q]
  BY <1>1 DEF LockInv, LockTypes
<1>4. Settled'
  BY <1>3 DEF LockInv, Settled, NoOp, Unlocking
<1>5. "idle" \notin Critical
  BY DEF Critical
<1>6. Holders'
  <2>1. \A q \in Runner \ {r} : held[q] # {} => pc[q] \in Critical
    BY DEF LockInv, Holders
  <2> QED
    BY <1>3, <1>5, <2>1 DEF LockInv, Holders
<1>7. Stranded'
  <2> SUFFICES ASSUME v = 1, ~(losses' + crashes' > 0)
                PROVE  \E q \in Runner : pc'[q] \in Critical /\ ~wrapped'[q]
    BY <1>2 DEF Stranded, LockTypes
  <2>1. lockRows = Taken /\ (pc[r] \notin Critical \/ wrapped[r])
    OBVIOUS
  <2>2. ~(crashes + losses > 0)
    BY <1>0, CountersGrow
  <2>3. PICK q \in Runner : pc[q] \in Critical /\ ~wrapped[q]
    BY <2>1, <2>2 DEF LockInv, Stranded
  <2> QED
    BY <2>1, <2>3, <1>3
<1>8. MutualExclusion'
  BY <1>3, <1>5 DEF LockInv, MutualExclusion
<1> QED
  BY <1>2, <1>4, <1>6, <1>7, <1>8 DEF LockInv

\* While r is in its critical section, or no other runner's transaction blocks
\* it while the row is free, no other runner is in one.
LEMMA Alone ==
  ASSUME LockInv, NEW r \in Runner,
         pc[r] \in Critical \/ (~Blocked(r) /\ lockRows = Free)
  PROVE  \A q \in Runner \ {r} : pc[q] \notin Critical
<1>1. CASE pc[r] \in Critical
  BY <1>1 DEF LockInv, MutualExclusion
<1>2. CASE ~Blocked(r) /\ lockRows = Free
  BY <1>2 DEF LockInv, Holders, Blocked
<1> QED
  BY <1>1, <1>2

\* r gets the lock: nobody else is in its critical section then.
LEMMA LockStep ==
  ASSUME LockInv, NEW r \in Runner, Lock(r)
  PROVE  LockInv'
<1>1. pc[r] = "lock" /\ ~Blocked(r)
  BY DEF Lock
<1>2. losses' = losses /\ crashes' = crashes
  BY DEF Lock, bounds
<1>3. losses \in Nat /\ crashes \in Nat /\ lockRows \in {Free, Taken}
  BY DEF LockInv, LockTypes
<1>4. CASE Cardinality(Unlocked) # 1
  <2>1. Finished(r, "locked") /\ lockRows' = lockRows
    BY <1>4 DEF Lock
  <2>2. PICK v \in {0, 1} : lockRows = <<v>>
    BY <1>3
  <2>3. pc[r] \notin Critical
    BY <1>1 DEF Critical
  <2>4. lockRows' = <<v>> /\ (v = 1 => lockRows = Taken)
    BY <2>1, <2>2
  <2> QED
    BY <1>2, <1>3, <2>1, <2>3, <2>4, LeaveStep
<1>5. CASE Cardinality(Unlocked) = 1
  <2>1. lockRows = Free /\ Unlocked = {1} /\ AllRows(1) = Taken
    BY <1>3, <1>5, SingleRow
  <2>2. \A q \in Runner \ {r} : pc[q] \notin Critical
    BY <1>1, <2>1, Alone
  <2>3. \A q \in Runner : held[q] = {}
    BY <1>1, <2>2 DEF LockInv, Holders, Critical
  <2>4. /\ pc' = [pc EXCEPT ![r] = IF wrapped[r] THEN "relist" ELSE "batch"]
        /\ wrapped' = wrapped /\ op' = op
    BY <1>5 DEF Lock, Goto, task
  <2>5. IF wrapped[r] THEN held' = [held EXCEPT ![r] = {1}] /\ lockRows' = Free
        ELSE held' = held /\ lockRows' = Taken
    BY <1>5, <2>1 DEF Lock
  <2>6. LockTypes' /\ lockRows' \in {Free, Taken}
    BY <1>2, <1>3, <2>4, <2>5 DEF LockInv, LockTypes, Labels, Critical
  <2>7. /\ pc'[r] \in {"relist", "batch"}
        /\ \A q \in Runner \ {r} : pc'[q] = pc[q]
    BY <2>4 DEF LockInv, LockTypes
  <2>8. {"relist", "batch"} \subseteq Critical
    BY DEF Critical
  <2>9. /\ wrapped[r] => held'[r] = {1}
        /\ \A q \in Runner : held'[q] # {} => q = r /\ wrapped[r]
    BY <2>3, <2>5 DEF LockInv, LockTypes
  <2>10. Settled'
    BY <2>4, <2>7 DEF LockInv, Settled, Unlocking
  <2>11. Holders'
    BY <2>2, <2>4, <2>5, <2>7, <2>8, <2>9 DEF Holders
  <2>12. Stranded'
    BY <2>4, <2>5, <2>7, <2>8 DEF Stranded
  <2>13. MutualExclusion'
    BY <2>2, <2>7 DEF MutualExclusion
  <2> QED
    BY <2>6, <2>10, <2>11, <2>12, <2>13 DEF LockInv
<1> QED
  BY <1>4, <1>5

\* The lock statement fails, carried out or not.
LEMMA LockFailsStep ==
  ASSUME LockInv, NEW r \in Runner, LockFails(r)
  PROVE  LockInv'
<1>1. /\ pc[r] = "lock" /\ Finished(r, "locked")
      /\ losses' = losses + 1 /\ crashes' = crashes
  BY DEF LockFails
<1>2. losses \in Nat /\ crashes \in Nat /\ lockRows \in {Free, Taken}
  BY DEF LockInv, LockTypes
<1>3. losses' \in Nat /\ losses' >= losses /\ losses' + crashes' > 0
      /\ crashes' \in Nat /\ crashes' >= crashes
  BY <1>1, <1>2
<1>4. CASE lockRows' = lockRows
  <2>1. PICK v \in {0, 1} : lockRows' = <<v>>
    BY <1>2, <1>4
  <2> QED
    BY <1>1, <1>3, <1>4, <2>1, LeaveStep
<1>5. CASE ~Blocked(r) /\ Cardinality(Unlocked) = 1 /\ lockRows' = AllRows(1)
  <2>1. lockRows = Free /\ lockRows' = Taken
    BY <1>2, <1>5, SingleRow
  <2>2. \A q \in Runner \ {r} : pc[q] \notin Critical
    BY <1>5, <2>1, Alone
  <2> QED
    BY <1>1, <1>3, <2>1, <2>2, LeaveStep
<1> QED
  BY <1>4, <1>5 DEF LockFails

\* r frees the row in its critical section.
LEMMA FreeStep ==
  ASSUME LockInv, NEW r \in Runner, NEW result, pc[r] \in Critical,
         lockRows' = AllRows(0), Finished(r, result), UNCHANGED <<losses, crashes>>
  PROVE  LockInv'
<1>1. lockRows' = Free
  BY SingleRow DEF LockInv
<1>2. losses' \in Nat /\ crashes' \in Nat /\ losses' >= losses /\ crashes' >= crashes
  BY DEF LockInv, LockTypes
<1>3. \A q \in Runner \ {r} : pc[q] \notin Critical
  BY Alone
<1> QED
  BY <1>1, <1>2, <1>3, LeaveStep

\* r's operation is over and the lock row is as it was, which is all right
\* unless r had set it; then something was lost.
LEMMA AbandonStep ==
  ASSUME LockInv, NEW r \in Runner, NEW result, lockRows' = lockRows,
         Finished(r, result),
         losses' \in Nat, crashes' \in Nat, losses' >= losses, crashes' >= crashes,
         \/ pc[r] \notin Critical \/ wrapped[r]
         \/ losses' + crashes' > 0
  PROVE  LockInv'
<1>1. PICK v \in {0, 1} : lockRows = <<v>>
  BY DEF LockInv
<1>2. lockRows' = <<v>> /\ (v = 1 => lockRows = Taken)
  BY <1>1
<1> QED
  BY <1>2, LeaveStep

\* StayStep where the runner keeps its operation and its transaction.
LEMMA PlainStep ==
  ASSUME LockInv, NEW r \in Runner, NEW label, Goto(r, label),
         label \in Labels \ ({"recheck", "insertLock"} \cup Unlocking),
         label \in Critical <=> pc[r] \in Critical,
         UNCHANGED <<op, wrapped, held, lockRows, losses, crashes>>
  PROVE  LockInv'
<1>1. /\ wrapped' = [wrapped EXCEPT ![r] = wrapped[r]] /\ wrapped[r] \in BOOLEAN
      /\ op' = [op EXCEPT ![r] = op[r]] /\ op[r] \in Op \cup {NoOp}
  BY DEF LockInv, LockTypes
<1>2. op[r].kind # "unlock"
  BY DEF LockInv, Settled
<1> QED
  BY <1>1, <1>2, StayStep DEF Goto

-----------------------------------------------------------------------------
\* The statements of ensureTable leave a lock table with a row alone.
LEMMA EnsureStep ==
  ASSUME LockInv, NEW r \in Runner, Ensure(r)
  PROVE  LockInv'
<1>1. Ensuring \cap Critical = {} /\ {"hasLock", "createTable", "createLock", "peek", "list"}
        \subseteq Labels \ ({"recheck", "insertLock"} \cup Unlocking \cup Critical)
  BY DEF Ensuring, Critical, Labels, Listing, Unlocking
<1>2. losses \in Nat /\ crashes \in Nat
  BY DEF LockInv, LockTypes
<1>3. CASE HasTable(r)
  <2>1. /\ pc[r] \notin Critical
        /\ UNCHANGED <<op, wrapped, held, lockRows, losses, crashes>>
    BY <1>3 DEF HasTable, Critical, db, trx, task, bounds
  <2>2. PICK label \in {"hasLock", "createTable", "createLock", "peek"} : Goto(r, label)
    BY <1>3 DEF HasTable
  <2> QED
    BY <1>1, <2>1, <2>2, PlainStep
<1>4. ASSUME NEW table, NEW then \in {"hasLock", "peek"}, pc[r] \notin Critical,
             CreateTable(r, table, then)
      PROVE  LockInv'
  <2>1. UNCHANGED <<lockRows, losses, crashes>>
    BY <1>4 DEF CreateTable, bounds
  <2>2. CASE table \in tables
    <3>1. Finished(r, "failed")
      BY <1>4, <2>2 DEF CreateTable
    <3> QED
      BY <1>2, <1>4, <2>1, <3>1, AbandonStep
  <2>3. CASE table \notin tables
    <3>1. Goto(r, then) /\ UNCHANGED <<op, wrapped, held>>
      BY <1>4, <2>3 DEF CreateTable, trx, task
    <3> QED
      BY <1>1, <1>4, <2>1, <3>1, PlainStep
  <2> QED
    BY <2>2, <2>3
<1>5. CASE CreateMigrationTable(r)
  <2>1. pc[r] \notin Critical
    BY <1>5 DEF CreateMigrationTable, Critical
  <2> QED
    BY <1>4, <1>5, <2>1 DEF CreateMigrationTable
<1>6. CASE CreateLockTable(r)
  <2>1. pc[r] \notin Critical
    BY <1>6 DEF CreateLockTable, Critical
  <2> QED
    BY <1>4, <1>6, <2>1 DEF CreateLockTable
<1>7. CASE SelectLock(r)
  <2>1. /\ pc[r] \notin Critical
        /\ UNCHANGED <<op, wrapped, held, lockRows, losses, crashes>>
    BY <1>7 DEF SelectLock, Critical, db, trx, task, bounds
  <2>2. lockRows # <<>>
    BY SingleRow DEF LockInv
  <2>3. Goto(r, "list")
    BY <1>7, <2>2 DEF SelectLock
  <2> QED
    BY <1>1, <2>1, <2>3, PlainStep
<1>8. CASE InsertLock(r)
  BY <1>8 DEF InsertLock, LockInv, Settled
<1> QED
  BY <1>3, <1>5, <1>6, <1>7, <1>8 DEF Ensure

\* The operation picks its migrations and whether a transaction surrounds them.
LEMMA ListStep ==
  ASSUME LockInv, NEW r \in Runner, List(r)
  PROVE  LockInv'
<1>1. pc[r] \notin Critical /\ UNCHANGED <<lockRows, losses, crashes>>
  BY DEF List, Critical, db, bounds
<1>2. losses \in Nat /\ crashes \in Nat
  BY DEF LockInv, LockTypes
<1>3. ASSUME NEW result, Finished(r, result)
      PROVE  LockInv'
  BY <1>1, <1>2, <1>3, AbandonStep
<1>4. ASSUME ~(Corrupt(r) \/ NotFound(r)), op[r].kind # "list"
      PROVE  LockInv'
  <2>1. TransactionForAll(r, Picked(r)) \in BOOLEAN
    BY DEF TransactionForAll
  <2>2. /\ wrapped' = [wrapped EXCEPT ![r] = TransactionForAll(r, Picked(r))]
        /\ held' = held /\ op' = op
    BY <1>4 DEF List, trx
  <2>3. PICK label \in {"lastBatch", "lock"} : pc' = [pc EXCEPT ![r] = label]
    BY <1>4 DEF List, Goto
  <2>4. /\ op' = [op EXCEPT ![r] = op[r]] /\ op[r] \in Op \cup {NoOp}
        /\ op[r].kind # "unlock"
    BY <2>2 DEF LockInv, LockTypes, Settled
  <2>5. label \in Labels \ ({"recheck", "insertLock"} \cup Unlocking)
    BY <2>3 DEF Labels, Listing, Unlocking
  <2>6. label \notin Critical
    BY <2>3 DEF Critical
  <2> QED
    BY <1>1, <2>1, <2>2, <2>3, <2>4, <2>5, <2>6, StayStep
<1> QED
  BY <1>3, <1>4 DEF List

\* The last batch is read: still before the lock.
LEMMA LastBatchStep ==
  ASSUME LockInv, NEW r \in Runner, LastBatch(r)
  PROVE  LockInv'
<1>1. /\ pc[r] \notin Critical /\ Goto(r, "lock")
      /\ UNCHANGED <<op, wrapped, held, lockRows, losses, crashes>>
  BY DEF LastBatch, Critical, db, trx, bounds
<1>2. "lock" \in Labels \ ({"recheck", "insertLock"} \cup Unlocking \cup Critical)
  BY DEF Labels, Unlocking, Critical
<1> QED
  BY <1>1, <1>2, PlainStep

\* Between lock and free r stays in its critical section.
LEMMA BatchStep ==
  ASSUME LockInv, NEW r \in Runner, Relist(r) \/ ReadBatch(r) \/ Run(r) \/ Record(r)
  PROVE  LockInv'
<1>1. Critical \cap (Unlocking \cup {"recheck", "insertLock"}) = {} /\ Critical \subseteq Labels
  BY DEF Critical, Unlocking, Labels
<1>2. {"relist", "batch", "run", "record", "free", "cleanup"} \subseteq Critical
  BY DEF Critical
<1>3. pc[r] \in {"relist", "batch", "run", "record"}
  BY DEF Relist, ReadBatch, Run, Record
<1>4. UNCHANGED <<op, wrapped, held, lockRows, losses, crashes>>
  <2>1. CASE Relist(r)
    BY <2>1 DEF Relist, db, trx, bounds
  <2>2. CASE ReadBatch(r)
    BY <2>2 DEF ReadBatch, db, trx, bounds
  <2>3. CASE Run(r)
    BY <2>3 DEF Run, trx, task, bounds
  <2>4. CASE Record(r)
    BY <2>4 DEF Record, bounds
  <2> QED
    BY <2>1, <2>2, <2>3, <2>4
<1>5. PICK label \in Critical : Goto(r, label)
  <2>1. CASE Relist(r)
    BY <1>2, <2>1 DEF Relist
  <2>2. CASE ReadBatch(r)
    BY <1>2, <2>2 DEF ReadBatch, Proceed
  <2>3. CASE Run(r)
    BY <1>2, <2>3 DEF Run
  <2>4. CASE Record(r)
    BY <1>2, <2>4 DEF Record, Proceed
  <2> QED
    BY <2>1, <2>2, <2>3, <2>4
<1> QED
  BY <1>1, <1>2, <1>3, <1>4, <1>5, PlainStep

\* The three ways the lock is freed.
LEMMA FreeingStep ==
  ASSUME LockInv, NEW r \in Runner, FreeLock(r) \/ CommitBatch(r) \/ CleanUp(r)
  PROVE  LockInv'
<1>1. pc[r] \in Critical
  BY DEF FreeLock, CommitBatch, CleanUp, Critical
<1>2. lockRows' = AllRows(0) /\ UNCHANGED <<losses, crashes>>
  BY DEF FreeLock, CommitBatch, CleanUp, bounds
<1>3. PICK result : Finished(r, result)
  BY DEF FreeLock, CommitBatch, CleanUp
<1> QED
  BY <1>1, <1>2, <1>3, FreeStep

\* Failures and crashes.
LEMMA FaultStep ==
  ASSUME LockInv, NEW r \in Runner, CleanUpFails(r) \/ Fail(r) \/ Crash(r)
  PROVE  LockInv'
<1>1. losses \in Nat /\ crashes \in Nat
  BY DEF LockInv, LockTypes
<1>2. CASE CleanUpFails(r)
  <2>1. /\ Finished(r, "failed") /\ lockRows' = lockRows
        /\ losses' = losses + 1 /\ crashes' = crashes
    BY <1>2 DEF CleanUpFails, db
  <2>2. /\ losses' \in Nat /\ crashes' \in Nat /\ losses' >= losses
        /\ crashes' >= crashes /\ losses' + crashes' > 0
    BY <1>1, <2>1
  <2> QED
    BY <2>1, <2>2, AbandonStep
<1>3. CASE Crash(r)
  <2>1. /\ Finished(r, "none") /\ lockRows' = lockRows
        /\ losses' = losses /\ crashes' = crashes + 1
    BY <1>3 DEF Crash
  <2>2. /\ losses' \in Nat /\ crashes' \in Nat /\ losses' >= losses
        /\ crashes' >= crashes /\ losses' + crashes' > 0
    BY <1>1, <2>1
  <2> QED
    BY <2>1, <2>2, AbandonStep
<1>4. CASE Fail(r)
  <2>1. lockRows' = lockRows /\ losses' = losses /\ crashes' = crashes
    BY <1>4 DEF Fail
  <2>2. losses' \in Nat /\ crashes' \in Nat /\ losses' >= losses /\ crashes' >= crashes
    BY <1>1, <2>1
  <2>3. CASE pc[r] \in Critical /\ ~wrapped[r]
    <3>1. Goto(r, "cleanup") /\ UNCHANGED <<op, wrapped, held>>
      BY <1>4, <2>3 DEF Fail, trx, task
    <3>2. "cleanup" \in Critical /\ "cleanup" \in Labels
          /\ "cleanup" \notin {"recheck", "insertLock"} \cup Unlocking
      BY DEF Critical, Labels, Unlocking
    <3> QED
      BY <2>1, <2>3, <3>1, <3>2, PlainStep
  <2>4. CASE ~(pc[r] \in Critical /\ ~wrapped[r])
    <3>1. Finished(r, "failed")
      BY <1>4, <2>4 DEF Fail
    <3>2. pc[r] \notin Critical \/ wrapped[r]
      BY <2>4
    <3> QED
      BY <2>1, <2>2, <3>1, <3>2, AbandonStep
  <2> QED
    BY <2>3, <2>4
<1> QED
  BY <1>2, <1>3, <1>4

\* A runner starts something other than an unlock.
LEMMA StartStep ==
  ASSUME LockInv, NEW r \in Runner, Start(r), \A o \in Ops : o.kind # "unlock"
  PROVE  LockInv'
<1>1. PICK o \in Ops : op' = [op EXCEPT ![r] = o] /\ Goto(r, "hasTable")
  BY DEF Start
<1>2. pc[r] \notin Critical /\ UNCHANGED <<held, lockRows, losses, crashes, wrapped>>
  BY DEF Start, Critical, db, trx
<1>3. wrapped' = [wrapped EXCEPT ![r] = wrapped[r]] /\ wrapped[r] \in BOOLEAN
  BY <1>2 DEF LockInv, LockTypes
<1>4. o \in Op \cup {NoOp} /\ o.kind # "unlock"
  BY MigratorAssumption
<1>5. "hasTable" \in Labels \ ({"recheck", "insertLock"} \cup Unlocking \cup Critical)
  BY DEF Labels, Ensuring, Unlocking, Critical
<1> QED
  BY <1>1, <1>2, <1>3, <1>4, <1>5, StayStep DEF Goto

LEMMA InitLockInv ==
  ASSUME Init, ~Fresh
  PROVE  LockInv
<1>1. /\ lockRows = Free /\ losses = 0 /\ crashes = 0
      /\ pc = [r \in Runner |-> "idle"] /\ wrapped = [r \in Runner |-> FALSE]
      /\ held = [r \in Runner |-> {}] /\ op = [r \in Runner |-> NoOp]
  BY DEF Init
<1>2. "idle" \in Labels /\ "idle" \notin Critical
      /\ "idle" \notin {"recheck", "insertLock"} \cup Unlocking
  BY DEF Labels, Critical, Unlocking
<1>3. LockTypes
  BY <1>1, <1>2 DEF LockTypes
<1>4. Settled
  BY <1>1, <1>2 DEF Settled, NoOp
<1>5. Holders /\ Stranded /\ MutualExclusion
  BY <1>1, <1>2 DEF Holders, Stranded, MutualExclusion
<1> QED
  BY <1>1, <1>3, <1>4, <1>5 DEF LockInv

LEMMA NextLockInv ==
  ASSUME LockInv, [Next]_vars, \A o \in Ops : o.kind # "unlock"
  PROVE  LockInv'
<1>1. CASE UNCHANGED vars
  BY <1>1 DEF vars, db, trx, task, bounds, LockInv, LockTypes, Settled, Holders,
              Stranded, MutualExclusion
<1>2. ASSUME NEW r \in Runner, Start(r)
      PROVE  LockInv'
  BY <1>2, StartStep
<1>3. ASSUME NEW r \in Runner, Step(r)
      PROVE  LockInv'
  <2>1. ~ForceFree(r)
    BY DEF ForceFree, Unlock, UnlockDelete, UnlockInsert, Unlocking, LockInv, Settled
  <2> QED
    BY <1>3, <2>1, EnsureStep, ListStep, LastBatchStep, LockStep, BatchStep, FreeingStep
       DEF Step, RunBatch
<1>4. ASSUME NEW r \in Runner, Fault(r)
      PROVE  LockInv'
  BY <1>4, LockFailsStep, FaultStep DEF Fault
<1> QED
  BY <1>1, <1>2, <1>3, <1>4 DEF Next

\* The inductive invariant.
THEOREM LockInductive ==
  ASSUME ~Fresh, \A o \in Ops : o.kind # "unlock"
  PROVE  Spec => []LockInv
<1>1. Init => LockInv
  BY InitLockInv
<1>2. LockInv /\ [Next]_vars => LockInv'
  BY NextLockInv
<1> QED
  BY <1>1, <1>2, PTL DEF Spec

\* Two processes never run migrations at once (_runBatch between _getLock and
\* _freeLock), whichever of them use a transaction, fail or die.
THEOREM RunnersExclude ==
  ASSUME ~Fresh, \A o \in Ops : o.kind # "unlock"
  PROVE  Spec => []MutualExclusion
<1>1. LockInv => MutualExclusion
  BY DEF LockInv
<1> QED
  BY <1>1, LockInductive, PTL

\* The lock row is set only while somebody holds it, unless a process died or
\* a statement on the lock table failed: the catch of _runBatch returns it.
THEOREM LockComesBack ==
  ASSUME ~Fresh, \A o \in Ops : o.kind # "unlock"
  PROVE  Spec => []LockReturned
<1>1. LockInv => LockReturned
  <2> SUFFICES ASSUME LockInv, 1 \in ToSet(lockRows)
               PROVE  \/ \E r \in Runner : pc[r] \in Critical /\ ~wrapped[r]
                      \/ crashes + losses > 0
    BY DEF LockReturned
  <2>1. lockRows = Taken
    BY DEF LockInv, ToSet
  <2> QED
    BY <2>1 DEF LockInv, Stranded
<1> QED
  BY <1>1, LockInductive, PTL
-----------------------------------------------------------------------------
\* The migration between its two statements: carried out, and not recorded.
Recording == {r \in Runner : pc[r] = "record" /\ ~wrapped[r]}
InFlight  == {Head(todo[r]) : r \in Recording}

Unexplained == Disagreements \ InFlight

Target(r) == IF Up(r) THEN "present" ELSE "absent"

\* What has been carried out is in the schema, and no more migrations than were
\* interrupted disagree beside it.
RecordInv ==
  /\ \A r \in Recording : schema[Head(todo[r])] = Target(r)
  /\ Cardinality(Unexplained) <= fails + crashes

\* The migrations that disagree are finitely many.
LEMMA DisagreementsFinite ==
  /\ IsFiniteSet(Disagreements) /\ Disagreements \subseteq Mig
  /\ IsFiniteSet(Unexplained) /\ Cardinality(Unexplained) \in Nat
<1>1. Disagreements \in SUBSET Mig /\ Unexplained \in SUBSET Mig /\ IsFiniteSet(Mig)
  BY MigratorAssumption DEF Disagreements, Unexplained
<1> QED
  BY <1>1, FS_Subset, FS_CardinalityType

LEMMA Counts ==
  ASSUME NEW a \in Nat, NEW b \in Nat
  PROVE  a + b \in Nat
OBVIOUS

LEMMA Monotone ==
  ASSUME NEW a \in Nat, NEW b \in Nat, NEW c \in Nat, NEW d \in Nat, a <= b, b <= c, c <= d
  PROVE  a <= d
OBVIOUS

\* Fewer migrations disagree, and no runner comes to its second statement.
LEMMA FewerDisagree ==
  ASSUME TypeInv, TypeInv', RecordInv, Unexplained' \subseteq Unexplained,
         fails' + crashes' >= fails + crashes,
         \A r \in Recording' : schema'[Head(todo[r])'] = Target(r)'
  PROVE  RecordInv'
<1>1. /\ IsFiniteSet(Unexplained) /\ Cardinality(Unexplained) \in Nat
      /\ IsFiniteSet(Mig) /\ Unexplained' \in SUBSET Mig
  BY DisagreementsFinite, MigratorAssumption DEF Unexplained, Disagreements
<1>2. Cardinality(Unexplained') <= Cardinality(Unexplained) /\ Cardinality(Unexplained') \in Nat
  BY <1>1, FS_Subset, FS_CardinalityType
<1>3. fails + crashes \in Nat /\ fails' + crashes' \in Nat
  <2>1. fails \in Nat /\ crashes \in Nat
    BY DEF TypeInv, BoundTypes
  <2>2. fails' \in Nat /\ crashes' \in Nat
    BY DEF TypeInv, BoundTypes
  <2> QED
    BY <2>1, <2>2, Counts
<1>4. Cardinality(Unexplained) <= fails + crashes
  BY DEF RecordInv
<1> HIDE DEF Unexplained
<1>5. Cardinality(Unexplained') <= fails' + crashes'
  BY <1>1, <1>2, <1>3, <1>4, Monotone
<1> QED
  BY <1>5 DEF RecordInv

\* One more migration disagrees after one more failure.
LEMMA OneMoreDisagrees ==
  ASSUME TypeInv, TypeInv', RecordInv, NEW m, Unexplained' \subseteq Unexplained \cup {m},
         fails' + crashes' = fails + crashes + 1,
         \A r \in Recording' : schema'[Head(todo[r])'] = Target(r)'
  PROVE  RecordInv'
<1>1. IsFiniteSet(Unexplained) /\ Cardinality(Unexplained) \in Nat
  BY DisagreementsFinite
<1>2. /\ IsFiniteSet(Unexplained \cup {m})
      /\ Cardinality(Unexplained \cup {m}) \in Nat
      /\ Cardinality(Unexplained \cup {m}) <= Cardinality(Unexplained) + 1
  BY <1>1, FS_AddElement
<1>3. /\ Cardinality(Unexplained') \in Nat
      /\ Cardinality(Unexplained') <= Cardinality(Unexplained \cup {m})
  BY <1>2, FS_Subset, FS_CardinalityType
<1>4. fails + crashes \in Nat
  BY DEF TypeInv, BoundTypes
<1>5. Cardinality(Unexplained) <= fails + crashes
  BY DEF RecordInv
<1>6. Cardinality(Unexplained) + 1 <= fails' + crashes'
  BY <1>1, <1>4, <1>5
<1>7. Cardinality(Unexplained') <= fails' + crashes'
  BY <1>1, <1>2, <1>3, <1>4, <1>6, Monotone
<1> QED
  BY <1>7 DEF RecordInv

\* What r's operation leaves of the other runners' records.
OthersKeep(r) == \A q \in Runner \ {r} :
  pc'[q] = pc[q] /\ wrapped'[q] = wrapped[q] /\ op'[q] = op[q] /\ todo'[q] = todo[q]

LEMMA FinishedKeeps ==
  ASSUME TypeInv, NEW r \in Runner, NEW result, Finished(r, result)
  PROVE  OthersKeep(r) /\ pc'[r] = "idle"
BY DEF TypeInv, RunnerTypes, Finished, Goto, OthersKeep

LEMMA GotoKeeps ==
  ASSUME TypeInv, NEW r \in Runner, NEW label, Goto(r, label),
         UNCHANGED op, wrapped' = wrapped \/ wrapped' = [wrapped EXCEPT ![r] = wrapped'[r]],
         todo' = todo \/ todo' = [todo EXCEPT ![r] = todo'[r]]
  PROVE  OthersKeep(r) /\ pc'[r] = label
BY DEF TypeInv, RunnerTypes, Goto, OthersKeep

\* A step of r that changes neither schema nor record, and neither comes from nor
\* to the second statement of a migration outside a transaction.
LEMMA QuietStep ==
  ASSUME TypeInv, TypeInv', RecordInv, NEW r \in Runner, OthersKeep(r),
         r \notin Recording, r \notin Recording',
         UNCHANGED <<rows, schema>>, fails' + crashes' >= fails + crashes
  PROVE  RecordInv'
<1>1. Recording' = Recording
  BY DEF Recording, OthersKeep
<1>2. \A q \in Recording : /\ q \in Runner \ {r} /\ Head(todo[q])' = Head(todo[q])
                           /\ Target(q)' = Target(q)
  BY DEF Recording, OthersKeep, Target, Up
<1>3. InFlight' = InFlight
  BY <1>1, <1>2 DEF InFlight
<1>4. Unexplained' = Unexplained
  BY <1>3 DEF Unexplained, Disagreements, Completed
<1>5. \A q \in Recording' : schema'[Head(todo[q])'] = Target(q)'
  BY <1>1, <1>2 DEF RecordInv
<1> QED
  BY <1>4, <1>5, FewerDisagree

\* Nobody else is between its two statements while r runs migrations.
LEMMA RecordingAlone ==
  ASSUME MutualExclusion, NEW r \in Runner, pc[r] \in Critical
  PROVE  Recording \subseteq {r}
BY DEF MutualExclusion, Recording, Critical

-----------------------------------------------------------------------------
\* The record gains the names that are added, and loses the one deleted.
LEMMA CompletedAppend ==
  ASSUME rows \in Seq(Row), NEW row \in Row, rows' = Append(rows, row)
  PROVE  Completed' = Completed \cup {row.name}
<1>1. /\ DOMAIN rows' = DOMAIN rows \cup {Len(rows) + 1}
      /\ \A i \in DOMAIN rows : rows'[i] = rows[i]
      /\ rows'[Len(rows) + 1] = row
  OBVIOUS
<1> QED
  BY <1>1 DEF Completed

LEMMA CompletedWithout ==
  ASSUME rows \in Seq(Row), NEW m, rows' = Without(m)
  PROVE  Completed' = Completed \ {m}
<1> DEFINE I == {i \in DOMAIN rows : rows[i].name # m}
<1>1. rows' = Selected(rows, I)
  BY DEF Without
<1> DEFINE n == Cardinality(I)
<1>2. /\ Selected(rows, I) \in Seq(Row) /\ Len(Selected(rows, I)) = n /\ n \in Nat
      /\ \A i \in I : \E k \in 1 .. n : Selected(rows, I)[k] = rows[i]
      /\ \A k \in 1 .. n : \E i \in I : Selected(rows, I)[k] = rows[i]
  <2>1. I \in SUBSET DOMAIN rows
    OBVIOUS
  <2> HIDE DEF I
  <2> QED
    BY <2>1, SelectedPart
<1> HIDE DEF n
<1>3. DOMAIN rows' = 1 .. n
  BY <1>1, <1>2
<1>4. \A k \in DOMAIN rows' : \E i \in I : rows'[k] = rows[i]
  BY <1>1, <1>2, <1>3
<1>5. \A i \in I : \E k \in DOMAIN rows' : rows'[k] = rows[i]
  BY <1>1, <1>2, <1>3
<1> QED
  BY <1>4, <1>5 DEF Completed

LEMMA CompletedConcat ==
  ASSUME rows \in Seq(Row), NEW more \in Seq(Row), rows' = rows \o more
  PROVE  Completed' = Completed \cup {more[i].name : i \in DOMAIN more}
<1> DEFINE n == Len(rows)
           k == Len(more)
<1>1. /\ n \in Nat /\ k \in Nat /\ DOMAIN rows = 1 .. n /\ DOMAIN more = 1 .. k
      /\ DOMAIN rows' = 1 .. n + k
      /\ \A i \in 1 .. n : rows'[i] = rows[i]
      /\ \A i \in 1 .. k : rows'[n + i] = more[i]
  OBVIOUS
<1>2. \A i \in 1 .. n + k : i \in 1 .. n \/ \E j \in 1 .. k : i = n + j
  <2> SUFFICES ASSUME NEW i \in 1 .. n + k, i \notin 1 .. n
               PROVE  \E j \in 1 .. k : i = n + j
    OBVIOUS
  <2>1. i - n \in 1 .. k /\ i = n + (i - n)
    BY <1>1
  <2> QED
    BY <2>1
<1>3. \A i \in 1 .. n : i \in 1 .. n + k
  BY <1>1
<1>4. \A i \in 1 .. k : n + i \in 1 .. n + k
  BY <1>1
<1> HIDE DEF n, k
<1>5. ASSUME NEW x \in Completed'
      PROVE  x \in Completed \cup {more[i].name : i \in DOMAIN more}
  <2>1. PICK i \in 1 .. n + k : x = rows'[i].name
    BY <1>1 DEF Completed
  <2>2. CASE i \in 1 .. n
    BY <1>1, <2>1, <2>2 DEF Completed
  <2>3. ASSUME NEW j \in 1 .. k, i = n + j
        PROVE  x \in {more[l].name : l \in DOMAIN more}
    BY <1>1, <2>1, <2>3
  <2> QED
    BY <1>2, <2>2, <2>3
<1>6. ASSUME NEW x \in Completed
      PROVE  x \in Completed'
  BY <1>1, <1>3 DEF Completed
<1>7. ASSUME NEW i \in DOMAIN more
      PROVE  more[i].name \in Completed'
  <2>1. n + i \in DOMAIN rows' /\ rows'[n + i] = more[i]
    BY <1>1, <1>4
  <2> QED
    BY <2>1 DEF Completed
<1> QED
  BY <1>5, <1>6, <1>7

\* Statements that change neither the schema nor the record.
LEMMA QuietRecord ==
  ASSUME TypeInv, TypeInv', RecordInv, NEW r \in Runner,
         \/ Start(r) \/ Ensure(r) \/ List(r) \/ LastBatch(r) \/ Lock(r) \/ Relist(r)
         \/ ReadBatch(r) \/ FreeLock(r) \/ CleanUp(r) \/ LockFails(r) \/ CleanUpFails(r)
  PROVE  RecordInv'
<1>1. pc[r] # "record"
  BY DEF Start, Ensure, HasTable, CreateMigrationTable, CreateLockTable, SelectLock,
         InsertLock, List, LastBatch, Lock, Relist, ReadBatch, FreeLock, CleanUp,
         LockFails, CleanUpFails
<1>2. UNCHANGED <<rows, schema, fails, crashes>>
  BY DEF Start, Ensure, HasTable, CreateMigrationTable, CreateLockTable, CreateTable,
         SelectLock, InsertLock, List, LastBatch, Lock, Relist, ReadBatch, FreeLock, CleanUp,
         LockFails, CleanUpFails, db, bounds
<1>3. OthersKeep(r) /\ pc'[r] # "record"
  <2>1. ASSUME NEW result, Finished(r, result)
        PROVE  OthersKeep(r) /\ pc'[r] # "record"
    BY <2>1, FinishedKeeps
  <2>2. ASSUME NEW label \in Labels \ {"record"}, Goto(r, label), UNCHANGED task
        PROVE  OthersKeep(r) /\ pc'[r] # "record"
    BY <2>2, GotoKeeps DEF task
  <2>3. CASE Start(r)
    <3>1. /\ pc'[r] # "record" /\ UNCHANGED <<todo, wrapped>>
          /\ \A q \in Runner \ {r} : pc'[q] = pc[q] /\ op'[q] = op[q]
      BY <2>3 DEF Start, Goto, TypeInv, RunnerTypes
    <3> QED
      BY <3>1 DEF OthersKeep
  <2>4. CASE Ensure(r)
    BY <2>1, <2>2, <2>4, LabelNames
       DEF Ensure, HasTable, CreateMigrationTable, CreateLockTable, CreateTable, SelectLock,
           InsertLock
  <2>5. CASE List(r)
    <3>1. CASE Corrupt(r) \/ NotFound(r) \/ op[r].kind = "list"
      BY <2>1, <2>5, <3>1 DEF List
    <3>2. CASE ~(Corrupt(r) \/ NotFound(r) \/ op[r].kind = "list")
      <4>1. PICK label \in {"lastBatch", "lock"} : Goto(r, label)
        BY <2>5, <3>2 DEF List
      <4>2. /\ todo' = [todo EXCEPT ![r] = Picked(r)] /\ op' = op
            /\ wrapped' = [wrapped EXCEPT ![r] = TransactionForAll(r, Picked(r))]
        BY <2>5, <3>2 DEF List
      <4>3. todo'[r] = Picked(r) /\ wrapped'[r] = TransactionForAll(r, Picked(r))
        BY <4>2 DEF TypeInv, RunnerTypes
      <4> QED
        BY <4>1, <4>2, <4>3, GotoKeeps
    <3> QED
      BY <3>1, <3>2
  <2>6. CASE LastBatch(r)
    <3> DEFINE last == Reverse(Selected(rows, {i \in DOMAIN rows : rows[i].batch = LatestBatch}))
               names == [i \in DOMAIN last |-> last[i].name]
    <3>1. todo' = [todo EXCEPT ![r] = names] /\ Goto(r, "lock") /\ UNCHANGED <<op, wrapped>>
      BY <2>6 DEF LastBatch
    <3> HIDE DEF names
    <3>2. todo'[r] = names
      BY <3>1 DEF TypeInv, RunnerTypes
    <3>3. todo' = [todo EXCEPT ![r] = todo'[r]]
      BY <3>1, <3>2
    <3>4. PICK label \in {"batch", "lock"} : Goto(r, label)
      BY <3>1
    <3> QED
      BY <3>1, <3>3, <3>4, GotoKeeps
  <2>7. CASE Lock(r)
    BY <2>1, <2>2, <2>7, LabelNames DEF Lock
  <2>8. CASE Relist(r)
    <3> DEFINE rest == Selected(todo[r], {i \in DOMAIN todo[r] : todo[r][i] \notin Completed})
    <3>1. todo' = [todo EXCEPT ![r] = rest] /\ Goto(r, "batch") /\ UNCHANGED <<op, wrapped>>
      BY <2>8 DEF Relist
    <3> HIDE DEF rest
    <3>2. todo'[r] = rest
      BY <3>1 DEF TypeInv, RunnerTypes
    <3>3. todo' = [todo EXCEPT ![r] = todo'[r]]
      BY <3>1, <3>2
    <3>4. PICK label \in {"batch", "lock"} : Goto(r, label)
      BY <3>1
    <3> QED
      BY <3>1, <3>3, <3>4, GotoKeeps
  <2>9. CASE ReadBatch(r)
    <3>1. PICK label \in {"run", "free", "cleanup"} : Goto(r, label)
      BY <2>9 DEF ReadBatch, Proceed
    <3>2. UNCHANGED <<op, todo, wrapped>>
      BY <2>9 DEF ReadBatch
    <3> QED
      BY <3>1, <3>2, GotoKeeps
  <2>10. CASE FreeLock(r) \/ CleanUp(r) \/ LockFails(r) \/ CleanUpFails(r)
    BY <2>1, <2>10 DEF FreeLock, CleanUp, LockFails, CleanUpFails
  <2> QED
    BY <2>3, <2>4, <2>5, <2>6, <2>7, <2>8, <2>9, <2>10
<1>4. r \notin Recording /\ r \notin Recording'
  BY <1>1, <1>3 DEF Recording
<1>5. fails' + crashes' >= fails + crashes
  BY <1>2 DEF TypeInv, BoundTypes
<1> QED
  BY <1>2, <1>3, <1>4, <1>5, QuietStep

\* A migration runs.
LEMMA RunRecord ==
  ASSUME TypeInv, TypeInv', RecordInv, MutualExclusion, NEW r \in Runner, Run(r)
  PROVE  RecordInv'
<1> DEFINE m == Head(todo[r])
<1>1. /\ pc[r] = "run" /\ Goto(r, "record") /\ UNCHANGED <<op, todo, wrapped>>
      /\ UNCHANGED <<rows, fails, crashes>>
      /\ schema' = IF wrapped[r] THEN schema ELSE [schema EXCEPT ![m] = Target(r)]
  BY DEF Run, task, bounds, Target
<1>2. OthersKeep(r) /\ pc'[r] = "record"
  BY <1>1, GotoKeeps
<1>3. r \notin Recording /\ r \in Runner
  BY <1>1 DEF Recording
<1>4. fails' + crashes' >= fails + crashes
  BY <1>1 DEF TypeInv, BoundTypes
<1>5. CASE wrapped[r]
  <2>1. r \notin Recording'
    BY <1>1, <1>5 DEF Recording
  <2> QED
    BY <1>1, <1>2, <1>3, <1>4, <1>5, <2>1, QuietStep
<1>6. CASE ~wrapped[r]
  <2>1. Recording = {} /\ Recording' = {r}
    <3>1. Recording = {}
      BY <1>1, <1>3, RecordingAlone DEF Critical
    <3>2. \A q \in Runner : q \in Recording' <=> q = r
      BY <1>1, <1>2, <1>6, <3>1 DEF Recording, OthersKeep
    <3> QED
      BY <3>1, <3>2 DEF Recording
  <2>2. todo[r] # <<>> /\ todo[r] \in Seq(Mig)
    BY <1>1 DEF TypeInv, Busy, RunnerTypes
  <2>3. m \in Mig
    BY <2>2
  <2>4. /\ schema'[m] = Target(r)
        /\ \A k \in Mig \ {m} : schema'[k] = schema[k]
    BY <1>1, <1>6, <2>3 DEF TypeInv, DatabaseTypes
  <2>5. InFlight = {} /\ InFlight' = {m}
    BY <1>1, <2>1 DEF InFlight
  <2>6. Disagreements' \subseteq Disagreements \cup {m}
    BY <1>1, <2>4 DEF Disagreements, Completed
  <2>7. Unexplained' \subseteq Unexplained
    BY <2>5, <2>6 DEF Unexplained
  <2>8. \A q \in Recording' : schema'[Head(todo[q])'] = Target(q)'
    BY <1>1, <2>1, <2>4 DEF Target, Up
  <2> QED
    BY <1>4, <2>7, <2>8, FewerDisagree
<1> QED
  BY <1>5, <1>6

\* The row of a migration is inserted or deleted.
LEMMA RecordRecord ==
  ASSUME TypeInv, TypeInv', RecordInv, MutualExclusion, NEW r \in Runner, Record(r)
  PROVE  RecordInv'
<1> DEFINE m == Head(todo[r])
           row == [name |-> m, batch |-> batch[r]]
<1>1. /\ pc[r] = "record" /\ UNCHANGED <<op, wrapped, schema, fails, crashes>>
      /\ todo' = [todo EXCEPT ![r] = Tail(todo[r])]
  BY DEF Record, bounds
<1>2. PICK label \in {"run", "free"} : Goto(r, label)
  BY DEF Record, Proceed
<1>3. todo' = [todo EXCEPT ![r] = todo'[r]]
  BY <1>1 DEF TypeInv, RunnerTypes
<1>4. OthersKeep(r) /\ pc'[r] # "record"
  BY <1>1, <1>2, <1>3, GotoKeeps
<1>5. fails' + crashes' >= fails + crashes
  BY <1>1 DEF TypeInv, BoundTypes
<1>6. CASE wrapped[r]
  <2>1. r \notin Recording /\ r \notin Recording' /\ UNCHANGED rows
    BY <1>4, <1>6 DEF Recording, Record
  <2> QED
    BY <1>1, <1>4, <1>5, <2>1, QuietStep
<1>7. CASE ~wrapped[r]
  <2>1. r \in Recording
    BY <1>1, <1>7 DEF Recording
  <2>2. Recording = {r}
    BY <1>1, <2>1, RecordingAlone DEF Critical
  <2>3. \A q \in Runner : q \notin Recording'
    BY <1>4, <2>2 DEF Recording, OthersKeep
  <2>4. Recording' = {}
    BY <2>3 DEF Recording
  <2>5. InFlight = {m} /\ InFlight' = {}
    BY <2>2, <2>4 DEF InFlight
  <2>6. todo[r] # <<>> /\ todo[r] \in Seq(Mig) /\ batch[r] \in Nat /\ rows \in Seq(Row)
    BY <1>1 DEF TypeInv, Busy, RunnerTypes, DatabaseTypes
  <2>7. row \in Row /\ m \in Mig
    BY <2>6 DEF Row
  <2>8. schema[m] = Target(r)
    BY <2>1 DEF RecordInv
  <2>9. CASE Up(r)
    <3>1. rows' = Append(rows, row)
      BY <1>7, <2>9 DEF Record
    <3>2. row.name = m
      OBVIOUS
    <3> HIDE DEF row
    <3>3. Completed' = Completed \cup {m}
      BY <2>6, <2>7, <3>1, <3>2, CompletedAppend
    <3>4. Disagreements' \subseteq Disagreements \ {m}
      BY <1>1, <2>8, <2>9, <3>3 DEF Disagreements, Target
    <3> QED
      BY <1>5, <2>4, <2>5, <3>4, FewerDisagree DEF Unexplained
  <2>10. CASE ~Up(r)
    <3>1. rows' = Without(m)
      BY <1>7, <2>10 DEF Record
    <3>2. Completed' = Completed \ {m}
      BY <2>6, <3>1, CompletedWithout
    <3>3. Disagreements' \subseteq Disagreements \ {m}
      BY <1>1, <2>8, <2>10, <3>2 DEF Disagreements, Target
    <3> QED
      BY <1>5, <2>4, <2>5, <3>3, FewerDisagree DEF Unexplained
  <2> QED
    BY <2>9, <2>10
<1> QED
  BY <1>6, <1>7

\* A wrapping transaction commits schema and record together.
LEMMA CommitRecord ==
  ASSUME TypeInv, TypeInv', RecordInv, MutualExclusion, NEW r \in Runner, CommitBatch(r)
  PROVE  RecordInv'
<1> DEFINE names == {pending[r][i].name : i \in DOMAIN pending[r]}
<1>1. /\ pc[r] = "free" /\ Finished(r, "done") /\ UNCHANGED <<fails, crashes>>
      /\ rows' = rows \o pending[r]
      /\ schema' = [m \in Mig |-> IF \E i \in DOMAIN pending[r] : pending[r][i].name = m
                                  THEN "present" ELSE schema[m]]
  BY DEF CommitBatch, bounds
<1>2. pending[r] \in Seq(Row) /\ rows \in Seq(Row)
  BY DEF TypeInv, RunnerTypes, DatabaseTypes
<1>3. Completed' = Completed \cup names
  BY <1>1, <1>2, CompletedConcat
<1>4. \A m \in Mig : schema'[m] = IF m \in names THEN "present" ELSE schema[m]
  BY <1>1
<1>5. Disagreements' \subseteq Disagreements
  BY <1>3, <1>4 DEF Disagreements
<1>6. OthersKeep(r) /\ pc'[r] = "idle"
  BY <1>1, FinishedKeeps
<1>7. Recording = {}
  BY <1>1, RecordingAlone DEF Recording, Critical
<1>8. Recording' = {}
  BY <1>6, <1>7 DEF Recording, OthersKeep
<1>9. InFlight = {} /\ InFlight' = {}
  BY <1>7, <1>8 DEF InFlight
<1>10. fails' + crashes' >= fails + crashes
  BY <1>1 DEF TypeInv, BoundTypes
<1> QED
  BY <1>5, <1>8, <1>9, <1>10, FewerDisagree DEF Unexplained

\* A statement or a migration fails, or the process dies.
LEMMA InterruptRecord ==
  ASSUME TypeInv, TypeInv', RecordInv, MutualExclusion, NEW r \in Runner, Fail(r) \/ Crash(r)
  PROVE  RecordInv'
<1> DEFINE m == Head(todo[r])
<1>1. rows' = rows /\ fails' + crashes' = fails + crashes + 1
  BY DEF Fail, Crash, TypeInv, BoundTypes
<1>2. OthersKeep(r) /\ pc'[r] # "record"
  <2>1. ASSUME NEW result, Finished(r, result)
        PROVE  OthersKeep(r) /\ pc'[r] # "record"
    BY <2>1, FinishedKeeps
  <2>2. ASSUME Goto(r, "cleanup"), UNCHANGED task
        PROVE  OthersKeep(r) /\ pc'[r] # "record"
    BY <2>2, GotoKeeps DEF task
  <2> QED
    BY <2>1, <2>2 DEF Fail, Crash
<1>3. Interrupted(r)
  BY DEF Fail, Crash
<1>4. \A k \in Mig \ {m} : schema'[k] = schema[k]
  BY <1>3 DEF Interrupted, TypeInv, DatabaseTypes
<1>5. Disagreements' \subseteq Disagreements \cup {m}
  BY <1>1, <1>4 DEF Disagreements, Completed
<1>6. Recording' = Recording \ {r}
  BY <1>2 DEF Recording, OthersKeep
<1>7. \A q \in Recording' : Head(todo[q])' = Head(todo[q]) /\ Target(q)' = Target(q)
  BY <1>2, <1>6 DEF Recording, OthersKeep, Target, Up
<1>8. InFlight \subseteq InFlight' \cup {m}
  BY <1>6, <1>7 DEF InFlight
<1>9. Unexplained' \subseteq Unexplained \cup {m}
  BY <1>5, <1>8 DEF Unexplained
<1>10. \A q \in Recording' : schema'[Head(todo[q])'] = Target(q)'
  <2> SUFFICES ASSUME NEW q \in Recording'
               PROVE  schema'[Head(todo[q])] = schema[Head(todo[q])]
    BY <1>6, <1>7 DEF RecordInv
  <2>1. q \in Recording /\ q # r /\ q \in Runner
    BY <1>6 DEF Recording
  <2>2. pc[r] # "run"
    BY <2>1 DEF MutualExclusion, Recording, Critical
  <2> QED
    BY <1>3, <2>2 DEF Interrupted
<1> QED
  BY <1>1, <1>9, <1>10, OneMoreDisagrees

LEMMA InitRecord ==
  ASSUME Init
  PROVE  RecordInv
<1>1. Completed = {} /\ Recording = {} /\ fails + crashes = 0
  BY DEF Init, Completed, Recording
<1>2. Disagreements = {}
  BY <1>1 DEF Init, Disagreements
<1>3. Cardinality(Unexplained) = 0
  BY <1>2, FS_EmptySet DEF Unexplained
<1> QED
  BY <1>1, <1>3 DEF RecordInv

LEMMA NextRecord ==
  ASSUME TypeInv, TypeInv', RecordInv, LockInv, [Next]_vars
  PROVE  RecordInv'
<1>1. CASE UNCHANGED vars
  <2>1. UNCHANGED <<rows, schema, pc, wrapped, todo, op, fails, crashes>>
    BY <1>1 DEF vars, db, trx, task, bounds
  <2>2. Unexplained' = Unexplained /\ Recording' = Recording
    BY <2>1 DEF Unexplained, Disagreements, Completed, InFlight, Recording
  <2> QED
    BY <2>1, <2>2 DEF RecordInv, Target, Up
<1>2. ASSUME NEW r \in Runner, Start(r) \/ Step(r) \/ Fault(r)
      PROVE  RecordInv'
  <2>1. MutualExclusion
    BY DEF LockInv
  <2>2. ~ForceFree(r)
    BY DEF ForceFree, Unlock, UnlockDelete, UnlockInsert, Unlocking, LockInv, Settled
  <2> QED
    BY <1>2, <2>1, <2>2, QuietRecord, RunRecord, RecordRecord, CommitRecord, InterruptRecord
       DEF Step, RunBatch, Fault
<1> QED
  BY <1>1, <1>2 DEF Next

\* What the migrations did and what the migration table says of them differ on no
\* more migrations than were interrupted by a failure or a crash, or are just now
\* between the two statements of _waterfallBatch.
THEOREM RecordKeepsUp ==
  ASSUME ~Fresh, \A o \in Ops : o.kind # "unlock"
  PROVE  Spec => []RecordMatchesSchema
<1>1. Init => TypeInv /\ RecordInv /\ LockInv
  BY InitTypes, InitRecord, InitLockInv
<1>2. TypeInv /\ RecordInv /\ LockInv /\ [Next]_vars => (TypeInv /\ RecordInv /\ LockInv)'
  BY NextTypes, NextRecord, NextLockInv
<1>3. TypeInv /\ RecordInv /\ LockInv => RecordMatchesSchema
  <2> SUFFICES ASSUME TypeInv, RecordInv, LockInv
               PROVE  Cardinality(Disagreements) <= fails + crashes + Cardinality(Recording)
    BY DEF RecordMatchesSchema, Recording
  <2>1. /\ Cardinality(Unexplained) \in Nat /\ IsFiniteSet(Unexplained)
        /\ Cardinality(Unexplained) <= fails + crashes /\ fails + crashes \in Nat
    BY DisagreementsFinite DEF RecordInv, TypeInv, BoundTypes
  <2>2. CASE Recording = {}
    <3>1. Disagreements = Unexplained
      BY <2>2 DEF Unexplained, InFlight
    <3>2. Cardinality(Recording) = 0
      BY <2>2, FS_EmptySet
    <3> QED
      BY <2>1, <3>1, <3>2
  <2>3. CASE Recording # {}
    <3>1. PICK r \in Runner : r \in Recording
      BY <2>3 DEF Recording
    <3>2. Recording = {r}
      BY <3>1, RecordingAlone DEF LockInv, Recording, Critical
    <3> DEFINE m == Head(todo[r])
    <3>3. Disagreements \subseteq Unexplained \cup {m}
      BY <3>2 DEF Unexplained, InFlight
    <3>4. Cardinality(Recording) = 1
      BY <3>2, FS_Singleton
    <3>5. /\ IsFiniteSet(Unexplained \cup {m})
          /\ Cardinality(Unexplained \cup {m}) \in Nat
          /\ Cardinality(Unexplained \cup {m}) <= Cardinality(Unexplained) + 1
      BY <2>1, FS_AddElement
    <3>6. Cardinality(Disagreements) \in Nat
          /\ Cardinality(Disagreements) <= Cardinality(Unexplained \cup {m})
      BY <3>3, <3>5, FS_Subset, FS_CardinalityType
    <3> HIDE DEF m
    <3> QED
      BY <2>1, <3>4, <3>5, <3>6
  <2> QED
    BY <2>2, <2>3
<1> QED
  BY <1>1, <1>2, <1>3, PTL DEF Spec
=============================================================================
