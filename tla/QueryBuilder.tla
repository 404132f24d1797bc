----------------------------- MODULE QueryBuilder -----------------------------
(***************************************************************************)
(* The query builder: every chained call adds a statement or sets a field   *)
(* of the builder.  A builder is a record b, a call is a record c with the  *)
(* method called (op), the modifiers it carries (or, not: the methods named *)
(* orX, whereNotX, ... and the getters .or and .not), its arguments         *)
(* (raw: the column or table is an expression with a binding; n values;     *)
(* key), its number (by) and the builder it is made on (on).                *)
(*                                                                          *)
(* counter, update, updates and skip hold references into objects, the heap *)
(* of the plain objects that clone() copies by reference; 0 is undefined.   *)
(***************************************************************************)
EXTENDS Sql

CONSTANTS Builder,    \* names of builders: the first one and its clones
          Offered,    \* the calls a program makes
          None        \* no such builder yet

ASSUME MaxCallsAssumption == MaxCalls \in Nat

VARIABLES builders,   \* builder -> its record, or None
          objects,    \* reference -> the keys and values of a plain object
          calls,      \* builder -> the calls it was made of, its origin's too
          made        \* number of calls and clones so far

builderVars == <<builders, objects, calls, made>>

Column(c) == IF c.raw THEN <<Token(c.by, 0)>> ELSE <<>>
Values(c) == IF c.key = "undefined" THEN <<"undefined">> ELSE [i \in 1..c.n |-> Token(c.by, i)]

Undefined == <<>>     \* a field that was never set

Fresh == [method |-> "select", statements |-> <<>>, table |-> <<>>, limit |-> <<>>,
          offset |-> <<>>, skip |-> 0, counter |-> 0, update |-> 0, insert |-> <<>>,
          merge |-> FALSE, updates |-> 0, ignore |-> FALSE, returning |-> FALSE, triggers |-> FALSE,
          using |-> <<>>, lock |-> "", waitMode |-> "", bool |-> "and",
          not |-> FALSE, timeout |-> FALSE]

Statement(b, c, grouping, type) ==
    [grouping |-> grouping, type |-> type, col |-> Column(c), val |-> Values(c),
     bool |-> b.bool, not |-> b.not, key |-> c.key, by |-> c.by, on |-> c.on]

\* orX, notX and the getters: _bool('or') and _not(true).
Flagged(b, c) == [b EXCEPT !.bool = IF c.or THEN "or" ELSE @, !.not = @ \/ c.not]

\* Variant: reading the flags puts only the connective back.
PushClauseNegating(b, s) == [b EXCEPT !.statements = Append(@, s), !.bool = "and"]

\* Reading _bool() and _not() puts them back.
PushClause(b, s) == [b EXCEPT !.statements = Append(@, s), !.bool = "and", !.not = FALSE]

Push(b, c, grouping, type) ==
    [b EXCEPT !.statements = Append(@, Statement(Fresh, c, grouping, type))]

-----------------------------------------------------------------------------
(* where *)

\* where(key, value), whereNull, whereLike: one clause.
WhereClause(b, c) == PushClause(b, Statement(b, c, "where", c.op))

\* whereRaw, whereWrapped, whereExists: an expression alone.
RawClause(b, c) == PushClause(b, [Statement(b, c, "where", c.op) EXCEPT !.col = Undefined])

\* where(true) and where(false) compare 1 with 1 or 0.
WhereConstant(b, c, truth) ==
    PushClause(b, [Statement([b EXCEPT !.not = FALSE], c, "where", "whereBasic")
                      EXCEPT !.col = <<>>, !.val = <<IF truth THEN "1" ELSE "0">>])

WhereIn(b, c) ==
    IF c.n = 0 THEN WhereConstant(b, c, b.not)
               ELSE PushClause(b, Statement(b, c, "where", "whereIn"))

\* where(key, 'in', values): the operator decides the flag again.
WhereOperatorIn(b, c) == WhereIn([b EXCEPT !.not = (c.key = "not in")], c)

\* The wrong number of values is an error, found after the flags are set.
WhereBetween(b, c) ==
    IF c.n # 2 THEN b ELSE PushClause(b, Statement(b, c, "where", "whereBetween"))

\* where({x: v1, y: v2}): the flags are read, and so put back, by the first
\* key; an object without keys leaves them as they are.
ObjectWhere(b, c) ==
    [b EXCEPT !.statements = @ \o [i \in 1..c.n |->
                  [Statement(IF i = 1 THEN b ELSE Fresh, c, "where", "whereBasic")
                     EXCEPT !.val = <<Values(c)[i]>>]],
              !.bool = IF c.n = 0 THEN @ ELSE "and",
              !.not = @ /\ c.n = 0]

\* orWhere({...}): a group whose callback is an arrow function, bound to the
\* builder it was called on.
OrWhereObject(b, c) ==
    PushClause(b, [Statement([b EXCEPT !.bool = "or"], c, "where", "whereWrapped")
                      EXCEPT !.key = "arrow"])

\* whereJson...: a path is the first of two values.  orWhereJsonSupersetOf
\* asks for the subset.
JsonClause(b, c) ==
    LET type == IF c.op = "whereJsonSupersetOf" /\ c.or /\ ~c.not
                THEN "whereJsonSubsetOf" ELSE c.op
    IN PushClause(b, Statement(b, c, "where", type))

Where(b, c) ==
    CASE c.op = "whereIn" -> WhereIn(b, c)
      [] c.op = "whereOperatorIn" -> WhereOperatorIn(b, c)
      [] c.op = "whereBetween" -> WhereBetween(b, c)
      [] c.op = "whereObject" -> ObjectWhere(b, c)
      [] c.op = "orWhereObject" -> OrWhereObject(b, c)
      [] c.op \in {"whereRaw", "whereWrapped", "whereExists"} -> RawClause(b, c)
      [] c.op \in {"whereJsonObject", "whereJsonPath", "whereJsonSupersetOf",
                   "whereJsonSubsetOf"} -> JsonClause(b, c)
      [] OTHER -> WhereClause(b, c)

-----------------------------------------------------------------------------
(* having, joins, columns and the other statements *)

HavingClause(b, c) == PushClause(b, Statement(b, c, "having", c.op))

\* Without values, havingIn adds to the wheres.
HavingIn(b, c) == IF c.n = 0 THEN WhereConstant(b, c, b.not) ELSE HavingClause(b, c)

HavingBetween(b, c) == IF c.n # 2 THEN b ELSE HavingClause(b, c)

Having(b, c) ==
    CASE c.op = "havingIn" -> HavingIn(b, c)
      [] c.op = "havingBetween" -> HavingBetween(b, c)
      [] OTHER -> HavingClause(b, c)

\* A JoinClause has flags of its own; key names the clause that is added to
\* it.  onIn without values compares 1 with 0.
OnStatement(c) ==
    Statement(Flagged(Fresh, c), c, "join", IF c.key = "onIn" /\ c.n = 0 THEN "onBasic" ELSE c.key)

Join(b, c) == [b EXCEPT !.statements = Append(@, OnStatement(c))]

Columns(b, c) == Push(b, c, "columns", c.op)
Aggregate(b, c) == Columns(b, c)
Analytic(b, c) == Columns(b, [c EXCEPT !.n = 0])
JsonColumn(b, c) == Columns(b, c)
GroupBy(b, c) == Push(b, c, "group", c.op)
OrderBy(b, c) == Push(b, c, "order", c.op)
Union(b, c)   == Push(b, c, "union", "union")
With(b, c)    == Push(b, c, "with", "withWrapped")
HintComment(b, c) == Push(b, c, "hintComments", c.op)

Add(b, c) ==
    CASE c.op \in {"select", "distinct", "distinctOn"} -> Columns(b, c)
      [] c.op \in {"aggregate", "aggregateRaw"} -> Aggregate(b, c)
      [] c.op = "analytic" -> Analytic(b, c)
      [] c.op \in {"jsonExtract", "jsonSet"} -> JsonColumn(b, c)
      [] c.op = "join"   -> Join(b, c)
      [] c.op = "groupBy" -> GroupBy(b, c)
      [] c.op = "orderBy" -> OrderBy(b, c)
      [] c.op = "union"  -> Union(b, c)
      [] c.op = "with"   -> With(b, c)
      [] c.op = "hintComment" -> HintComment(b, c)

-----------------------------------------------------------------------------
(* Fields *)

Table(b, c) == [b EXCEPT !.table = Append(Column(c), "table")]
Timeout(b) == [b EXCEPT !.timeout = TRUE]
Using(b, c) == [b EXCEPT !.using = Append(Column(c), "using")]

\* returning(columns, {includeTriggerModifications: true})
Returning(b, c) == [b EXCEPT !.returning = TRUE, !.triggers = (c.key = "triggers")]

\* The i-th value of the rows of an insert is Token(c.by, i).
Insert(b, c) ==
    LET RowOf(row) == [i \in DOMAIN row |-> <<row[i][1], Token(c.by, row[i][2])>>]
    IN [b EXCEPT !.method = "insert", !.insert = [r \in DOMAIN c.rows |-> RowOf(c.rows[r])]]

Delete(b) == [b EXCEPT !.method = "del"]
Truncate(b) == [b EXCEPT !.method = "truncate"]

\* onConflict().ignore(), and onConflict().merge() of the columns of the insert
\* or of an object of updates; ignore and merge do not undo each other.
OnConflict(b, c) ==
    IF c.key = "ignore" THEN [b EXCEPT !.ignore = TRUE]
    ELSE [b EXCEPT !.merge = TRUE, !.updates = IF c.n = 0 THEN 0 ELSE c.by]

Lock(b, c) == [b EXCEPT !.lock = c.key]

Locked(b) == b.method \in {"select", "first", "pluck"} /\ b.lock # ""

\* skipLocked() and noWait() refuse other queries, no lock, and each other.
WaitMode(b, c) ==
    IF Locked(b) /\ b.waitMode \in {"", c.key} THEN [b EXCEPT !.waitMode = c.key] ELSE b

\* pluck() and first() refuse anything but a select.
Pluck(b, c) ==
    IF b.method # "select" THEN b
    ELSE Push([b EXCEPT !.method = "pluck"], c, "columns", "pluck")

\* Variant: statements are told apart by their type.
ClearType(b, grouping) ==
    [b EXCEPT !.statements = SelectSeq(@, LAMBDA s : s.type # grouping)]

\* A grouping that names a field of single is a field, else its statements go.
ClearGrouping(b, grouping) ==
    CASE grouping = "limit"  -> [b EXCEPT !.limit = Undefined]
      [] grouping = "offset" -> [b EXCEPT !.offset = Undefined]
      [] OTHER -> [b EXCEPT !.statements = SelectSeq(@, LAMBDA s : s.grouping # grouping)]

Set(b, c) ==
    CASE c.op = "table" -> Table(b, c)
      [] c.op = "timeout" -> Timeout(b)
      [] c.op = "using" -> Using(b, c)
      [] c.op = "returning" -> Returning(b, c)
      [] c.op = "insert" -> Insert(b, c)
      [] c.op = "delete" -> Delete(b)
      [] c.op = "truncate" -> Truncate(b)
      [] c.op = "lock" -> Lock(b, c)
      [] c.op = "waitMode" -> WaitMode(b, c)
      [] c.op = "pluck" -> Pluck(b, c)
      [] c.op = "clear" -> ClearGrouping(b, c.key)

-----------------------------------------------------------------------------
(* Actions: a method call on one builder *)

Make(q, b, c) ==
    /\ builders' = [builders EXCEPT ![q] = b]
    /\ calls' = [calls EXCEPT ![q] = Append(@, c)]
    /\ made' = made + 1

CallWhere(q, c) ==
    /\ c.family = "where"
    /\ Make(q, Where(Flagged(builders[q], c), c), c)
    /\ UNCHANGED objects

CallHaving(q, c) ==
    /\ c.family = "having"
    /\ Make(q, Having(Flagged(builders[q], c), c), c)
    /\ UNCHANGED objects

CallAdd(q, c) ==
    /\ c.family = "add"
    /\ Make(q, Add(builders[q], c), c)
    /\ UNCHANGED objects

CallSet(q, c) ==
    /\ c.family = "set"
    /\ Make(q, Set(builders[q], c), c)
    /\ UNCHANGED objects

\* The object a field refers to, made by this call when there is none yet.
Object(b, c, field) == IF b[field] = 0 THEN c.by ELSE b[field]

Write(ref, key, value) == [objects EXCEPT ![ref] = Put(@, key, value)]

\* limit(), offset() and first(), which is select() and limit(1): the value
\* goes into the builder, the option into the object single.skipBinding.
CallPaging(q, c) ==
    /\ c.family = "paging"
    /\ LET b == builders[q]
           field == IF c.op = "offset" THEN "offset" ELSE "limit"
           ref == Object(b, c, "skip")
           first == IF c.op = "first"
                    THEN [Push(b, c, "columns", "select") EXCEPT !.method = "first"] ELSE b
       IN IF c.op = "first" /\ b.method # "select"
          THEN UNCHANGED objects /\ Make(q, b, c)
          ELSE /\ Make(q, [first EXCEPT ![field] = IF c.op = "first" THEN <<"1">> ELSE Values(c),
                                        !.skip = ref], c)
               /\ objects' = Write(ref, field, IF c.key = "skip" THEN "skip" ELSE "undefined")

\* increment() and decrement() change a query into an update.
CallCounter(q, c) ==
    /\ c.family = "counter"
    /\ LET ref == Object(builders[q], c, "counter")
       IN /\ Make(q, [builders[q] EXCEPT !.method = "update", !.counter = ref], c)
          /\ objects' = Write(ref, c.key, Values(c)[1])

\* update({key: value}) adds to the object of an earlier update().
CallUpdate(q, c) ==
    /\ c.family = "update"
    /\ LET ref == Object(builders[q], c, "update")
       IN /\ Make(q, [builders[q] EXCEPT !.method = "update", !.update = ref], c)
          /\ objects' = Write(ref, c.key, Values(c)[1])

\* The object given to merge({key: value}) is kept as it is.
CallOnConflict(q, c) ==
    /\ c.family = "conflict"
    /\ Make(q, OnConflict(builders[q], c), c)
    /\ objects' = IF c.n = 0 THEN objects ELSE Write(c.by, c.key, Values(c)[1])

\* clearCounters(), clear('counter'): a new, empty object.
CallClearCounters(q, c) ==
    /\ c.family = "clearCounters"
    /\ Make(q, [builders[q] EXCEPT !.counter = c.by], c)
    /\ UNCHANGED objects

\* clone(): the list of statements is copied, the statements, and the objects
\* single refers to, are shared; flags and the timeout are not copied.
CloneOf(b) == [b EXCEPT !.bool = "and", !.not = FALSE, !.timeout = FALSE]

Clone(q, copy) ==
    /\ builders[copy] = None
    /\ builders' = [builders EXCEPT ![copy] = CloneOf(builders[q])]
    /\ calls' = [calls EXCEPT ![copy] = calls[q]]
    /\ made' = made + 1
    /\ UNCHANGED objects

BuilderInit(first) ==
    /\ builders = [q \in Builder |-> IF q = first THEN Fresh ELSE None]
    /\ objects = [ref \in 1..MaxCalls |-> <<>>]
    /\ calls = [q \in Builder |-> <<>>]
    /\ made = 0

Call(q, c) ==
    \/ CallWhere(q, c)   \/ CallHaving(q, c)  \/ CallAdd(q, c)
    \/ CallSet(q, c)     \/ CallPaging(q, c)  \/ CallCounter(q, c)
    \/ CallUpdate(q, c)  \/ CallOnConflict(q, c) \/ CallClearCounters(q, c)

BuilderNext ==
    /\ made < MaxCalls
    /\ \E q \in {p \in Builder : builders[p] # None} :
         \/ \E o \in Offered : Call(q, [o EXCEPT !.by = made + 1, !.on = q])
         \/ \E copy \in Builder : Clone(q, copy)
=============================================================================
