------------------------------- MODULE Queries -------------------------------
(***************************************************************************)
(* Query builders and the queries they compile to: a program calls methods, *)
(* clones builders and compiles them (toSQL, toString, toNative, or running *)
(* the query), in any order.  Compiling has effects of its own: callbacks   *)
(* that are arrow functions run on the builder they were written on, the    *)
(* counters move into the object of the update, SQLite sets a limit.        *)
(***************************************************************************)
EXTENDS DialectQueries

CONSTANTS First, Dialects

ASSUME FirstAssumption == First \in Builder /\ Dialects \subseteq Dialect

VARIABLE dialect

vars == <<dialect, builderVars>>

Init == dialect \in Dialects /\ BuilderInit(First)

-----------------------------------------------------------------------------
(* Compiling *)

\* The clauses compiled before one of them throws.
CompiledWheres(b) ==
    LET wheres == Grouped(b, "where")
        fails(i) == Throws(WhereClauseSql(dialect, wheres[i]))
    IN {wheres[i] : i \in {j \in DOMAIN wheres : \A k \in 1..j : ~fails(k)}}

HasWheres(b) ==
    \/ b.method \notin {"insert", "truncate"}
    \/ Merges(dialect, b) /\ (dialect = "sqlite" => Len(b.insert) = 1)

\* andWhere(key, value) on the builder the arrow function belongs to.
ArrowCallbacks(q) ==
    LET arrows == {s \in CompiledWheres(builders[q]) : s.key = "arrow"}
        Clause(b, s, i) == PushClause(b, [s EXCEPT !.type = "whereBasic", !.key = "",
                                          !.val = <<s.val[i]>>, !.bool = b.bool, !.not = b.not])
        Run(b, s) == FoldLeft(LAMBDA x, i : Clause(x, s, i), b, [i \in DOMAIN s.val |-> i])
        On(p) == {s \in arrows : s.on = p}
    IN [p \in Builder |->
          IF builders[p] = None \/ ~HasWheres(builders[q]) THEN builders[p]
          ELSE FoldLeft(Run, builders[p], SetToSeq(On(p)))]

\* Variant: the limit is replaced whenever there is an offset.
KeptNoLimit(b) ==
    IF dialect = "sqlite" /\ b.offset # Undefined THEN [b EXCEPT !.limit = <<"-1">>] ELSE b

\* single.limit = -1
KeptLimit(b) ==
    IF dialect = "sqlite" /\ OffsetOnly(b) /\ b.method \in {"select", "first", "pluck"}
    THEN [b EXCEPT !.limit = <<"-1">>] ELSE b

\* data[column] = raw('?? + ?', ...), where data is the object of update(), or
\* the one given to merge().
KeptCounters(b) ==
    LET ref == CASE b.method = "update" -> b.update
                 [] Merges(dialect, b) -> b.updates
                 [] OTHER -> 0
    IN IF ref = 0 THEN objects ELSE [objects EXCEPT ![ref] = UpdateData(ref, b, objects)]

ToSQL(q) ==
    /\ builders[q] # None
    /\ ~Refused(dialect, builders[q])
    /\ builders' = [ArrowCallbacks(q) EXCEPT ![q] = KeptLimit(@)]
    /\ objects' = KeptCounters(builders[q])
    /\ UNCHANGED <<calls, made, dialect>>

Next ==
    \/ BuilderNext /\ UNCHANGED dialect
    \/ \E q \in Builder : ToSQL(q)

Spec == Init /\ [][Next]_vars

-----------------------------------------------------------------------------
(* What a program expects of a builder, from the calls it made *)

SqlOf(q) == Sql(dialect, builders[q], objects)

Built == {q \in Builder : builders[q] # None}

IsSelect(b) == b.method \in {"select", "first", "pluck"}

Tokens(c) == {Token(c.by, i) : i \in 0..c.n}

\* A call with the wrong number of values throws.
Fails(c) == c.op \in {"whereBetween", "havingBetween"} /\ c.n # 2

\* The calls since the grouping was last cleared.
Live(q, grouping) ==
    LET clears == {i \in DOMAIN calls[q] :
                      calls[q][i].op = "clear" /\ calls[q][i].key = grouping}
    IN IF clears = {} THEN calls[q] ELSE SubSeq(calls[q], Max(clears) + 1, Len(calls[q]))

WhereCalls(q) == SelectSeq(Live(q, "where"), LAMBDA c : c.family = "where" /\ ~Fails(c))

WhereTokens(cs) == UNION {Tokens(cs[i]) : i \in DOMAIN cs}

\* The tokens the call must show: a JSON path may be part of the text.
Given(c) ==
    {Token(c.by, i) : i \in (1..c.n) \ (IF c.op = "whereJsonPath" THEN {1} ELSE {})}
      \cup (IF c.raw THEN {Token(c.by, 0)} ELSE {})

-----------------------------------------------------------------------------
(* Properties *)

\* Shapes whose parts are compiled in another order than they are written in:
\* the bindings of one of them reach the placeholder of the other.
Bound(b, groupings) ==
    \E i \in DOMAIN b.statements :
        /\ b.statements[i].grouping \in groupings
        /\ b.statements[i].col \o b.statements[i].val # <<>>

Misordered(d, b) ==
    LET raw == Len(b.table) > 1
        joined == Grouped(b, "join") # <<>>
    IN \* the columns of a union are compiled after the table
       \/ IsSelect(b) /\ raw /\ AsksForTable(b)
            /\ (Bound(b, {"columns"}) \/ (d = "mssql" /\ b.limit # Undefined))
       \* distinct on is written in front of the columns before it
       \/ d \in {"pg", "crdb", "redshift"} /\ IsSelect(b) /\ Bound(b, {"columns"})
            /\ \E s \in ToSet(b.statements) : IsDistinctOn(s)
       \* in lists compile their values before their column
       \/ \E s \in ToSet(b.statements) : s.type \in {"whereIn", "onIn"} /\ s.col # <<>>
       \* a table named twice, and one compiled at another time than written
       \/ b.method \in {"update", "del"} /\ raw
       \/ b.method = "insert" /\ raw /\ b.returning /\ b.triggers
       \/ d = "oracledb" /\ b.method = "insert" /\ raw /\ Len(b.insert) > 1
       \* the joins and the wheres of a delete, the limit of an update of MSSQL
       \/ b.method = "del" /\ joined /\ Bound(b, {"join"}) /\ Bound(b, {"where"})
       \/ d = "mssql" /\ b.method = "update" /\ b.limit # Undefined /\ Bound(b, {"with"})

\* The driver receives the bindings in the order of the placeholders they
\* were made for: no value reaches another clause, whatever the dialect
\* overrides and in whatever order it compiles the parts of a query.
BindingsAligned ==
    \A q \in Built : Aligned(SqlOf(q)) \/ Misordered(dialect, builders[q])

\* A clause is negated and connected as the call that made it says, and it
\* tests what the call names: flags that an earlier call left behind do not
\* reach it, unless that call threw or gave an object without keys.
LeavesFlags(c) ==
    (c.or \/ c.not) /\ (Fails(c) \/ (c.op = "whereObject" /\ c.n = 0))

Negated(c) == c.not \/ c.key = "not in"

\* The keys of an object after the first are connected with and.
Further(s, c) == c.op = "whereObject" /\ s.val # <<Token(c.by, 1)>>

AsAsked(s, c) ==
    /\ s.bool = (IF c.or /\ ~Further(s, c) THEN "or" ELSE "and")
    /\ IF s.val \in {<<"0">>, <<"1">>} THEN s.val = <<IF Negated(c) THEN "1" ELSE "0">>
                                      ELSE s.not = Negated(c)
    /\ s.type = c.op \/ c.op \in {"whereObject", "whereOperatorIn", "orWhereObject"}
         \/ s.type = "whereBasic" \/ s.grouping = "join"

CallOf(q, s) == CHOOSE c \in ToSet(calls[q]) : c.by = s.by

ClausesAsAsked ==
    \A q \in Built :
        (\E c \in ToSet(calls[q]) : LeavesFlags(c))
        \/ \A s \in ToSet(builders[q].statements) :
              s.grouping \in {"where", "having", "join"} => AsAsked(s, CallOf(q, s))

\* The where clauses of a query are those of the calls made on its builder
\* since they were last cleared, each once: none is lost, which would widen
\* an update or a delete, and none comes back.
WheresKept ==
    \A q \in Built :
        LET piece == SqlOf(q)
            mine == UNION {Tokens(c) : c \in {x \in ToSet(calls[q]) : x.family = "where"}}
            shown == SelectSeq(piece.text, LAMBDA t : t \in mine)
            live == WhereCalls(q)
        IN \/ Throws(piece)
           \/ ~(IsSelect(builders[q]) \/ builders[q].method \in {"update", "del"})
           \/ /\ IsInjective(shown)
              /\ ToSet(shown) \subseteq WhereTokens(live)
              /\ \A c \in ToSet(live) : Given(c) \subseteq ToSet(shown)

\* An update assigns to every column the value of the last update() of it, or
\* else of the last increment or decrement since the counters were cleared; the
\* merge of an insert that of its own object, or else of the counters.
\* Two builders that share an object also share what is written to it, and
\* counters that were compiled into the object of an update stay there.
LastOf(cs, key) ==
    LET at == {i \in DOMAIN cs : cs[i].key = key}
    IN IF at = {} THEN {} ELSE {Token(cs[Max(at)].by, 1)}

Shared(q) ==
    \E p \in Built \ {q} : \E f \in {"update", "updates", "counter"} :
        builders[p][f] # 0 /\ builders[p][f] = builders[q][f]

Moved(q) ==
    \E ref \in {builders[q].update, builders[q].updates} \ {0} :
    \E c \in ToSet(calls[q]), v \in Range(objects[ref]) :
        c.family = "counter" /\ v[2] = Token(c.by, 1)

\* The calls that gave the object which is compiled: a merge replaces the one
\* before it.
Assigning(q) ==
    LET Of(family) == SelectSeq(calls[q], LAMBDA c : c.family = family /\ c.key # "ignore")
    IN IF builders[q].method = "update" THEN Of("update") ELSE <<Last(Of("conflict"))>>

UpdatesKept ==
    \A q \in Built :
        LET b == builders[q]
            counters == SelectSeq(Live(q, "counter"), LAMBDA c : c.family = "counter")
            Expected(k) == IF LastOf(Assigning(q), k) # {} THEN LastOf(Assigning(q), k)
                                                           ELSE LastOf(counters, k)
            mine == UNION {Tokens(c) : c \in {x \in ToSet(calls[q]) :
                                                x.family \in {"update", "conflict", "counter"}}}
            piece == SqlOf(q)
        IN \/ ~(b.method = "update" \/ (Merges(dialect, b) /\ b.updates # 0))
           \/ Throws(piece) \/ Shared(q) \/ Moved(q)
           \/ ToSet(SelectSeq(piece.text, LAMBDA t : t \in mine)) = UNION {Expected(k) : k \in {"x", "y"}}

\* Every row of an insert gives each column the value it has for it: a column
\* that only a later row has is inserted into the rows before it.
InsertedAsGiven ==
    \A q \in Built :
        LET rows == builders[q].insert
            prep == PrepInsert(rows)
        IN /\ ToSet(prep.columns) = UNION {Keys(rows[r]) : r \in DOMAIN rows}
           /\ \A r \in DOMAIN rows :
                prep.values[r] = [i \in DOMAIN prep.columns |-> Get(rows[r], prep.columns[i])]

\* Compiling a query, to log it or to run it, does not change what any
\* builder compiles to; but the counters of a clone reach the builders that
\* share the object of the update with it.
CompileIsPure ==
    [][\A p \in Builder : ToSQL(p) =>
         \A q \in Built :
            \/ Sql(dialect, builders'[q], objects') = SqlOf(q)
            \/ q # p /\ builders[p].counter # 0 /\ Shared(q)]_vars
=============================================================================
