---------------------------- MODULE QueryCompiler ----------------------------
(***************************************************************************)
(* The base query compiler: what each method of QueryCompiler makes of a    *)
(* builder's record b and of the objects o it refers to.  The statements of *)
(* a builder are grouped when the compiler is made, so what a callback adds *)
(* to the builder while it is compiled is not part of the text.             *)
(***************************************************************************)
EXTENDS QueryBuilder

Dialect == {"mssql", "mysql", "pg", "crdb", "redshift", "sqlite", "oracledb"}

Grouped(b, grouping) == SelectSeq(b.statements, LAMBDA s : s.grouping = grouping)

Map(Op(_), seq) == [i \in DOMAIN seq |-> Op(seq[i])]

Compiled(Op(_), b, grouping) == InOrder(Map(Op, Grouped(b, grouping)))

\* _not(statement, ...)
Not(s) == When(s.not, Word("not"))

ColumnThenValue(s) == InOrder(<<Not(s), Bind(s.col), Word(s.type), Bind(s.val)>>)

\* The values are made into placeholders before the column is looked at.
ValueThenColumn(s) ==
    Written(<<Bind(s.val), Bind(s.col), Not(s)>>, <<2, 3, 1>>)

\* on...: an onIn asks for the values first.
OnClause(s) ==
    IF s.type = "onIn" THEN ValueThenColumn(s) ELSE InOrder(<<Bind(s.col), Not(s), Bind(s.val)>>)

\* A callback that is an arrow function leaves the builder made for it empty.
WrappedClause(s) ==
    When(s.key # "arrow", InOrder(<<Not(s), Word("("), Bind(s.val), Word(")")>>))

\* The path of a JSON clause is bound, or written into the text; none of the
\* dialects looks at the negation.
WhereJsonPath(d, s) ==
    InOrder(<<Bind(s.col), When(d # "oracledb", Bind(<<s.val[1]>>)), Bind(<<s.val[2]>>)>>)

WhereJsonSupersetOf(d, s) ==
    IF d \in {"mysql", "pg", "crdb"} THEN ColumnThenValue(s) ELSE Throw

WhereJsonSubsetOf(d, s) ==
    CASE d = "mysql" -> InOrder(<<Not(s), Bind(s.val), Bind(s.col)>>)
      [] d \in {"pg", "crdb"} -> ColumnThenValue(s)
      [] OTHER -> Throw

WhereClauseSql(d, s) ==
    CASE s.type = "whereIn" -> ValueThenColumn(s)
      [] s.type = "whereWrapped" -> WrappedClause(s)
      [] s.type = "whereJsonPath" -> WhereJsonPath(d, s)
      [] s.type = "whereJsonSupersetOf" -> WhereJsonSupersetOf(d, s)
      [] s.type = "whereJsonSubsetOf" -> WhereJsonSubsetOf(d, s)
      [] OTHER -> ColumnThenValue(s)

HavingClauseSql(s) ==
    IF s.type = "havingWrapped" THEN WrappedClause(s) ELSE ColumnThenValue(s)

\* The clauses that come out empty leave no keyword behind.
Clauses(word, Sql(_), list) ==
    LET shown == SelectSeq(list, LAMBDA s : Shown(Sql(s)))
    IN InOrder([i \in DOMAIN shown |->
                  InOrder(<<Word(IF i = 1 THEN word ELSE shown[i].bool), Sql(shown[i])>>)])

\* An undefined value is noticed on the way; toSQL throws when it is done.
WhereSql(d, b) ==
    InOrder(<<Clauses("where", LAMBDA s : WhereClauseSql(d, s), Grouped(b, "where")),
              When(\E i \in DOMAIN Grouped(b, "where") :
                      "undefined" \in ToSet(Grouped(b, "where")[i].val), Throw)>>)

HavingSql(b) == Clauses("having", HavingClauseSql, Grouped(b, "having"))

TableSql(b) == Bind(b.table)

\* The table and the clause of one join.  Where the join has a raw expression
\* it is the table, and for an onIn the column.
JoinClauseSql(s) == InOrder(<<Word("join"), OnClause(s)>>)

JoinSql(b) == Compiled(JoinClauseSql, b, "join")

WithClauseSql(s) == Bind(s.val)

WithSql(b) == Headed("with", Compiled(WithClauseSql, b, "with"))

GroupItemSql(s) == Bind(s.col)

GroupSql(b) == Headed("group by", Compiled(GroupItemSql, b, "group"))
OrderSql(b) == Headed("order by", Compiled(GroupItemSql, b, "order"))

-----------------------------------------------------------------------------
(* columns and unions *)

\* The first column statement without a plain value keeps the columns.
OnlyColumnless(b) ==
    LET columns == Grouped(b, "columns")
    IN columns = <<>> \/ columns[1].type \notin {"jsonExtract", "analytic"}

\* onlyUnions() looks at the table, and so compiles it, only when there is a
\* union and nothing before it decided.
AsksForTable(b) == OnlyColumnless(b) /\ Grouped(b, "union") # <<>>

OnlyUnions(b) == AsksForTable(b) /\ b.table = Undefined

JsonExtractSql(s) == InOrder(<<Word("json"), Bind(s.col), Bind(s.val)>>)

AnalyticSql(s) == InOrder(<<Word("analytic"), Bind(s.col)>>)

AggregateSql(s) == InOrder(<<Word("aggregate"), Bind(s.col)>>)

\* jsonSet, jsonInsert and jsonRemove look for params, which their statements
\* do not have.
ColumnSql(s) ==
    CASE s.type = "jsonExtract" -> JsonExtractSql(s)
      [] s.type = "jsonSet" -> Throw
      [] s.type = "analytic" -> AnalyticSql(s)
      [] s.type \in {"aggregate", "aggregateRaw"} -> AggregateSql(s)
      [] OTHER -> InOrder(<<Word("column"), Bind(s.col)>>)

IsDistinctOn(s) == s.type = "distinctOn"

ColumnList(b) ==
    LET columns == SelectSeq(Grouped(b, "columns"), LAMBDA s : ~IsDistinctOn(s))
    IN InOrder(Map(ColumnSql, columns))

\* distinctOn is an error but for PostgreSQL.
DistinctOnFails(b) == When(\E s \in ToSet(b.statements) : IsDistinctOn(s), Throw)

ColumnsSql(b) ==
    LET table == TableSql(b)
        list == InOrder(<<ColumnList(b), DistinctOnFails(b)>>)
    IN IF OnlyUnions(b) THEN Nothing
       ELSE IF AsksForTable(b) THEN Written(<<table, list>>, <<2, 1>>)
       ELSE InOrder(<<list, table>>)

UnionClauseSql(s) == InOrder(<<Word("union"), Bind(s.val)>>)

UnionSql(b) == Compiled(UnionClauseSql, b, "union")

-----------------------------------------------------------------------------
(* limit, offset, locks *)

\* A value whose binding is skipped is written into the text as it is.
ValueOrParameter(b, o, field) ==
    IF b.skip # 0 /\ Get(o[b.skip], field) = "skip" THEN Word("literal") ELSE Bind(b[field])

LimitSql(b, o) ==
    When(b.limit # Undefined, InOrder(<<Word("limit"), ValueOrParameter(b, o, "limit")>>))
OffsetSql(b, o) ==
    When(b.offset # Undefined, InOrder(<<Word("offset"), ValueOrParameter(b, o, "offset")>>))

LockSql(b) == When(b.lock # "", Word(b.lock))

\* skipLocked and noWait are errors unless the dialect has them.
WaitModeSql(b) == When(b.waitMode # "", Throw)

-----------------------------------------------------------------------------
(* The statements *)

\* with, columns, join, where, union, group, having, order, then what the
\* dialect makes of limit, offset and locks.
SelectWithTail(d, b, columns, tail) ==
    InOrder(<<WithSql(b), columns, JoinSql(b), WhereSql(d, b), UnionSql(b), GroupSql(b),
              HavingSql(b), OrderSql(b)>> \o tail)

\* _prepInsert: the columns are the sorted keys of the first row; a key that
\* shows up later is sorted in, and the rows made so far get a hole there.
IndexIn(columns, key) == CHOOSE i \in DOMAIN columns : columns[i] = key

Sorted(keys) == SelectSeq(<<"x", "y", "z">>, LAMBDA k : k \in keys)

FillRow(columns, row) == [i \in DOMAIN columns |-> Get(row, columns[i])]

\* Variant: the rows made before a new column stay as they are.
PrepInsertOnce(rows) ==
    LET NextRow(prep, row) ==
            LET columns == Sorted(ToSet(prep.columns) \cup Keys(row))
            IN [columns |-> columns, values |-> Append(prep.values, FillRow(columns, row))]
    IN FoldLeft(NextRow, [columns |-> <<>>, values |-> <<>>], rows)

PrepInsert(rows) ==
    LET NextRow(prep, row) ==
            LET columns == Sorted(ToSet(prep.columns) \cup Keys(row))
                Widen(values) ==
                    [i \in DOMAIN columns |->
                        IF columns[i] \in ToSet(prep.columns)
                        THEN values[IndexIn(prep.columns, columns[i])] ELSE "undefined"]
            IN [columns |-> columns,
                values |-> Append(Map(Widen, prep.values), FillRow(columns, row))]
    IN FoldLeft(NextRow, [columns |-> <<>>, values |-> <<>>], rows)

\* parameterize() puts valueForUndefined where a row has nothing: a raw
\* DEFAULT, or null under a placeholder of its own.
RowSql(values, default) ==
    InOrder([i \in DOMAIN values |->
               IF values[i] = "undefined" THEN default ELSE Bind(<<values[i]>>)])

\* One row without columns is a row of defaults, several are nothing.
InsertBody(rows, default) ==
    LET RowOf(values) == InOrder(<<Word("row"), RowSql(values, default)>>)
        prep == PrepInsert(rows)
    IN When(prep.columns # <<>> \/ Len(rows) = 1, InOrder(Map(RowOf, prep.values)))

InsertSql(b, default) ==
    LET body == InsertBody(b.insert, default)
    IN Written(<<WithSql(b), TableSql(b), body>>, IF Shown(body) THEN <<1, 2, 3>> ELSE <<>>)

ObjectAt(ref, o) == IF ref = 0 THEN <<>> ELSE o[ref]

\* Variant: a counter is added to a column that the update sets.
UpdateDataTwice(ref, b, o) == ObjectAt(ref, o) \o ObjectAt(b.counter, o)

\* The values of an update, or of a merge, then the counters whose column they
\* do not set.
UpdateData(ref, b, o) ==
    LET data == ObjectAt(ref, o)
    IN data \o SelectSeq(ObjectAt(b.counter, o), LAMBDA p : p[1] \notin Keys(data))

\* _prepUpdate: an update without values is an error.
PrepUpdate(ref, b, o) ==
    LET data == UpdateData(ref, b, o)
        Assignment(p) == Bind(<<p[2]>>)
    IN IF data = <<>> THEN Throw ELSE InOrder(Map(Assignment, data))

SetSql(b, o) == PrepUpdate(b.update, b, o)

UpdateSql(d, b, o) ==
    InOrder(<<WithSql(b), Word("update"), TableSql(b), SetSql(b, o), WhereSql(d, b)>>)

\* With joins, the table is named twice.
DeleteSql(d, b) ==
    Written(<<TableSql(b), WithSql(b), WhereSql(d, b), JoinSql(b), Word("delete")>>,
            IF Shown(JoinSql(b)) THEN <<2, 5, 1, 1, 4, 3>> ELSE <<2, 5, 1, 4, 3>>)

TruncateSql(b) == InOrder(<<Word("truncate"), TableSql(b)>>)
=============================================================================
