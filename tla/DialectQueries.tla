---------------------------- MODULE DialectQueries ----------------------------
(***************************************************************************)
(* What the dialects override of the query compiler, and Sql, the whole     *)
(* query a dialect d makes of a builder.  mysql, pg, sqlite and oracledb    *)
(* also stand for the clients that share their compilers.                   *)
(***************************************************************************)
EXTENDS QueryCompiler

\* The client option useNullAsDefault: an undefined value is null, not DEFAULT.
CONSTANT UseNullAsDefault

ASSUME UseNullAsDefaultAssumption == UseNullAsDefault \in BOOLEAN

-----------------------------------------------------------------------------
(* Columns *)

\* PostgreSQL writes the last distinct, or distinct on, in front of the columns.
PgColumns(b) ==
    LET columns == Grouped(b, "columns")
        on == {i \in DOMAIN columns : IsDistinctOn(columns[i])}
        distinct == on \cup {i \in DOMAIN columns : columns[i].type = "distinct"}
        front == IF on # {} /\ Max(distinct) \in on THEN <<Max(distinct)>> ELSE <<>>
        rest == SelectSeq([i \in DOMAIN columns |-> i], LAMBDA i : i \notin on)
        list == Written(Map(ColumnSql, columns), front \o rest)
    IN IF OnlyUnions(b) THEN Nothing
       ELSE IF AsksForTable(b) THEN Written(<<TableSql(b), list>>, <<2, 1>>)
       ELSE InOrder(<<list, TableSql(b)>>)

\* MSSQL limits in front of the columns, or with the offset behind the order.
TopSql(b, o) ==
    When(b.limit # Undefined /\ b.offset = Undefined,
         InOrder(<<Word("top"), ValueOrParameter(b, o, "limit")>>))

MssqlOffset(b, o) ==
    When(b.offset # Undefined,
         InOrder(<<Word("offset"), ValueOrParameter(b, o, "offset"),
                   When(b.limit # Undefined, ValueOrParameter(b, o, "limit"))>>))

\* Variant: top is compiled when it is written, after the columns.
MssqlColumnsFirst(b, o) ==
    LET list == InOrder(<<ColumnList(b), DistinctOnFails(b)>>)
    IN Written(<<list, TopSql(b, o), TableSql(b)>>, <<2, 1, 3>>)

MssqlColumns(b, o) ==
    LET list == InOrder(<<ColumnList(b), DistinctOnFails(b)>>)
    IN IF OnlyUnions(b) THEN Nothing
       ELSE IF AsksForTable(b)
            THEN Written(<<TableSql(b), TopSql(b, o), list>>, <<2, 3, 1>>)
       ELSE InOrder(<<TopSql(b, o), list, TableSql(b)>>)

-----------------------------------------------------------------------------
(* Limits and locks *)

\* An offset needs a limit: MySQL writes a big one, SQLite limits to -1.
OffsetOnly(b) == b.limit = Undefined /\ b.offset # Undefined

DialectLimit(d, b, o) ==
    CASE d = "mysql" /\ OffsetOnly(b) -> Word("limit")
      [] d = "sqlite" /\ OffsetOnly(b) ->
           LimitSql([b EXCEPT !.limit = <<"-1">>], o)
      [] OTHER -> LimitSql(b, o)

\* The locks a dialect writes, ignores with a warning, or does not know.
Locks(d) ==
    CASE d \in {"mssql", "mysql"} -> {"forUpdate", "forShare"}
      [] d \in {"pg", "crdb"} -> {"forUpdate", "forShare", "forNoKeyUpdate", "forKeyShare"}
      [] d = "oracledb" -> {"forUpdate"}
      [] OTHER -> {}

LocksIgnored(d) ==
    CASE d \in {"sqlite", "redshift"} -> {"forUpdate", "forShare", "forNoKeyUpdate", "forKeyShare"}
      [] d = "oracledb" -> {"forShare"}
      [] OTHER -> {}

DialectLock(d, b) ==
    CASE b.lock \in Locks(d) -> LockSql(b)
      [] b.lock \in LocksIgnored(d) \cup {""} -> Nothing
      [] OTHER -> Throw

DialectWaitMode(d, b) ==
    IF d \in {"mysql", "pg", "crdb", "redshift"}
    THEN When(b.waitMode # "", Word(b.waitMode)) ELSE WaitModeSql(b)

-----------------------------------------------------------------------------
(* Select *)

\* Oracle numbers the rows of the whole query; the last row is computed.
SurroundQuery(b, o, query) ==
    LET skipped == b.skip # 0 /\ Get(o[b.skip], "offset") = "skip"
    IN IF b.offset = Undefined
       THEN InOrder(<<query, When(b.limit # Undefined, ValueOrParameter(b, o, "limit"))>>)
       ELSE InOrder(<<query, When(~skipped, Bind(<<"last row">>)),
                      ValueOrParameter(b, o, "offset")>>)

MssqlSelect(b, o) ==
    InOrder(<<WithSql(b), MssqlColumns(b, o), JoinSql(b), DialectLock("mssql", b),
              WhereSql("mssql", b), UnionSql(b), GroupSql(b), HavingSql(b), OrderSql(b),
              MssqlOffset(b, o)>>)

DialectColumns(d, b) == IF d \in {"pg", "crdb", "redshift"} THEN PgColumns(b) ELSE ColumnsSql(b)

SelectSql(d, b, o) ==
    CASE d = "mssql" -> MssqlSelect(b, o)
      [] d = "oracledb" ->
           SurroundQuery(b, o, SelectWithTail(d, b, ColumnsSql(b), <<DialectLock(d, b)>>))
      [] OTHER ->
           SelectWithTail(d, b, DialectColumns(d, b),
               <<DialectLimit(d, b, o), OffsetSql(b, o), DialectLock(d, b),
                 DialectWaitMode(d, b)>>)

-----------------------------------------------------------------------------
(* Insert *)

Default == Word("default")

\* _merge: the columns of the insert, or the given updates and the counters.
MergeSql(b, o) ==
    When(b.merge, InOrder(<<Word("merge"), When(b.updates # 0, PrepUpdate(b.updates, b, o))>>))

MergeWhere(d, b) == When(b.merge, WhereSql(d, b))

PgInsert(d, b, o) ==
    LET insert == InsertSql(b, Default)
    IN IF ~Shown(insert) THEN insert
       ELSE InOrder(<<insert, MergeSql(b, o), MergeWhere(d, b)>>)

MysqlInsert(b, o) ==
    LET insert == InsertSql(b, Default)
    IN IF ~Shown(insert) THEN insert
       ELSE InOrder(<<insert, MergeSql(b, o),
                      When(Shown(MergeWhere("mysql", b)), Throw)>>)

\* A row without a value that another row has, which SQLite refuses.
Refuses(b) ==
    ~UseNullAsDefault /\ \E row \in ToSet(PrepInsert(b.insert).values) : "undefined" \in ToSet(row)

\* SQLite selects several rows in a union; their merge has no where.  ignore
\* wins over merge.
SqliteInsert(b, o) ==
    LET merged == [b EXCEPT !.merge = @ /\ ~b.ignore]
        tail == InOrder(<<MergeSql(merged, o),
                          When(Len(b.insert) = 1, MergeWhere("sqlite", merged))>>)
    IN CASE PrepInsert(b.insert).columns = <<>> ->
              Written(<<WithSql(b), TableSql(b), InsertBody(b.insert, Default)>>,
                      IF Len(b.insert) = 1 THEN <<1, 2, 3>> ELSE <<>>)
         [] Refuses(b) -> Throw
         [] OTHER -> InOrder(<<InsertSql(b, Bind(<<"null">>)), tail>>)

\* The inserts that get as far as their merge.
Merges(d, b) ==
    /\ b.method = "insert" /\ b.merge
    /\ \/ d \in {"mysql", "pg", "crdb"} /\ Shown(InsertSql(b, Default))
       \/ d = "sqlite" /\ ~b.ignore /\ ~Refuses(b) /\ PrepInsert(b.insert).columns # <<>>

\* Oracle binds what is returned as out parameters.
OutSql(b) == When(b.returning, Bind(<<"out">>))

\* Several rows are an insert each, of one block: the values of a row are bound
\* before the name of its table, whose text is made, and bound, in the first.
OracleRow(b, prep, i) ==
    LET values == When(prep.columns # <<>>, RowSql(prep.values[i], Default))
        table == IF i = 1 THEN TableSql(b) ELSE [TableSql(b) EXCEPT !.bound = <<>>]
    IN Written(<<values, table, OutSql(b), Word("row")>>, <<4, 2, 1, 3>>)

OracleInsert(b) ==
    LET prep == PrepInsert(b.insert)
        rows == [i \in DOMAIN b.insert |-> OracleRow(b, prep, i)]
        row == When(prep.columns # <<>>, RowSql(prep.values[1], Default))
    IN IF Len(b.insert) = 1 THEN InOrder(<<Word("row"), TableSql(b), row, OutSql(b)>>)
                            ELSE InOrder(rows)

\* With triggers what is returned goes through a temporary table, made like
\* the table of the query.
TempTable(b) == When(b.returning /\ b.triggers, Bind(b.table \o b.table))

TempTableText(b) == [TempTable(b) EXCEPT !.bound = <<>>]

MssqlInsert(b) ==
    LET body == InsertBody(b.insert, Default)
    IN Written(<<WithSql(b), TempTableText(b), TableSql(b), body>>,
               IF Shown(body) THEN <<1, 2, 3, 4>> ELSE <<>>)

DialectInsert(d, b, o) ==
    CASE d = "mysql" -> MysqlInsert(b, o)
      [] d \in {"pg", "crdb"} -> PgInsert(d, b, o)
      [] d = "sqlite" -> SqliteInsert(b, o)
      [] d = "oracledb" -> OracleInsert(b)
      [] d = "mssql" -> MssqlInsert(b)
      [] OTHER -> InsertSql(b, Default)

-----------------------------------------------------------------------------
(* Update *)

MysqlUpdate(b, o) ==
    Written(<<WithSql(b), JoinSql(b), SetSql(b, o), WhereSql("mysql", b), OrderSql(b),
              DialectLimit("mysql", b, o), TableSql(b)>>, <<1, 7, 2, 3, 4, 5, 6>>)

PgUpdate(d, b, o) ==
    Written(<<WithSql(b), SetSql(b, o), WhereSql(d, b), TableSql(b)>>, <<1, 4, 2, 3>>)

MssqlUpdate(b, o) ==
    Written(<<TopSql(b, o), WithSql(b), SetSql(b, o), JoinSql(b), WhereSql("mssql", b),
              OrderSql(b), TempTableText(b), TableSql(b)>>,
            IF Shown(JoinSql(b)) THEN <<2, 7, 1, 8, 3, 8, 4, 5, 6>>
                                 ELSE <<2, 7, 1, 8, 3, 5, 6>>)

\* The common table expressions are not part of an update of Oracle.
OracleUpdate(b, o) ==
    Written(<<SetSql(b, o), WhereSql("oracledb", b), OutSql(b), TableSql(b)>>, <<4, 1, 2, 3>>)

DialectUpdate(d, b, o) ==
    CASE d = "mysql" -> MysqlUpdate(b, o)
      [] d \in {"pg", "crdb"} -> PgUpdate(d, b, o)
      [] d = "mssql" -> MssqlUpdate(b, o)
      [] d = "oracledb" -> OracleUpdate(b, o)
      [] OTHER -> UpdateSql(d, b, o)

-----------------------------------------------------------------------------
(* Delete *)

\* A join of a delete becomes a table to use and conditions between columns.
PgDelete(d, b) ==
    LET joins == Grouped(b, "join")
        TableOf(s) == Bind(IF s.type = "onIn" THEN <<>> ELSE s.col)
    IN Written(<<TableSql(b), WithSql(b), WhereSql(d, b), Bind(b.using),
                 InOrder(Map(TableOf, joins)), Word("delete")>>, <<2, 6, 1, 4, 5, 3>>)

MssqlDelete(b) ==
    Written(<<WithSql(b), TableSql(b), WhereSql("mssql", b), JoinSql(b), TempTableText(b),
              Word("delete")>>,
            IF Shown(JoinSql(b)) THEN <<1, 5, 6, 2, 2, 4, 3>> ELSE <<1, 5, 6, 2, 4, 3>>)

DialectDelete(d, b) ==
    CASE d \in {"pg", "crdb"} -> PgDelete(d, b)
      [] d = "mssql" -> MssqlDelete(b)
      [] OTHER -> DeleteSql(d, b)

-----------------------------------------------------------------------------
(* toSQL *)

\* The compilers of MSSQL and Oracle refuse onConflict, whatever the method.
Refused(d, b) == d \in {"mssql", "oracledb"} /\ (b.merge \/ b.ignore)

Sql(d, b, o) ==
    CASE Refused(d, b) -> Throw
      [] b.method \in {"select", "first", "pluck"} -> SelectSql(d, b, o)
      [] b.method = "insert" -> DialectInsert(d, b, o)
      [] b.method = "update" -> DialectUpdate(d, b, o)
      [] b.method = "del" -> DialectDelete(d, b)
      [] b.method = "truncate" -> TruncateSql(b)
=============================================================================
