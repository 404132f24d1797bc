--------------------------- MODULE SchemaCompiler ---------------------------
(***************************************************************************)
(* The table builder and the table compilers: the calls a program makes in  *)
(* one createTable or alterTable callback, and the statements each dialect  *)
(* compiles them to.  A call is a record with the method (op), the columns  *)
(* (cols; list tells an array from a plain string), the name of the         *)
(* constraint or "", for a check whether it has bindings (bound), and for a *)
(* column its type, nullable, default, checks and alter.  Comments, lengths *)
(* and types beyond these are left out.                                     *)
(***************************************************************************)
EXTENDS Tables

IsColumn(c) == c.op = "column"

Adds(calls)   == SelectSeq(calls, LAMBDA c : IsColumn(c) /\ ~c.alter)
Alters(calls) == SelectSeq(calls, LAMBDA c : IsColumn(c) /\ c.alter)
Others(calls) == SelectSeq(calls, LAMBDA c : ~IsColumn(c))
Of(calls, op) == SelectSeq(calls, LAMBDA c : c.op = op)

\* Without a name: the table, the columns and the kind; t_pkey for the key.
IndexName(kind, c) ==
    IF c.name # "" THEN <<c.name>>
    ELSE IF kind = "primary" THEN <<"primary">> ELSE <<kind>> \o c.cols

-----------------------------------------------------------------------------
(* Columns *)

\* Enums are checked texts here, types of their own or plain texts elsewhere.
EnumChecks(dialect, c) ==
    IF c.type = "enu" /\ dialect \in {"pg", "oracledb", "sqlite"} THEN <<"in">> ELSE <<>>

\* increments() is the primary key unless primary() is called; SQLite and
\* Redshift do not look.
CanBeAddPrimaryKey(dialect, calls) ==
    dialect \in {"sqlite", "redshift"} \/ Of(calls, "primary") = <<>>

CompileColumn(dialect, c, calls) ==
    LET increments == c.type = "increments"
    IN [name    |-> c.cols[1],
        type    |-> c.type,
        notnull |-> IF increments \/ ~c.null THEN "yes" ELSE "no",
        default |-> IF increments THEN "" ELSE c.default,
        checks  |-> EnumChecks(dialect, c) \o c.checks,
        pk      |-> increments /\ CanBeAddPrimaryKey(dialect, calls)]

CompileColumns(dialect, columns, calls) ==
    [i \in DOMAIN columns |-> CompileColumn(dialect, columns[i], calls)]

IncrementsNames(calls) ==
    LET columns == SelectSeq(calls, LAMBDA c : IsColumn(c) /\ c.type = "increments")
    IN [i \in DOMAIN columns |-> columns[i].cols[1]]

-----------------------------------------------------------------------------
(* Constraints *)

\* An error while compiling, before any statement is sent, and a statement no
\* database of the dialect takes.
Throws == [do |-> "throws"]
Refused == [do |-> "refused"]
Constrain(con) == [do |-> "constrain", con |-> con]
Unconstrain(kind, name) == [do |-> "unconstrain", kind |-> kind, name |-> name]
Alter(col, change) == [do |-> "alter", col |-> col, change |-> change, withDefault |-> FALSE]

Rebuild(how, c) == <<[do |-> "rebuild", how |-> how, call |-> c, columns |-> <<>>]>>

Con(kind, c) == [kind |-> kind, name |-> IndexName(kind, c), cols |-> c.cols, level |-> "table"]

\* Without a name the database chooses one.
NamedBy(kind, c) ==
    [Con(kind, c) EXCEPT !.name = IF c.name # "" THEN @ ELSE <<"auto">>]

\* MySQL and Oracle put the increments columns first; unshift is a method of
\* arrays only.
MustUnshift(c, calls) == ToSet(IncrementsNames(calls)) \ ToSet(c.cols) # {}

WithIncrements(c, calls) ==
    [c EXCEPT !.cols = SelectSeq(IncrementsNames(calls), LAMBDA n : n \notin ToSet(@)) \o @]

PrimaryWithIncrements(c, calls) ==
    IF MustUnshift(c, calls) /\ ~c.list THEN Throws
    ELSE Constrain(Con("primary", WithIncrements(c, calls)))

\* Redshift: only columns the same callback adds as not null, if it adds any.
RedshiftTakes(c, calls) ==
    LET columns == SelectSeq(calls, IsColumn)
    IN columns = <<>> \/ \A i \in DOMAIN c.cols : \E j \in DOMAIN columns :
         ~columns[j].alter /\ columns[j].cols[1] = c.cols[i] /\ ~columns[j].null

Primary(dialect, c, calls) ==
    CASE dialect \in {"mysql", "oracledb"} -> <<PrimaryWithIncrements(c, calls)>>
      [] dialect = "redshift" ->
           IF RedshiftTakes(c, calls) THEN <<Constrain(Con("primary", c))>> ELSE <<>>
      [] dialect = "sqlite" -> Rebuild("primary", c)
      [] OTHER -> <<Constrain(Con("primary", c))>>

Unique(dialect, c) ==
    <<Constrain([Con("unique", c) EXCEPT !.level = IF dialect = "sqlite" THEN "index" ELSE "table"])>>

Index(dialect, c) ==
    IF dialect = "redshift" THEN <<>>
    ELSE <<Constrain([Con("index", c) EXCEPT !.level = "index"])>>

Foreign(dialect, c) ==
    IF dialect = "sqlite" THEN Rebuild("foreign", c)
                          ELSE <<Constrain(Con("foreign", c))>>

DropForeign(dialect, c) ==
    IF dialect = "sqlite" THEN Rebuild("dropForeign", c)
                          ELSE <<Unconstrain("foreign", IndexName("foreign", c))>>

\* MySQL's key has one name.
DropPrimary(dialect, c) ==
    CASE dialect = "sqlite" -> Rebuild("dropPrimary", c)
      [] dialect = "mysql" -> <<Unconstrain("primary", <<"primary">>)>>
      [] OTHER -> <<Unconstrain("primary", IndexName("primary", c))>>

DropUnique(c) == <<Unconstrain("unique", IndexName("unique", c))>>

DropIndex(dialect, c) ==
    IF dialect = "redshift" THEN <<>> ELSE <<Unconstrain("index", IndexName("index", c))>>

\* Without a name a check gets the quoted name of the table and a number behind
\* the quotes, no identifier anywhere; bindings are dropped, and their marks are
\* left in the predicate.
Check(dialect, c) ==
    IF dialect = "sqlite" \/ c.name = "" \/ c.bound THEN <<Refused>>
    ELSE <<Constrain(Con("check", c))>>

-----------------------------------------------------------------------------
(* Columns of an existing table *)

\* Oracle's dropColumn uses helpers the module does not import.
DropColumn(dialect, c) ==
    CASE dialect = "oracledb" -> <<Throws>>
      [] dialect = "sqlite" -> Rebuild("dropColumn", c)
      [] OTHER -> <<[do |-> "drop", names |-> c.cols]>>

\* MySQL drops the foreign keys that reference the table and makes them anew.
RenameColumn(dialect, c) ==
    LET rename == [do |-> "rename", col |-> c.cols[1], to |-> c.to]
    IN IF dialect = "mysql"
       THEN <<[do |-> "dropRefs"], rename, [rename EXCEPT !.do = "createRefs"]>>
       ELSE <<rename>>

\* MySQL and SQL Server repeat the type and the default they read.
SetNullableState(dialect, c, notnull) ==
    IF dialect = "sqlite"
    THEN Rebuild("setNullable", c)
    ELSE <<[Alter(c.cols[1], [notnull |-> notnull])
              EXCEPT !.withDefault = (dialect \in {"mysql", "mssql"})]>>

TableStatements(dialect, c, calls) ==
    CASE c.op = "primary" -> Primary(dialect, c, calls)
      [] c.op = "unique" -> Unique(dialect, c)
      [] c.op = "index" -> Index(dialect, c)
      [] c.op = "foreign" -> Foreign(dialect, c)
      [] c.op = "check" -> Check(dialect, c)
      [] c.op = "dropPrimary" -> DropPrimary(dialect, c)
      [] c.op = "dropUnique" -> DropUnique(c)
      [] c.op = "dropIndex" -> DropIndex(dialect, c)
      [] c.op = "dropForeign" -> DropForeign(dialect, c)
      [] c.op = "dropColumn" -> DropColumn(dialect, c)
      [] c.op = "renameColumn" -> RenameColumn(dialect, c)
      [] c.op = "setNullable" -> SetNullableState(dialect, c, "no")
      [] c.op = "dropNullable" -> SetNullableState(dialect, c, "yes")

\* alterTable(): the statements in the order of the calls.
AlterTable(dialect, rest, calls) ==
    FlattenSeq([i \in DOMAIN rest |-> TableStatements(dialect, rest[i], calls)])

-----------------------------------------------------------------------------
(* Creating a table *)

\* What create table itself says of keys: the first primary() in MySQL and
\* SQLite (a unique constraint there when the key is taken by increments),
\* all keys in SQL Server and SQLite's foreign keys.
CreateConstraints(dialect, calls) ==
    LET keys == Of(calls, "primary")
        foreigns == ToSet(Of(calls, "foreign"))
    IN {NamedBy("check", c) : c \in ToSet(Of(calls, "check"))} \cup
       CASE dialect = "mysql" ->
              IF keys = <<>> THEN {} ELSE {Con("primary", WithIncrements(keys[1], calls))}
         [] dialect = "mssql" ->
              {Con("primary", c) : c \in ToSet(keys)} \cup {Con("foreign", c) : c \in foreigns}
         [] dialect = "sqlite" ->
              {NamedBy("foreign", c) : c \in foreigns}
                \cup IF keys = <<>> THEN {}
                     ELSE {NamedBy(IF IncrementsNames(calls) # <<>> THEN "unique" ELSE "primary", keys[1])}
         [] OTHER -> {}

\* The calls that are part of create table are not statements again.
AfterCreate(dialect, calls) ==
    SelectSeq(Others(calls),
              LAMBDA c : CASE c.op = "check" -> FALSE
                           [] c.op = "primary" -> dialect \notin {"mysql", "mssql", "sqlite"}
                           [] c.op = "foreign" -> dialect \notin {"mssql", "sqlite"}
                           [] OTHER -> TRUE)

CannotCreate(dialect, calls) ==
    /\ dialect = "mysql"
    /\ Of(calls, "primary") # <<>>
    /\ MustUnshift(Of(calls, "primary")[1], calls) /\ ~Of(calls, "primary")[1].list

Create(dialect, calls) ==
    LET create == [do   |-> "create",
                   cols |-> CompileColumns(dialect, Adds(calls), calls),
                   cons |-> CreateConstraints(dialect, calls)]
    IN IF CannotCreate(dialect, calls) THEN <<Throws>>
       ELSE <<create>> \o AlterTable(dialect, AfterCreate(dialect, calls), calls)

-----------------------------------------------------------------------------
(* Altering a table: new columns first, then changed ones, then the rest *)

AddColumns(dialect, calls) ==
    LET columns == CompileColumns(dialect, Adds(calls), calls)
    IN CASE columns = <<>> -> <<>>
         [] dialect \in {"sqlite", "redshift"} ->
              [i \in DOMAIN columns |-> [do |-> "add", cols |-> <<columns[i]>>]]
         [] OTHER -> <<[do |-> "add", cols |-> columns]>>

\* PostgreSQL: one statement per attribute; a checked text is no type to
\* alter a column to.
AlterColumnPg(col, c) ==
    <<Alter(col.name, [default |-> ""]), Alter(col.name, [notnull |-> "no"])>>
      \o (IF c.type = "enu" /\ col.checks # <<>> THEN <<Refused>> ELSE <<Alter(col.name, [type |-> col.type])>>)
      \o (IF col.default # "" THEN <<Alter(col.name, [default |-> col.default])>> ELSE <<>>)
      \o (IF col.notnull = "yes" THEN <<Alter(col.name, [notnull |-> "yes"])>> ELSE <<>>)

AlterColumn(dialect, c, calls) ==
    LET col == CompileColumn(dialect, c, calls)
    IN CASE dialect \in {"pg", "redshift"} -> AlterColumnPg(col, c)
         [] dialect = "mysql" ->
              <<Alter(col.name, [type |-> col.type, default |-> col.default, notnull |-> col.notnull])>>
         [] dialect = "mssql" ->
              <<Alter(col.name, [type |-> col.type, notnull |-> col.notnull])>>
         [] dialect = "oracledb" ->
              <<Alter(col.name, [attribute \in {"type", "checks"}
                                   \cup (IF c.default # "" THEN {"default"} ELSE {})
                                   \cup (IF c.null THEN {} ELSE {"notnull"}) |->
                                 IF attribute = "checks" THEN EnumChecks(dialect, c) ELSE col[attribute]])>>

\* MySQL and Oracle change the columns in one statement, each of them once.
AlterColumns(dialect, calls) ==
    LET altered == Alters(calls)
        columns == {altered[i].cols[1] : i \in DOMAIN altered}
    IN CASE altered = <<>> -> <<>>
         [] dialect \in {"mysql", "oracledb"} /\ Cardinality(columns) < Len(altered) -> <<Refused>>
         [] dialect = "sqlite" ->
              IF \E i \in DOMAIN altered : altered[i].checks # <<>> THEN <<Throws>>
              ELSE <<[Rebuild("alterColumn", altered[1])[1]
                       EXCEPT !.columns = CompileColumns(dialect, altered, calls)]>>
         [] OTHER -> FlattenSeq([i \in DOMAIN altered |-> AlterColumn(dialect, altered[i], calls)])

\* Once for each changed column with a default: SQL Server drops it first and
\* adds the new one after everything else.
EachDefault(calls, Statement(_)) ==
    LET defaulted == SelectSeq(Alters(calls), LAMBDA c : c.default # "")
    IN [i \in DOMAIN defaulted |-> Statement(defaulted[i])]

DropDefaults(dialect, calls) ==
    IF dialect # "mssql" THEN <<>>
    ELSE EachDefault(calls, LAMBDA c : Alter(c.cols[1], [default |-> ""]))

AddDefaults(dialect, calls) ==
    IF dialect # "mssql" THEN <<>>
    ELSE EachDefault(calls, LAMBDA c : Alter(c.cols[1], [default |-> c.default]))

\* The checks of a changed column come as statements of their own, numbered
\* anew in every change.
AddChecks(calls) ==
    LET altered == Alters(calls)
    IN FlattenSeq([i \in DOMAIN altered |-> [j \in DOMAIN altered[i].checks |->
         Constrain([kind |-> "check", name |-> <<"check", altered[i].cols[1], ToString(j)>>,
                    cols |-> altered[i].cols, level |-> "table"])]])

AlterStatements(dialect, calls) ==
    AddColumns(dialect, calls)
      \o DropDefaults(dialect, calls) \o AlterColumns(dialect, calls)
      \o AddDefaults(dialect, calls) \o AddChecks(calls)
      \o AlterTable(dialect, Others(calls), calls)

Compile(dialect, method, calls) ==
    IF method = "alter" THEN AlterStatements(dialect, calls) ELSE Create(dialect, calls)
=============================================================================
