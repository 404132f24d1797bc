------------------------------- MODULE Tables -------------------------------
(***************************************************************************)
(* What the databases make of the statements of the schema compilers: one   *)
(* table with one row, and one table (the child) whose only row references  *)
(* it.  A definition is a list of columns and a set of constraints; names   *)
(* of constraints are sequences of words, <<"auto">> for one the database   *)
(* gives.  level tells the indexes of SQLite from the constraints written   *)
(* in the table's own definition.                                           *)
(***************************************************************************)
EXTENDS Naturals, FiniteSets, Sequences, SequencesExt

Dialect == {"pg", "redshift", "mysql", "mssql", "oracledb", "sqlite"}

NoTable == [cols |-> <<>>, cons |-> {}]

Exists(table) == table.cols # <<>>
Names(table)  == {table.cols[i].name : i \in DOMAIN table.cols}
At(table, name) == CHOOSE i \in DOMAIN table.cols : table.cols[i].name = name

Touches(con, names) == ToSet(con.cols) \cap names # {}
ConsOf(table, kind) == {con \in table.cons : con.kind = kind}

InlineKeys(cols) == {cols[i].name : i \in {j \in DOMAIN cols : cols[j].pk}}

PrimaryKeys(table) ==
    {ToSet(con.cols) : con \in ConsOf(table, "primary")}
        \cup {{name} : name \in InlineKeys(table.cols)}

\* A primary key written with its column is a constraint of its own, under a
\* name the database chooses, except in the text SQLite keeps.
KeyName(dialect) == IF dialect \in {"mssql", "oracledb"} THEN <<"auto">> ELSE <<"primary">>

Stored(dialect, table) ==
    IF dialect = "sqlite" THEN table
    ELSE [cols |-> [i \in DOMAIN table.cols |-> [table.cols[i] EXCEPT !.pk = FALSE]],
          cons |-> {IF con.kind = "primary" /\ dialect = "mysql"
                    THEN [con EXCEPT !.name = <<"primary">>] ELSE con : con \in table.cons}
                   \cup {[kind |-> "primary", name |-> KeyName(dialect), cols |-> <<name>>,
                          level |-> "table"] : name \in InlineKeys(table.cols)}]

\* A definition the database takes.
Sound(table) ==
    /\ Exists(table)
    /\ Cardinality(Names(table)) = Len(table.cols)
    /\ Cardinality(PrimaryKeys(table)) <= 1
    /\ \A con \in table.cons : ToSet(con.cols) \subseteq Names(table)
    /\ \A c1, c2 \in table.cons :
         c1.name = c2.name /\ c1.name # <<"auto">> => c1 = c2

Dropped(table, con) == [table EXCEPT !.cons = @ \ {con}]

\* Columns are dropped with the constraints on them in PostgreSQL; MySQL takes
\* the column out of its indexes.
Narrowed(con, names) == [con EXCEPT !.cols = SelectSeq(@, LAMBDA n : n \notin names)]

AfterDrop(dialect, cons, names) ==
    IF dialect = "mysql" THEN {con \in {Narrowed(c, names) : c \in cons} : con.cols # <<>>}
    ELSE {con \in cons : ~Touches(con, names)}

\* A check in a change is one more.
Changed(col, change) ==
    IF "checks" \in DOMAIN change THEN [change EXCEPT !.checks = col.checks \o @] @@ col
                                  ELSE change @@ col

\* The table after a statement.
Altered(dialect, table, s) ==
    CASE s.do = "create" -> Stored(dialect, [cols |-> s.cols, cons |-> s.cons])
      [] s.do = "add" ->
           Stored(dialect, [table EXCEPT !.cols = @ \o s.cols])
      [] s.do = "alter" ->
           [table EXCEPT !.cols[At(table, s.col)] = Changed(@, s.change)]
      [] s.do = "drop" ->
           [cols |-> SelectSeq(table.cols, LAMBDA c : c.name \notin ToSet(s.names)),
            cons |-> AfterDrop(dialect, table.cons, ToSet(s.names))]
      [] s.do = "rename" ->
           [cols |-> [table.cols EXCEPT ![At(table, s.col)].name = s.to],
            cons |-> {[con EXCEPT !.cols = [i \in DOMAIN @ |-> IF @[i] = s.col THEN s.to ELSE @[i]]] :
                        con \in table.cons}]
      [] s.do = "constrain" ->
           Stored(dialect, [table EXCEPT !.cons = @ \cup {s.con}])
      [] s.do = "unconstrain" ->
           Dropped(table, CHOOSE con \in table.cons : con.kind = s.kind /\ con.name = s.name)
      [] OTHER -> table

-----------------------------------------------------------------------------
(* What each database refuses, whoever writes the statement *)

Key(table) == UNION PrimaryKeys(table)
IsKey(con) == con.kind \in {"primary", "unique", "index"}
ColumnOf(table, name) == table.cols[At(table, name)]

Changes(s, attributes) == s.do = "alter" /\ DOMAIN s.change \cap attributes # {}
MakesNull(s, notnull) == Changes(s, {"notnull"}) /\ s.change.notnull = notnull

Checked(table, name) ==
    ColumnOf(table, name).checks # <<>> \/ \E con \in ConsOf(table, "check") : Touches(con, {name})

\* An index begins with the column.
Leads(table, name) == \E con \in table.cons : IsKey(con) /\ Head(con.cols) = name

\* An increments column and a foreign key need an index; what a check reads is
\* neither renamed nor dropped.
MySqlAllows(table, after, s) ==
    /\ \A i \in DOMAIN after.cols :
         after.cols[i].type = "increments" => Leads(after, after.cols[i].name)
    /\ s.do = "unconstrain" => \A con \in ConsOf(after, "foreign") :
         Leads(table, Head(con.cols)) => Leads(after, Head(con.cols))
    /\ s.do = "rename" => ~Checked(table, s.col)
    /\ s.do = "drop" => \A name \in ToSet(s.names) : ~Checked(table, name)

\* Nothing depends on a column that changes; unique indexes have a condition on
\* theirs.  A key is of columns that are not null.
SqlServerAllows(table, s) ==
    /\ Changes(s, {"type", "notnull"}) =>
         ~Checked(table, s.col) /\ \A con \in table.cons : ~Touches(con, {s.col})
    /\ s.do = "rename" =>
         ~Checked(table, s.col) /\ \A con \in ConsOf(table, "unique") : ~Touches(con, {s.col})
    /\ s.do = "drop" => \A name \in ToSet(s.names) : ~Checked(table, name)
    /\ s.do = "constrain" /\ s.con.kind = "primary" =>
         \A name \in ToSet(s.con.cols) : ColumnOf(table, name).notnull = "yes"

\* null and not null are for columns that are not so yet, another type for one
\* without values.  The same columns have one key, which may use an index.
OracleAllows(table, row, s) ==
    LET same(kinds, cols) == \E con \in table.cons : con.kind \in kinds /\ con.cols = cols
    IN /\ MakesNull(s, "no") => ColumnOf(table, s.col).notnull = "yes"
       /\ MakesNull(s, "yes") => ColumnOf(table, s.col).notnull = "no" /\ s.col \notin Key(table)
       /\ Changes(s, {"type"}) /\ s.change.type # ColumnOf(table, s.col).type =>
            row[At(table, s.col)] = "null"
       /\ s.do = "constrain" /\ IsKey(s.con) =>
            ~same({"primary", "unique", s.con.kind}, s.con.cols)
       /\ s.do = "unconstrain" /\ s.kind = "index" =>
            \A con \in ConsOf(table, "index") : con.name = s.name => ~same({"primary", "unique"}, con.cols)

\* In all but SQLite columns of a key are not null (a change of type in MySQL
\* leaves null out) and a foreign key is of integers, as what it references.
Allows(dialect, table, after, row, s) ==
    /\ dialect # "sqlite" =>
         /\ MakesNull(s, "no") /\ ~(dialect = "mysql" /\ Changes(s, {"type"})) =>
              s.col \notin Key(table)
         /\ \A con \in ConsOf(after, "foreign") : \A name \in ToSet(con.cols) :
              ColumnOf(after, name).type \in {"integer", "increments"}
    /\ dialect = "mysql" => MySqlAllows(table, after, s)
    /\ dialect = "mssql" => SqlServerAllows(table, s)
    /\ dialect = "oracledb" => OracleAllows(table, row, s)

\* No two constraints have a name in common, and a table has one primary key.
New(table, con) ==
    /\ con.name = <<"auto">> \/ \A c \in table.cons : c.name # con.name
    /\ con.kind = "primary" => PrimaryKeys(table) = {}

\* Whether the database accepts it, for a table with a row.  SQL Server takes no
\* default in ALTER COLUMN, Redshift changes no column and SQLite adds no key.
Accepts(dialect, table, row, s) ==
    /\ s.do \notin {"throws", "refused"}
    /\ s.do = "create" <=> ~Exists(table)
    /\ s.do = "add" => \A i \in DOMAIN s.cols :
         s.cols[i].notnull = "yes" => s.cols[i].default # "" /\ ~s.cols[i].pk
    /\ s.do \in {"alter", "rename"} => s.col \in Names(table)
    /\ s.do = "alter" =>
         /\ dialect # "redshift"
         /\ "notnull" \in DOMAIN s.change /\ s.change.notnull = "yes"
              => row[At(table, s.col)] # "null"
         /\ s.withDefault /\ dialect = "mssql" => table.cols[At(table, s.col)].default = ""
    /\ s.do = "drop" =>
         /\ ToSet(s.names) \subseteq Names(table)
         /\ \A con \in table.cons : Touches(con, ToSet(s.names)) =>
              \/ dialect \in {"pg", "redshift"}
              \/ dialect = "mysql" /\ con.kind \notin {"foreign", "check"}
    /\ s.do = "unconstrain" =>
         \E con \in table.cons : con.kind = s.kind /\ con.name = s.name
    /\ s.do = "constrain" => New(table, s.con)
    /\ LET after == Altered(dialect, table, s)
       IN Sound(after) /\ Allows(dialect, table, after, row, s)

\* The row after a statement: a value for every column, "null" and defaults
\* for the new ones.
Fill(col) == IF col.default = "" THEN "null" ELSE col.default

RowAfter(table, row, s) ==
    CASE s.do = "add" -> row \o [i \in DOMAIN s.cols |-> Fill(s.cols[i])]
      [] s.do = "drop" ->
           LET kept == SelectSeq(table.cols, LAMBDA c : c.name \notin ToSet(s.names))
           IN [i \in DOMAIN kept |-> row[At(table, kept[i].name)]]
      [] OTHER -> row
=============================================================================
