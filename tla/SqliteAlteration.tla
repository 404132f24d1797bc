-------------------------- MODULE SqliteAlteration --------------------------
(***************************************************************************)
(* SQLite cannot change a column or a constraint of a table: knex reads the *)
(* text of the table, parses it, changes the parsed definition, and copies  *)
(* the rows into a table of the new definition.  Here the definitions: what *)
(* the parser keeps and what each operation of SQLite3_DDL makes of it.     *)
(***************************************************************************)
EXTENDS SchemaCompiler

\* A column's constraints are collected in one object: of several checks the
\* last is kept.
ParseColumn(col) == [col EXCEPT !.checks = IF @ = <<>> THEN @ ELSE <<Last(@)>>]

Parse(table) == [table EXCEPT !.cols = [i \in DOMAIN @ |-> ParseColumn(@[i])]]

MapColumns(table, Op(_)) == [table EXCEPT !.cols = [i \in DOMAIN @ |-> Op(@[i])]]

\* Variant: the checks are replaced as well.
AlterParsedAnew(col, new) ==
    [col EXCEPT !.type = new.type, !.default = new.default, !.notnull = new.notnull,
                !.checks = new.checks]

\* The type replaces the type, and with it goes the check of an enum; the check
\* that was parsed stays.
AlterParsed(col, new) ==
    [col EXCEPT !.type = new.type, !.default = new.default, !.notnull = new.notnull,
                !.checks = new.checks \o @]

AlterColumns_DDL(table, columns) ==
    LET Named(col) == {i \in DOMAIN columns : columns[i].name = col.name}
        Change(col) == IF Named(col) = {} THEN col
                       ELSE AlterParsed(col, columns[CHOOSE i \in Named(col) :
                                                       \A j \in Named(col) : i <= j])
    IN MapColumns(table, Change)

\* Keys and foreign keys of the table that name a dropped column go, checks
\* stay, and indexes lose the column, unique ones too.
DropColumns(table, names) ==
    [cols |-> SelectSeq(table.cols, LAMBDA col : col.name \notin names),
     cons |-> {con \in table.cons : con.level = "table" /\ (con.kind = "check" \/ ~Touches(con, names))}
              \cup {con \in {Narrowed(c, names) : c \in {d \in table.cons : d.level = "index"}} :
                      con.cols # <<>>}]

\* A constraint is found by its name when the call has one, else by its columns.
Foreigns(table, c) ==
    {con \in ConsOf(table, "foreign") :
       IF c.name # "" THEN con.name = <<c.name>> ELSE Touches(con, ToSet(c.cols))}

DropForeigns(table, c) == [table EXCEPT !.cons = @ \ Foreigns(table, c)]

\* column.primary is not where the parser puts a column's own key, which stays.
DropPrimaries(table, c) ==
    [table EXCEPT !.cons = @ \ {con \in ConsOf(table, "primary") :
                                  c.name # "" => con.name = <<c.name>>}]

SetPrimary(table, c) ==
    [table EXCEPT !.cons = (@ \ ConsOf(table, "primary")) \cup {NamedBy("primary", c)}]

AddForeign(table, c) == [table EXCEPT !.cons = @ \cup {NamedBy("foreign", c)}]

Nullability(table, c, notnull) ==
    MapColumns(table, LAMBDA col : IF col.name = c.cols[1] THEN [col EXCEPT !.notnull = notnull] ELSE col)

Rewrite(table, s) ==
    CASE s.how = "alterColumn" -> AlterColumns_DDL(Parse(table), s.columns)
      [] s.how = "dropColumn" -> DropColumns(Parse(table), ToSet(s.call.cols))
      [] s.how = "dropForeign" -> DropForeigns(Parse(table), s.call)
      [] s.how = "dropPrimary" -> DropPrimaries(Parse(table), s.call)
      [] s.how = "primary" -> SetPrimary(Parse(table), s.call)
      [] s.how = "foreign" -> AddForeign(Parse(table), s.call)
      [] OTHER ->
           Nullability(Parse(table), s.call, IF s.call.op = "setNullable" THEN "no" ELSE "yes")

\* What makes the rewriting throw: no column is left, or the column is unknown.
RewriteFails(table, s) ==
    \/ s.how = "dropColumn" /\ Names(table) \subseteq ToSet(s.call.cols)
    \/ s.how = "setNullable" /\ s.call.cols[1] \notin Names(table)

\* Variant: every operation copies with select *.
CopiesAll(new, s) == <<>>

\* insert into temp select * or select the columns that are left.
CopiedColumns(new, s) ==
    IF s.how = "dropColumn" THEN [i \in DOMAIN new.cols |-> new.cols[i].name] ELSE <<>>

CopiedRow(table, row, columns) ==
    IF columns = <<>> THEN row ELSE [i \in DOMAIN columns |-> row[At(table, columns[i])]]

\* The rows go by position; a null goes into no column that is not null.
Copyable(new, row) ==
    /\ Len(row) = Len(new.cols)
    /\ \A i \in DOMAIN row : new.cols[i].notnull = "yes" => row[i] # "null"
=============================================================================
