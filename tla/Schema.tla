------------------------------- MODULE Schema -------------------------------
(***************************************************************************)
(* Running schema builders: createTable and alterTable are compiled as a    *)
(* whole and their statements run one after the other.  Most are sent to    *)
(* the database; on SQLite some start an alteration, which reads the text   *)
(* of the table, switches foreign keys off, and makes, fills and renames a  *)
(* new table in a transaction.  Any statement may fail.                     *)
(***************************************************************************)
EXTENDS SqliteAlteration

CONSTANTS Dialects,  \* the dialects to check
          Creations, \* sequences of calls in a createTable callback
          Calls,     \* calls in an alterTable callback
          MaxCalls   \* bound on the calls of all alterTable callbacks together

ASSUME SchemaAssumption == Dialects \subseteq Dialect /\ MaxCalls \in Nat

VARIABLES dialect, \* of the client
          outer,   \* the program runs the builders in a transaction of its own
          db,      \* the database: the table, its row, the new table, the child
          pc,      \* where the runner is
          queue,   \* the statements left to run
          new,     \* the definition an alteration writes, and the columns it copies
          wasOn,   \* whether it found foreign keys on
          saved,   \* the database when its transaction began
          asked,   \* the callbacks run so far
          outcome  \* of the last builder: "", "refused" or "fault"

alteration == <<new, wasOn, saved>>
vars == <<dialect, outer, db, pc, queue, alteration, asked, outcome>>

NoNew == [table |-> NoTable, columns |-> <<>>]

\* The child table has one row that references the first column of the table.
\* Its own column is called as that one, or otherwise.
NoChild == [row |-> FALSE, fk |-> FALSE, col |-> "", own |-> "", cascade |-> FALSE]

EmptyDb(fk) == [table |-> NoTable, row |-> <<>>, temp |-> NoTable, tempRow |-> <<>>,
                child |-> NoChild, fk |-> fk, fkAtFirst |-> fk]

Init ==
    /\ dialect \in Dialects
    /\ outer \in BOOLEAN /\ (outer => dialect = "sqlite")
    /\ \E fk \in BOOLEAN : (~fk => dialect = "sqlite") /\ db = EmptyDb(fk)
    /\ pc = "idle" /\ queue = <<>> /\ asked = <<>> /\ outcome = ""
    /\ new = NoNew /\ wasOn = FALSE /\ saved = EmptyDb(TRUE)

-----------------------------------------------------------------------------
(* Builders *)

Made == FoldLeft(LAMBDA n, callback : n + Len(callback), 0, Tail(asked))

Compiled(method, calls) ==
    LET statements == Compile(dialect, method, calls)
    IN IF \E s \in ToSet(statements) : s.do = "throws" THEN <<Throws>> ELSE statements

\* No builder runs, and none has failed.
Resting == pc = "idle" /\ outcome = ""

RunBuilder(method, calls) ==
    /\ Resting
    /\ asked' = Append(asked, calls)
    /\ queue' = Compiled(method, calls)
    /\ pc' = "run"
    /\ UNCHANGED <<dialect, outer, db, alteration, outcome>>

CreateTable(calls) == asked = <<>> /\ RunBuilder("create", calls)

Children ==
    IF dialect \notin {"mysql", "sqlite"} \/ {db.table.cols[1].name} \notin PrimaryKeys(db.table)
    THEN {NoChild}
    ELSE [row : {TRUE}, fk : {TRUE}, col : {db.table.cols[1].name},
          own : IF dialect = "mysql" THEN {db.table.cols[1].name, "parent"} ELSE {"parent"},
          cascade : IF dialect = "sqlite" THEN BOOLEAN ELSE {FALSE}]

\* The program puts a row into the table, and one into a table that references
\* a key of it.
Populate ==
    /\ Resting /\ Len(asked) = 1 /\ db.row = <<>>
    /\ \E child \in Children :
         /\ db' = [db EXCEPT !.row = [i \in DOMAIN db.table.cols |-> db.table.cols[i].name],
                             !.child = child]
    /\ UNCHANGED <<dialect, outer, pc, queue, alteration, asked, outcome>>

AlterTableWith(calls) ==
    /\ db.row # <<>>
    /\ Made + Len(calls) <= MaxCalls
    /\ RunBuilder("alter", calls)

-----------------------------------------------------------------------------
(* Statements *)

Fails(result) ==
    /\ outcome' = result /\ queue' = <<>> /\ pc' = "idle"
    /\ UNCHANGED <<dialect, outer, alteration, asked>>

Plain(s) == s.do \notin {"rebuild", "dropRefs", "createRefs"}

Keyed(table, col) ==
    {col} \in PrimaryKeys(table) \/ \E con \in ConsOf(table, "unique") : con.cols = <<col>>

\* MySQL keeps an index for a foreign key that references the table.
KeepsReferences(table) ==
    dialect = "mysql" /\ db.child.fk =>
        Keyed(table, db.child.col) \/ \E con \in table.cons : con.kind # "check" /\ Head(con.cols) = db.child.col

AfterStatement(s) ==
    [db EXCEPT !.table = Altered(dialect, db.table, s),
               !.row = IF @ = <<>> THEN @ ELSE RowAfter(db.table, @, s),
               !.child.col = IF s.do = "rename" /\ @ = s.col /\ db.child.fk THEN s.to ELSE @]

Accepted(s) ==
    /\ Accepts(dialect, db.table, db.row, s)
    /\ s.do \in {"drop", "unconstrain"} => KeepsReferences(Altered(dialect, db.table, s))

Execute ==
    LET s == Head(queue)
    IN /\ pc = "run" /\ queue # <<>> /\ Plain(s)
       /\ IF Accepted(s)
          THEN /\ db' = AfterStatement(s)
               /\ queue' = Tail(queue) /\ pc' = "run"
               /\ UNCHANGED <<dialect, outer, alteration, asked, outcome>>
          ELSE UNCHANGED db /\ Fails("refused")

Finish ==
    /\ pc = "run" /\ queue = <<>>
    /\ pc' = "idle"
    /\ UNCHANGED <<dialect, outer, db, queue, alteration, asked, outcome>>

Statement(do) == pc = "run" /\ queue # <<>> /\ Head(queue).do = do

DropRefs ==
    /\ Statement("dropRefs")
    /\ db' = [db EXCEPT !.child.fk = FALSE]
    /\ queue' = Tail(queue)
    /\ UNCHANGED <<dialect, outer, pc, alteration, asked, outcome>>

\* COLUMN_NAME is renamed as REFERENCED_COLUMN_NAME is, in whichever table.
CreateRefs ==
    LET s == Head(queue)
        renamed == db.child.col = s.col
    IN /\ Statement("createRefs")
       /\ IF db.child.row /\ db.child.own = s.col
          THEN UNCHANGED db /\ Fails("refused")
          ELSE /\ db' = [db EXCEPT !.child.fk = db.child.row,
                                   !.child.col = IF renamed THEN s.to ELSE @]
               /\ queue' = Tail(queue)
               /\ UNCHANGED <<dialect, outer, pc, alteration, asked, outcome>>

-----------------------------------------------------------------------------
(* The alteration of a table in SQLite *)

Step(from, to) ==
    /\ pc = from /\ pc' = to
    /\ UNCHANGED <<dialect, outer, queue, asked, outcome>>

\* getTableSql() and the parsed, changed definition.
Read ==
    LET s == Head(queue)
    IN /\ Statement("rebuild")
       /\ IF RewriteFails(db.table, s)
          THEN UNCHANGED db /\ Fails("refused")
          ELSE /\ Step("run", "read")
               /\ new' = [table |-> Rewrite(db.table, s),
                          columns |-> CopiedColumns(Rewrite(db.table, s), s)]
               /\ UNCHANGED <<db, wasOn, saved>>

\* Variant: foreign keys stay on.
ForeignKept ==
    /\ Step("read", "begin")
    /\ wasOn' = FALSE
    /\ UNCHANGED <<db, new, saved>>

\* PRAGMA foreign_keys = OFF has no effect within a transaction.
ForeignOff ==
    /\ Step("read", "begin")
    /\ wasOn' = db.fk
    /\ db' = IF outer THEN db ELSE [db EXCEPT !.fk = FALSE]
    /\ UNCHANGED <<new, saved>>

Begin ==
    /\ Step("begin", "create")
    /\ saved' = db
    /\ UNCHANGED <<db, new, wasOn>>

\* The transaction is rolled back, the error is kept for after the finally.
RolledBack(result) ==
    /\ pc' = "finally"
    /\ db' = saved
    /\ outcome' = result
    /\ UNCHANGED <<dialect, outer, queue, alteration, asked>>

InTransaction(from, to, ok, after) ==
    /\ pc = from
    /\ IF ok THEN Step(from, to) /\ db' = after /\ UNCHANGED alteration
             ELSE RolledBack("refused")

CreateTemp ==
    InTransaction("create", "copy", Sound(new.table),
        [db EXCEPT !.temp = [new.table EXCEPT !.cons = {con \in @ : con.level = "table"}]])

CopyData ==
    LET row == CopiedRow(db.table, db.row, new.columns)
    IN InTransaction("copy", "drop", Copyable(db.temp, row), [db EXCEPT !.tempRow = row])

\* With foreign keys on, dropping a table deletes its rows first.
DropOriginal ==
    LET enforced == db.fk /\ db.child.row
    IN InTransaction("drop", "rename", enforced => db.child.cascade,
        [db EXCEPT !.table = NoTable, !.row = <<>>,
                   !.child.row = @ /\ ~enforced])

RenameTable ==
    InTransaction("rename", "reindex", TRUE,
        [db EXCEPT !.table = db.temp, !.row = db.tempRow, !.temp = NoTable, !.tempRow = <<>>])

CreateIndexes ==
    InTransaction("reindex", "check", TRUE,
        [db EXCEPT !.table.cons = @ \cup {con \in new.table.cons : con.level = "index"}])

\* PRAGMA foreign_key_check, if they were on, and commit.
ForeignKeyCheck ==
    InTransaction("check", "finally", wasOn /\ db.child.row => Keyed(db.table, db.child.col), db)

\* Variant: foreign keys come back after a success only.
ForeignOnAfterSuccess ==
    /\ pc = "finally"
    /\ db' = IF wasOn /\ ~outer /\ outcome = "" THEN [db EXCEPT !.fk = TRUE] ELSE db
    /\ IF outcome = "" THEN pc' = "run" /\ queue' = Tail(queue)
                       ELSE pc' = "idle" /\ queue' = <<>>
    /\ UNCHANGED <<dialect, outer, alteration, asked, outcome>>

ForeignOn ==
    /\ pc = "finally"
    /\ db' = IF wasOn /\ ~outer THEN [db EXCEPT !.fk = TRUE] ELSE db
    /\ IF outcome = "" THEN pc' = "run" /\ queue' = Tail(queue)
                       ELSE pc' = "idle" /\ queue' = <<>>
    /\ UNCHANGED <<dialect, outer, alteration, asked, outcome>>

Transacting == {"create", "copy", "drop", "rename", "reindex", "check"}

Alteration ==
    \/ Read \/ ForeignOff \/ Begin
    \/ CreateTemp \/ CopyData \/ DropOriginal \/ RenameTable \/ CreateIndexes \/ ForeignKeyCheck
    \/ ForeignOn

\* A statement fails: the connection's, the disk's or another program's doing.
Fault ==
    \/ pc \in Transacting /\ RolledBack("fault")
    \/ pc = "begin" /\ pc' = "finally" /\ outcome' = "fault"
         /\ UNCHANGED <<dialect, outer, db, queue, alteration, asked>>
    \/ (pc = "read" \/ (pc = "run" /\ queue # <<>>)) /\ UNCHANGED db /\ Fails("fault")

Next ==
    \/ \E calls \in Creations : CreateTable(calls)
    \/ Populate
    \/ Resting /\ \E n \in 1..MaxCalls : \E calls \in [1..n -> Calls] : AlterTableWith(calls)
    \/ Execute \/ Finish \/ DropRefs \/ CreateRefs
    \/ Alteration
    \/ Fault

Spec == Init /\ [][Next]_vars

-----------------------------------------------------------------------------
(* What a program expects: each call, in the order of the calls, does what it *)
(* says, whatever the dialect                                                *)

\* A call in statements every database has; k numbers the calls.
Meaning(c, k, calls) ==
    LET col == [CompileColumn(dialect, c, calls) EXCEPT
                  !.pk = c.type = "increments" /\ Of(calls, "primary") = <<>>]
        change == [type |-> c.type, checks |-> EnumChecks(dialect, c),
                   default |-> IF c.default = "" THEN "any" ELSE c.default,
                   notnull |-> IF c.null THEN "any" ELSE "yes"]
        check == Constrain([Con("check", c) EXCEPT
                              !.name = IF c.op = "check" /\ c.name # "" THEN @ ELSE <<"check", ToString(k)>>])
    IN CASE c.op = "column" /\ ~c.alter -> <<[do |-> "add", cols |-> <<col>>]>>
         [] c.op = "column" -> <<Alter(col.name, change)>> \o [i \in DOMAIN c.checks |-> check]
         [] c.op = "check" -> <<check>>
         [] c.op \in {"primary", "unique", "index", "foreign"} -> <<Constrain(Con(c.op, c))>>
         [] c.op = "dropPrimary" -> <<Unconstrain("primary", IndexName("primary", c))>>
         [] c.op = "dropUnique" -> <<Unconstrain("unique", IndexName("unique", c))>>
         [] c.op = "dropIndex" -> <<Unconstrain("index", IndexName("index", c))>>
         [] c.op = "dropForeign" -> <<Unconstrain("foreign", IndexName("foreign", c))>>
         [] c.op = "dropColumn" -> <<[do |-> "drop", names |-> c.cols]>>
         [] c.op = "renameColumn" -> <<[do |-> "rename", col |-> c.cols[1], to |-> c.to]>>
         [] c.op = "setNullable" -> <<Alter(c.cols[1], [notnull |-> "no"])>>
         [] c.op = "dropNullable" -> <<Alter(c.cols[1], [notnull |-> "yes"])>>

Meanings(i) ==
    FlattenSeq([k \in DOMAIN asked[i] |-> Meaning(asked[i][k], 10 * i + k, asked[i])])

AllCalls == FlattenSeq(asked)

\* The database can carry a call out, with its own restrictions: only PostgreSQL,
\* Redshift and the alterations of SQLite drop a column with its constraints.
Possible(want, s) ==
    LET after == Altered("pg", want.table, s)
    IN /\ Accepts("pg", want.table, want.row, s)
       /\ Allows(dialect, want.table, after, want.row, s)
       /\ s.do = "drop" /\ dialect \notin {"pg", "redshift", "sqlite"} =>
            \A con \in want.table.cons : ~Touches(con, ToSet(s.names))
       /\ want.child # "" =>
            /\ s.do = "drop" => want.child \notin ToSet(s.names)
            /\ s.do = "unconstrain" => Keyed(after, want.child)

\* A table with its row and the column the child references, and whether every
\* call so far was possible.
Wanted(want, s) ==
    IF ~want.able \/ (want.row # <<>> /\ ~Possible(want, s)) THEN [want EXCEPT !.able = FALSE]
    ELSE [want EXCEPT !.table = Altered("pg", @, s),
                      !.row = IF @ = <<>> THEN @ ELSE RowAfter(want.table, @, s),
                      !.child = IF s.do = "rename" /\ @ = s.col THEN s.to ELSE @]

Want ==
    LET empty == [table |-> NoTable, row |-> <<>>, child |-> "", able |-> TRUE]
        created == FoldLeft(Wanted, empty, Meanings(1))
        names == [i \in DOMAIN created.table.cols |-> created.table.cols[i].name]
        filled == [created EXCEPT !.row = names, !.child = IF db.child.row THEN names[1] ELSE ""]
    IN FoldLeft(Wanted, filled, FlattenSeq([i \in 1..Len(asked) - 1 |-> Meanings(i + 1)]))

-----------------------------------------------------------------------------
(* Properties *)

Done == pc = "idle" /\ asked # <<>>

SameColumn(w, c) ==
    /\ w.name = c.name /\ w.type = c.type
    /\ w.default \in {"any", c.default} /\ w.notnull \in {"any", c.notnull}
    /\ ToSet(w.checks) = ToSet(c.checks)

\* Names matter where a program drops a constraint by the name knex gives it.
Constraints(table) ==
    {[kind |-> con.kind, cols |-> con.cols, name |-> IF con.kind \in {"unique", "index"} THEN con.name ELSE <<>>] :
       con \in {c \in table.cons : c.kind # "primary"}}

Agrees(want, table) ==
    /\ Names(want) = Names(table)
    /\ \A n \in Names(want) : SameColumn(want.cols[At(want, n)], table.cols[At(table, n)])
    /\ PrimaryKeys(want) = PrimaryKeys(table)
    /\ Constraints(want) = Constraints(table)

\* increments() with primary(): MySQL and Oracle put its column into the key,
\* SQLite makes a unique constraint of the rest.
IncrementsInKey ==
    /\ IncrementsNames(asked[1]) # <<>> /\ Of(asked[1], "primary") # <<>>
    /\ dialect \in {"mysql", "oracledb", "sqlite"}

\* Within a callback the columns come first.
ColumnLate ==
    \E i \in 2..Len(asked) : \E k \in DOMAIN asked[i] : \E j \in 1..k-1 :
        /\ IsColumn(asked[i][k]) /\ ~IsColumn(asked[i][j])
        /\ asked[i][k].cols[1] \in ToSet(asked[i][j].cols) \cup {asked[i][j].to}

Altering == FlattenSeq(Tail(asked))

\* Some call on the same columns.
Also(c, Q(_)) == \E d \in ToSet(AllCalls) : Q(d) /\ ToSet(d.cols) \cap ToSet(c.cols) # {}

\* What a dialect cannot do, or does otherwise.
Unlike(c) ==
    CASE dialect = "redshift" ->
           \/ c.alter \/ c.op \in {"index", "check", "setNullable", "dropNullable"}
           \/ c.op = "primary" /\ \E i \in DOMAIN asked : c \in ToSet(asked[i]) /\ ~RedshiftTakes(c, asked[i])
           \/ c.op = "primary" /\ IncrementsNames(AllCalls) # <<>>
      [] dialect = "pg" ->
           c.alter /\ (c.type = "enu" \/ Also(c, LAMBDA d : d.op = "primary" \/ d.type = "increments"))
      [] dialect = "mssql" ->
           \/ c.op \in {"setNullable", "dropNullable"} /\ Also(c, LAMBDA d : IsColumn(d) /\ d.default # "")
           \/ c.op = "dropPrimary" /\ IncrementsNames(AllCalls) # <<>>
      [] dialect = "oracledb" ->
           c.op = "dropColumn" \/ (c.op = "dropPrimary" /\ IncrementsNames(AllCalls) # <<>>)
      [] dialect = "sqlite" ->
           \/ c.op = "check" \/ (c.alter /\ c.checks # <<>>)
           \/ c.op \in {"primary", "dropPrimary"} /\ IncrementsNames(AllCalls) # <<>>
           \/ c.op = "dropColumn" /\ Also(c, LAMBDA d : d.op = "check" \/ (d.op = "unique" /\ Len(d.cols) > 1))
      [] OTHER -> FALSE

\* A check without a name, or with bindings.
CheckMalformed(c) == c.op = "check" /\ (c.name = "" \/ c.bound)

\* Checks of a column changed more than once: the second gets the name of the
\* first, wherever the change is.
CheckRepeated ==
    \E i, j \in DOMAIN Altering : i # j /\ \A k \in {i, j} :
        /\ Altering[k].alter /\ Altering[k].checks # <<>>
        /\ Altering[k].cols = Altering[i].cols

\* SQLite: of two checks in a column the alteration keeps one, of two changes of
\* a column in one callback it makes the first; MySQL and Oracle refuse both.
CheckLost ==
    \E c \in ToSet(AllCalls) :
        \/ IsColumn(c) /\ Len(EnumChecks(dialect, c) \o c.checks) > 1
        \/ c.alter /\ EnumChecks(dialect, c) # <<>> /\ Also(c, LAMBDA d : IsColumn(d) /\ d.checks # <<>>)

ChangedTwice ==
    \E calls \in ToSet(asked) : Cardinality(DOMAIN Alters(calls)) > 1

Known ==
    \/ IncrementsInKey \/ ColumnLate \/ CheckRepeated
    \/ dialect = "sqlite" /\ CheckLost
    \/ dialect \in {"sqlite", "mysql", "oracledb"} /\ ChangedTwice
    \/ (dialect = "redshift" /\ \E c \in ToSet(AllCalls) : Unlike(c))
    \/ \E c \in ToSet(Altering) : Unlike(c) \/ CheckMalformed(c)

\* In a transaction of the program's SQLite ignores the pragma: dropping the
\* table deletes its rows, and with them those that reference them.
Enforced == dialect = "sqlite" /\ outer /\ db.fkAtFirst /\ db.child # NoChild

\* MySQL drops the references to a table to rename a column, and cannot make
\* them anew when the referencing column has the old name.
ReferencesLost ==
    dialect = "mysql" /\ outcome # "" /\ db.child # NoChild /\ Of(Altering, "renameColumn") # <<>>

\* A builder that succeeds leaves the table every call asked for, taken one by
\* one in the order of the calls: SchemaCompiler, TableCompiler and the dialects'
\* compilers reorder the calls, merge some into create table and, on SQLite,
\* rewrite the text of the table.
AsAsked ==
    Done /\ outcome = "" /\ ~Known /\ Want.able => Agrees(Want.table, db.table)

\* Calls that are possible one after the other are never refused, however the
\* compilers order and split them.
LegalRuns ==
    outcome = "refused" /\ ~Known /\ ~Enforced /\ ~ReferencesLost => ~Want.able

\* Whatever the outcome, every value is still in its column, except those of
\* dropped columns, and the child's row still references the table.
RowsSurvive ==
    Done /\ db.row # <<>> =>
        LET created == {asked[1][i].cols[1] : i \in {j \in DOMAIN asked[1] : IsColumn(asked[1][j])}}
            dropped == UNION {ToSet(c.cols) : c \in ToSet(Of(AllCalls, "dropColumn"))}
            renamed(n) == {c.to : c \in {d \in ToSet(Of(AllCalls, "renameColumn")) : d.cols[1] = n}}
            holds(n, value) == n \in Names(db.table) /\ db.row[At(db.table, n)] = value
        IN /\ Len(db.row) = Len(db.table.cols)
           /\ \A n \in created :
                 \/ \E m \in {n} \cup renamed(n) : holds(m, n)
                 \/ ({n} \cup renamed(n)) \cap dropped # {}
           /\ db.child # NoChild /\ ~Enforced /\ ~ReferencesLost => db.child.row /\ db.child.fk

\* Whatever the outcome, no table of the alteration is left, the table itself
\* is there, and foreign keys are enforced as before.
NothingLeftBehind ==
    Done => /\ db.temp = NoTable
            /\ db.fk = db.fkAtFirst
            /\ db.row # <<>> => Exists(db.table)
=============================================================================
