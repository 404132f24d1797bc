---------------------------- MODULE SchemaProofs ----------------------------
(***************************************************************************)
(* Whatever the calls, the dialect and the statement that fails, a schema  *)
(* builder leaves nothing of an alteration behind.  The constants are      *)
(* arbitrary: nothing is assumed of what the callbacks contain.            *)
(***************************************************************************)
EXTENDS Schema, TLAPS

\* A definition has its columns and its constraints, whatever these are.
Definition(t) == t = [cols |-> t.cols, cons |-> t.cons]

\* The database between two statements: a table with a row is there.
Sane(d) ==
  /\ d = [table |-> d.table, row |-> d.row, temp |-> d.temp, tempRow |-> d.tempRow,
          child |-> d.child, fk |-> d.fk, fkAtFirst |-> d.fkAtFirst]
  /\ Definition(d.table)
  /\ d.row # <<>> => Exists(d.table)

\* Where the runner is while the new table is there, and while foreign keys are
\* off.
Filling  == {"copy", "drop", "rename"}
Suspended == {"begin", "finally"} \cup Transacting
Places   == {"idle", "run", "read"} \cup Suspended

\* The new table is there from its creation to its renaming, or is undone with
\* the transaction.
TempInv ==
  /\ pc \in Filling => Exists(db.temp) /\ Definition(db.temp)
  /\ pc \notin Filling => db.temp = NoTable
  /\ pc \in {"read", "begin"} \cup Transacting => Definition(new.table)

\* wasOn is what the alteration found and switches back on: SQLite ignores the
\* pragma in a transaction of the program.
ForeignInv ==
  IF pc \in Suspended THEN wasOn = db.fkAtFirst /\ db.fk = (outer /\ wasOn)
                        ELSE db.fk = db.fkAtFirst

\* What a rollback restores has no trace of the alteration.
SavedInv ==
  pc \in Transacting =>
    /\ Sane(saved) /\ saved.temp = NoTable
    /\ saved.fk = db.fk /\ saved.fkAtFirst = db.fkAtFirst

AlterationInv ==
  /\ outer \in BOOLEAN /\ db.fk \in BOOLEAN /\ db.fkAtFirst \in BOOLEAN
  /\ pc \in Places
  /\ Sane(db) /\ TempInv /\ ForeignInv /\ SavedInv

-----------------------------------------------------------------------------
(* Definitions of tables *)

\* A definition with other columns or other constraints.
LEMMA Updated ==
  ASSUME NEW t, Definition(t), NEW x
  PROVE  /\ Definition([t EXCEPT !.cols = x]) /\ [t EXCEPT !.cols = x].cols = x
         /\ Definition([t EXCEPT !.cons = x]) /\ [t EXCEPT !.cons = x].cols = t.cols
BY DEF Definition

LEMMA Written == \A x, y : Definition([cols |-> x, cons |-> y])
BY DEF Definition

\* What a statement makes of a definition is a definition.
LEMMA AlteredDefinition ==
  ASSUME NEW d, NEW t, NEW s, Definition(t)
  PROVE  Definition(Altered(d, t, s))
<1>1. ASSUME NEW u, Definition(u)
      PROVE  Definition(Stored(d, u))
  BY <1>1, Written DEF Stored
<1>2. CASE s.do = "create"
  BY <1>1, <1>2, Written DEF Altered
<1>3. CASE s.do = "add"
  BY <1>1, <1>3, Updated DEF Altered
<1>4. CASE s.do = "alter"
  <2>1. Altered(d, t, s) = [t EXCEPT !.cols[At(t, s.col)] = Changed(@, s.change)]
    BY <1>4 DEF Altered
  <2> DEFINE x == [t.cols EXCEPT ![At(t, s.col)] = Changed(@, s.change)]
  <2>2. Altered(d, t, s) = [t EXCEPT !.cols = x]
    BY <2>1
  <2> HIDE DEF x
  <2>3. Definition([t EXCEPT !.cols = x])
    BY Updated
  <2> QED
    BY <2>2, <2>3
<1>5. CASE s.do = "drop"
  BY <1>5, Written DEF Altered
<1>6. CASE s.do = "rename"
  <2>1. Altered(d, t, s) =
          [cols |-> [t.cols EXCEPT ![At(t, s.col)].name = s.to],
           cons |-> {[con EXCEPT !.cols = [i \in DOMAIN @ |-> IF @[i] = s.col THEN s.to ELSE @[i]]] :
                       con \in t.cons}]
    BY <1>6 DEF Altered
  <2> QED
    BY <2>1, Written
<1>7. CASE s.do = "constrain"
  BY <1>1, <1>7, Updated DEF Altered
<1>8. CASE s.do = "unconstrain"
  BY <1>8, Updated DEF Altered, Dropped
<1>9. CASE s.do \notin {"create", "add", "alter", "drop", "rename", "constrain", "unconstrain"}
  BY <1>9 DEF Altered
<1> QED
  BY <1>2, <1>3, <1>4, <1>5, <1>6, <1>7, <1>8, <1>9

\* What the alteration makes of a definition it has parsed is a definition.
LEMMA RewrittenDefinition ==
  ASSUME NEW t, NEW s, Definition(t)
  PROVE  Definition(Rewrite(t, s))
<1> DEFINE p == Parse(t)
<1>1. Definition(p)
  BY Updated DEF Parse
<1> HIDE DEF p
<1>2. CASE s.how = "alterColumn"
  BY <1>1, <1>2, Updated DEF Rewrite, AlterColumns_DDL, MapColumns, p
<1>3. CASE s.how = "dropColumn"
  BY <1>3, Written DEF Rewrite, DropColumns
<1>4. CASE s.how = "dropForeign"
  BY <1>1, <1>4, Updated DEF Rewrite, DropForeigns, p
<1>5. CASE s.how = "dropPrimary"
  <2>1. Rewrite(t, s) = DropPrimaries(p, s.call)
    BY <1>5 DEF Rewrite, p
  <2> DEFINE x == p.cons \ {con \in ConsOf(p, "primary") :
                               s.call.name # "" => con.name = <<s.call.name>>}
  <2>2. Rewrite(t, s) = [p EXCEPT !.cons = x]
    BY <2>1, Zenon DEF DropPrimaries
  <2> HIDE DEF x
  <2> QED
    BY <1>1, <2>2, Updated
<1>6. CASE s.how = "primary"
  BY <1>1, <1>6, Updated DEF Rewrite, SetPrimary, p
<1>7. CASE s.how = "foreign"
  BY <1>1, <1>7, Updated DEF Rewrite, AddForeign, p
<1>8. CASE s.how \notin {"alterColumn", "dropColumn", "dropForeign", "dropPrimary", "primary", "foreign"}
  <2>1. Rewrite(t, s) = Nullability(p, s.call, IF s.call.op = "setNullable" THEN "no" ELSE "yes")
    BY <1>8 DEF Rewrite, p
  <2> DEFINE x == [i \in DOMAIN p.cols |->
                     IF p.cols[i].name = s.call.cols[1]
                     THEN [p.cols[i] EXCEPT !.notnull = IF s.call.op = "setNullable" THEN "no" ELSE "yes"]
                     ELSE p.cols[i]]
  <2>2. Rewrite(t, s) = [p EXCEPT !.cols = x]
    BY <2>1, Zenon DEF Nullability, MapColumns
  <2> HIDE DEF x
  <2> QED
    BY <1>1, <2>2, Updated
<1> QED
  BY <1>2, <1>3, <1>4, <1>5, <1>6, <1>7, <1>8

-----------------------------------------------------------------------------
(* The inductive invariant *)

\* What an alteration has kept and the bookkeeping of the runner.
Kept == UNCHANGED <<dialect, outer, alteration>>

LEMMA InitAlteration == Init => AlterationInv
<1> SUFFICES ASSUME Init
             PROVE  AlterationInv
  OBVIOUS
<1>1. /\ outer \in BOOLEAN /\ pc = "idle"
      /\ \E fk \in BOOLEAN : db = EmptyDb(fk)
  BY Zenon DEF Init
<1>2. PICK fk \in BOOLEAN : db = EmptyDb(fk)
  BY <1>1
<1>3. Sane(db) /\ db.temp = NoTable /\ db.fk = fk /\ db.fkAtFirst = fk
  <2> DEFINE child == NoChild
  <2>1. db = [table |-> NoTable, row |-> <<>>, temp |-> NoTable, tempRow |-> <<>>,
              child |-> child, fk |-> fk, fkAtFirst |-> fk]
    BY <1>2, Zenon DEF EmptyDb
  <2> HIDE DEF child
  <2> QED
    BY <2>1 DEF Sane, Definition, NoTable
<1> QED
  BY <1>1, <1>3 DEF AlterationInv, TempInv, ForeignInv, SavedInv, Places, Suspended, Filling, Transacting

\* A statement outside an alteration that leaves foreign keys alone, and the
\* new table, which is not there.
LEMMA OutsideStep ==
  ASSUME AlterationInv, pc \in {"idle", "run", "read"}, pc' \in {"idle", "run"},
         Sane(db'), db'.temp = db.temp, db'.fk = db.fk, db'.fkAtFirst = db.fkAtFirst,
         UNCHANGED outer
  PROVE  AlterationInv'
BY DEF AlterationInv, TempInv, ForeignInv, SavedInv, Places, Suspended, Filling, Transacting

\* The same, for a database with other fields.
LEMMA SaneUpdates ==
  ASSUME NEW d, Sane(d), NEW x
  PROVE  /\ Sane([d EXCEPT !.child = x])
         /\ Sane([d EXCEPT !.temp = x]) /\ Sane([d EXCEPT !.tempRow = x]) /\ Sane([d EXCEPT !.fk = x])
BY DEF Sane

LEMMA ExecuteStep ==
  ASSUME AlterationInv, Execute
  PROVE  AlterationInv'
<1> DEFINE s == Head(queue)
           t == Altered(dialect, db.table, s)
<1>1. CASE Accepted(s)
  <2>1. Definition(t) /\ Exists(t)
    <3>1. Sound(t)
      BY <1>1, Zenon DEF Accepted, Accepts
    <3>2. Definition(db.table)
      BY DEF AlterationInv, Sane
    <3> QED
      BY <3>1, <3>2, AlteredDefinition, Zenon DEF Sound
  <2>2. db' = AfterStatement(s) /\ pc = "run" /\ pc' = "run" /\ UNCHANGED outer
    BY <1>1 DEF Execute
  <2>3. PICK r, c : db' = [db EXCEPT !.table = t, !.row = r, !.child = c]
    BY <2>2, Zenon DEF AfterStatement
  <2> HIDE DEF t
  <2>4. /\ Sane(db')
        /\ db'.temp = db.temp /\ db'.fk = db.fk /\ db'.fkAtFirst = db.fkAtFirst
    BY <2>1, <2>3 DEF Sane, AlterationInv
  <2> QED
    BY <2>2, <2>4, OutsideStep
<1>2. CASE ~Accepted(s)
  BY <1>2, OutsideStep DEF Execute, Fails, AlterationInv
<1> QED
  BY <1>1, <1>2

\* A step of the transaction rolls it back, or goes on.
LEMMA RolledBackStep ==
  ASSUME AlterationInv, pc \in Transacting, NEW result, RolledBack(result)
  PROVE  AlterationInv'
BY DEF RolledBack, AlterationInv, TempInv, ForeignInv, SavedInv, Places, Suspended, Filling,
       Transacting, Sane, alteration

\* What the steps of the transaction leave alone.
LEMMA InTransactionStep ==
  ASSUME AlterationInv, NEW from, NEW to, NEW ok, NEW after,
         InTransaction(from, to, ok, after), from \in Transacting, to \in Transacting \cup {"finally"},
         ok => /\ Sane(after) /\ after.fk = db.fk /\ after.fkAtFirst = db.fkAtFirst
               /\ to \in Filling => Exists(after.temp) /\ Definition(after.temp)
               /\ to \notin Filling => after.temp = NoTable
  PROVE  AlterationInv'
<1>1. pc = from
  BY DEF InTransaction
<1>2. CASE ok
  <2>1. pc' = to /\ db' = after /\ UNCHANGED <<outer, alteration>>
    BY <1>2 DEF InTransaction, Step
  <2> QED
    BY <1>1, <1>2, <2>1 DEF AlterationInv, TempInv, ForeignInv, SavedInv, Places, Suspended, Filling,
                            Transacting, alteration
<1>3. CASE ~ok
  BY <1>1, <1>3, RolledBackStep DEF InTransaction
<1> QED
  BY <1>2, <1>3

LEMMA ReadStep ==
  ASSUME AlterationInv, Read
  PROVE  AlterationInv'
<1>1. pc = "run" /\ UNCHANGED <<db, outer>>
  BY DEF Read, Statement, Fails, Step
<1>2. CASE RewriteFails(db.table, Head(queue))
  BY <1>1, <1>2, OutsideStep DEF Read, Fails, AlterationInv
<1>3. CASE ~RewriteFails(db.table, Head(queue))
  <2>1. /\ pc' = "read" /\ UNCHANGED <<wasOn, saved>>
        /\ new'.table = Rewrite(db.table, Head(queue))
    BY <1>3 DEF Read, Step
  <2>2. Definition(new'.table)
    BY <2>1, RewrittenDefinition DEF AlterationInv, Sane
  <2> QED
    BY <1>1, <2>1, <2>2 DEF AlterationInv, TempInv, ForeignInv, SavedInv, Places, Suspended, Filling,
                            Transacting
<1> QED
  BY <1>2, <1>3

LEMMA ForeignOffStep ==
  ASSUME AlterationInv, ForeignOff
  PROVE  AlterationInv'
<1>1. /\ pc = "read" /\ pc' = "begin" /\ UNCHANGED <<outer, new, saved>>
      /\ wasOn' = db.fk /\ db' = IF outer THEN db ELSE [db EXCEPT !.fk = FALSE]
  BY DEF ForeignOff, Step
<1>2. /\ Sane(db') /\ db'.temp = db.temp /\ db'.fkAtFirst = db.fkAtFirst
      /\ db'.fk = (outer /\ db.fk)
  BY <1>1, SaneUpdates DEF AlterationInv, Sane
<1>3. db.fk = db.fkAtFirst /\ db.fk \in BOOLEAN /\ outer \in BOOLEAN
  BY <1>1 DEF AlterationInv, ForeignInv, Suspended, Transacting
<1>4. wasOn' = db'.fkAtFirst /\ db'.fk = (outer' /\ wasOn')
  <2>1. outer' = outer /\ wasOn' = db.fk
    BY <1>1
  <2> QED
    BY <1>2, <1>3, <2>1, Zenon
<1>5. ForeignInv' /\ db'.fk \in BOOLEAN
  <2>1. pc' \in Suspended'
    BY <1>1 DEF Suspended
  <2>2. (outer /\ db.fk) \in BOOLEAN
    OBVIOUS
  <2> QED
    BY <1>2, <1>4, <2>1, <2>2, Zenon DEF ForeignInv
<1> QED
  BY <1>1, <1>2, <1>5 DEF AlterationInv, TempInv, SavedInv, Places, Suspended, Filling, Transacting

LEMMA BeginStep ==
  ASSUME AlterationInv, Begin
  PROVE  AlterationInv'
BY DEF Begin, Step, AlterationInv, TempInv, ForeignInv, SavedInv, Places, Suspended, Filling, Transacting

\* Creating, filling, dropping, renaming: each keeps a table where there is a row.
LEMMA TransactionStep ==
  ASSUME AlterationInv,
         CreateTemp \/ CopyData \/ DropOriginal \/ RenameTable \/ CreateIndexes \/ ForeignKeyCheck
  PROVE  AlterationInv'
<1> DEFINE table == [new.table EXCEPT !.cons = {con \in @ : con.level = "table"}]
<1> USE DEF Filling, Transacting
<1>1. Sane(db)
  BY DEF AlterationInv
<1>2. CASE CreateTemp
  <2>1. pc = "create" /\ Definition(new.table)
    BY <1>2 DEF CreateTemp, InTransaction, AlterationInv, TempInv
  <2>2. Definition(table) /\ table.cols = new.table.cols
    BY <2>1, Updated
  <2>3. InTransaction("create", "copy", Sound(new.table), [db EXCEPT !.temp = table])
    BY <1>2, Zenon DEF CreateTemp
  <2> HIDE DEF table
  <2>4. Sane([db EXCEPT !.temp = table])
    BY <1>1, SaneUpdates
  <2>5. LET after == [db EXCEPT !.temp = table]
        IN after.temp = table /\ after.fk = db.fk /\ after.fkAtFirst = db.fkAtFirst
    BY <1>1 DEF Sane
  <2>6. Sound(new.table) => Exists(table)
    BY <2>2 DEF Sound, Exists
  <2> QED
    BY <2>2, <2>3, <2>4, <2>5, <2>6, InTransactionStep
<1>3. CASE CopyData
  <2>1. PICK row, ok : InTransaction("copy", "drop", ok, [db EXCEPT !.tempRow = row])
    BY <1>3, Zenon DEF CopyData
  <2>2. pc = "copy"
    BY <2>1 DEF InTransaction
  <2>3. Exists(db.temp) /\ Definition(db.temp)
    BY <2>2 DEF AlterationInv, TempInv
  <2>4. LET after == [db EXCEPT !.tempRow = row]
        IN Sane(after) /\ after.temp = db.temp /\ after.fk = db.fk /\ after.fkAtFirst = db.fkAtFirst
    BY <1>1 DEF Sane
  <2> QED
    BY <2>1, <2>3, <2>4, InTransactionStep
<1>4. CASE DropOriginal
  <2>1. PICK child, ok : InTransaction("drop", "rename", ok,
                           [db EXCEPT !.table = NoTable, !.row = <<>>, !.child = child])
    BY <1>4, Zenon DEF DropOriginal
  <2>2. pc = "drop"
    BY <2>1 DEF InTransaction
  <2>3. Exists(db.temp) /\ Definition(db.temp)
    BY <2>2 DEF AlterationInv, TempInv
  <2> DEFINE one == [db EXCEPT !.table = NoTable]
             two == [one EXCEPT !.row = <<>>]
             after == [two EXCEPT !.child = child]
  <2>4. InTransaction("drop", "rename", ok, after)
    BY <2>1, Zenon
  <2>5. one = [table |-> NoTable, row |-> db.row, temp |-> db.temp, tempRow |-> db.tempRow,
               child |-> db.child, fk |-> db.fk, fkAtFirst |-> db.fkAtFirst]
    BY <1>1 DEF Sane
  <2> HIDE DEF one
  <2>6. two = [table |-> NoTable, row |-> <<>>, temp |-> db.temp, tempRow |-> db.tempRow,
               child |-> db.child, fk |-> db.fk, fkAtFirst |-> db.fkAtFirst]
    BY <2>5
  <2> HIDE DEF two
  <2>7. Definition(NoTable)
    BY DEF NoTable, Definition
  <2>8. Sane(after) /\ after.temp = db.temp /\ after.fk = db.fk /\ after.fkAtFirst = db.fkAtFirst
    BY <2>6, <2>7 DEF Sane
  <2> HIDE DEF after
  <2> QED
    BY <2>3, <2>4, <2>8, InTransactionStep
<1>5. CASE RenameTable
  <2> DEFINE one == [db EXCEPT !.table = db.temp]
             two == [one EXCEPT !.row = db.tempRow]
             three == [two EXCEPT !.temp = NoTable]
             after == [three EXCEPT !.tempRow = <<>>]
  <2>1. InTransaction("rename", "reindex", TRUE, after)
    BY <1>5, Zenon DEF RenameTable
  <2>2. pc = "rename"
    BY <2>1 DEF InTransaction
  <2>3. Exists(db.temp) /\ Definition(db.temp)
    BY <2>2 DEF AlterationInv, TempInv
  <2>4. one = [table |-> db.temp, row |-> db.row, temp |-> db.temp, tempRow |-> db.tempRow,
               child |-> db.child, fk |-> db.fk, fkAtFirst |-> db.fkAtFirst]
    BY <1>1 DEF Sane
  <2> HIDE DEF one
  <2>5. two = [table |-> db.temp, row |-> db.tempRow, temp |-> db.temp, tempRow |-> db.tempRow,
               child |-> db.child, fk |-> db.fk, fkAtFirst |-> db.fkAtFirst]
    BY <2>4
  <2> HIDE DEF two
  <2>6. three = [table |-> db.temp, row |-> db.tempRow, temp |-> NoTable, tempRow |-> db.tempRow,
                 child |-> db.child, fk |-> db.fk, fkAtFirst |-> db.fkAtFirst]
    BY <2>5
  <2> HIDE DEF three
  <2>7. Sane(after) /\ after.temp = NoTable /\ after.fk = db.fk /\ after.fkAtFirst = db.fkAtFirst
    BY <2>3, <2>6 DEF Sane
  <2> HIDE DEF after
  <2> QED
    BY <2>1, <2>7, InTransactionStep
<1>6. CASE CreateIndexes
  <2> DEFINE cons == db.table.cons \cup {con \in new.table.cons : con.level = "index"}
             indexed == [db.table EXCEPT !.cons = cons]
             after == [db EXCEPT !.table = indexed]
  <2>1. InTransaction("reindex", "check", TRUE, after)
    BY <1>6, Zenon DEF CreateIndexes
  <2>2. pc = "reindex"
    BY <2>1 DEF InTransaction
  <2>3. db.temp = NoTable
    BY <2>2 DEF AlterationInv, TempInv
  <2> HIDE DEF cons
  <2>4. Definition(indexed) /\ indexed.cols = db.table.cols
    BY <1>1, Updated DEF Sane
  <2> HIDE DEF indexed
  <2>5. Sane(after) /\ after.temp = NoTable /\ after.fk = db.fk /\ after.fkAtFirst = db.fkAtFirst
    BY <1>1, <2>3, <2>4 DEF Sane, Exists
  <2> HIDE DEF after
  <2> QED
    BY <2>1, <2>5, InTransactionStep
<1>7. CASE ForeignKeyCheck
  <2>1. PICK ok : InTransaction("check", "finally", ok, db)
    BY <1>7, Zenon DEF ForeignKeyCheck
  <2>2. pc = "check"
    BY <2>1 DEF InTransaction
  <2>3. db.temp = NoTable
    BY <2>2 DEF AlterationInv, TempInv
  <2> QED
    BY <1>1, <2>1, <2>3, InTransactionStep
<1> QED
  BY <1>2, <1>3, <1>4, <1>5, <1>6, <1>7

LEMMA ForeignOnStep ==
  ASSUME AlterationInv, ForeignOn
  PROVE  AlterationInv'
<1>1. /\ pc = "finally" /\ UNCHANGED outer
      /\ db' = IF wasOn /\ ~outer THEN [db EXCEPT !.fk = TRUE] ELSE db
      /\ pc' \in {"run", "idle"}
  <2>1. pc' = "run" \/ pc' = "idle"
    BY Zenon DEF ForeignOn
  <2>2. /\ pc = "finally" /\ UNCHANGED outer
        /\ db' = IF wasOn /\ ~outer THEN [db EXCEPT !.fk = TRUE] ELSE db
    BY Zenon DEF ForeignOn
  <2> QED
    BY <2>1, <2>2
<1>2. Sane(db) /\ wasOn = db.fkAtFirst /\ db.fk = (outer /\ wasOn) /\ db.temp = NoTable
  BY <1>1 DEF AlterationInv, ForeignInv, TempInv, Suspended, Filling
<1>3. Sane(db') /\ db'.temp = db.temp /\ db'.fkAtFirst = db.fkAtFirst /\ db'.fk = db.fkAtFirst
  BY <1>1, <1>2, SaneUpdates DEF Sane, AlterationInv
<1> QED
  BY <1>1, <1>2, <1>3 DEF AlterationInv, TempInv, ForeignInv, SavedInv, Places, Suspended, Filling,
                          Transacting

\* A statement that fails outside the transaction.
LEMMA FaultStep ==
  ASSUME AlterationInv, Fault
  PROVE  AlterationInv'
<1>1. CASE pc \in Transacting /\ RolledBack("fault")
  BY <1>1, RolledBackStep
<1>2. CASE pc = "begin" /\ pc' = "finally" /\ UNCHANGED <<outer, db, alteration>>
  BY <1>2 DEF AlterationInv, TempInv, ForeignInv, SavedInv, Places, Suspended, Filling, Transacting,
              alteration
<1>3. CASE pc \in {"read", "run"} /\ UNCHANGED db /\ Fails("fault")
  BY <1>3, OutsideStep DEF Fails, AlterationInv
<1> QED
  BY <1>1, <1>2, <1>3 DEF Fault

\* Runs, fillings and the other steps outside an alteration.
LEMMA OtherSteps ==
  ASSUME AlterationInv,
         (\E m, c : RunBuilder(m, c)) \/ Populate \/ Finish \/ DropRefs \/ CreateRefs
  PROVE  AlterationInv'
<1>1. Sane(db)
  BY DEF AlterationInv
<1>2. CASE \E m, c : RunBuilder(m, c)
  <2>1. pc = "idle" /\ pc' = "run" /\ UNCHANGED <<db, outer>>
    BY <1>2, Zenon DEF RunBuilder, Resting
  <2> QED
    BY <1>1, <2>1, OutsideStep
<1>3. CASE Populate
  <2>1. /\ pc = "idle" /\ UNCHANGED <<pc, outer>>
        /\ \E child \in Children :
             db' = [db EXCEPT !.row = [i \in DOMAIN db.table.cols |-> db.table.cols[i].name],
                              !.child = child]
    BY <1>3, Zenon DEF Populate, Resting
  <2>2. PICK child : db' = [db EXCEPT !.row = [i \in DOMAIN db.table.cols |-> db.table.cols[i].name],
                                      !.child = child]
    BY <2>1, Zenon
  <2> DEFINE row == [i \in DOMAIN db.table.cols |-> db.table.cols[i].name]
  <2>3. row # <<>> => Exists(db.table)
    BY DEF Exists
  <2>4. db' = [db EXCEPT !.row = row, !.child = child]
    BY <2>2
  <2> HIDE DEF row
  <2>5. Sane(db') /\ db'.temp = db.temp /\ db'.fk = db.fk /\ db'.fkAtFirst = db.fkAtFirst
    BY <1>1, <2>3, <2>4 DEF Sane
  <2> QED
    BY <2>1, <2>5, OutsideStep
<1>4. CASE Finish
  <2>1. pc = "run" /\ pc' = "idle" /\ UNCHANGED <<db, outer>>
    BY <1>4, Zenon DEF Finish
  <2> QED
    BY <1>1, <2>1, OutsideStep
<1>5. CASE DropRefs \/ CreateRefs
  <2>1. /\ pc = "run" /\ pc' \in {"run", "idle"} /\ UNCHANGED outer
        /\ UNCHANGED db \/ \E child : db' = [db EXCEPT !.child = child]
    <3>1. CASE DropRefs
      BY <1>5, <3>1 DEF DropRefs, Statement
    <3>2. CASE CreateRefs
      <4>1. pc = "run"
        BY <3>2 DEF CreateRefs, Statement
      <4>2. CASE db.child.row /\ db.child.own = Head(queue).col
        BY <3>2, <4>1, <4>2 DEF CreateRefs, Fails
      <4>3. CASE ~(db.child.row /\ db.child.own = Head(queue).col)
        <5>1. PICK child : db' = [db EXCEPT !.child = child]
          BY <3>2, <4>3, Zenon DEF CreateRefs
        <5>2. UNCHANGED <<pc, outer>>
          BY <3>2, <4>3 DEF CreateRefs
        <5> QED
          BY <4>1, <5>1, <5>2
      <4> QED
        BY <4>2, <4>3
    <3> QED
      BY <1>5, <3>1, <3>2
  <2>2. CASE UNCHANGED db
    BY <1>1, <2>1, <2>2, OutsideStep
  <2>3. CASE \E child : db' = [db EXCEPT !.child = child]
    <3>1. PICK child : db' = [db EXCEPT !.child = child]
      BY <2>3
    <3>2. Sane(db') /\ db'.temp = db.temp /\ db'.fk = db.fk /\ db'.fkAtFirst = db.fkAtFirst
      BY <1>1, <3>1 DEF Sane
    <3> QED
      BY <2>1, <3>2, OutsideStep
  <2> QED
    BY <2>1, <2>2, <2>3
<1> QED
  BY <1>2, <1>3, <1>4, <1>5

LEMMA AlterationStep ==
  ASSUME AlterationInv, [Next]_vars
  PROVE  AlterationInv'
<1>1. CASE \E calls \in Creations : CreateTable(calls)
  BY <1>1, OtherSteps, Zenon DEF CreateTable
<1>2. CASE \E n \in 1..MaxCalls : \E calls \in [1..n -> Calls] : AlterTableWith(calls)
  BY <1>2, OtherSteps, Zenon DEF AlterTableWith
<1>3. CASE Populate \/ Finish \/ DropRefs \/ CreateRefs
  BY <1>3, OtherSteps
<1>4. CASE Execute
  BY <1>4, ExecuteStep
<1>5. CASE Alteration
  BY <1>5, ReadStep, ForeignOffStep, BeginStep, TransactionStep, ForeignOnStep DEF Alteration
<1>6. CASE Fault
  BY <1>6, FaultStep
<1>7. CASE UNCHANGED vars
  BY <1>7 DEF vars, alteration, AlterationInv, Sane, TempInv, ForeignInv, SavedInv
<1> QED
  BY <1>1, <1>2, <1>3, <1>4, <1>5, <1>6, <1>7 DEF Next

\* Schema.tla: the state of an alteration, at each of its steps, is what the
\* next one and a rollback need: the new table is there between its creation and
\* its renaming, foreign keys are as wasOn says, and what a rollback restores is
\* clean.
THEOREM AlterationInductive == Spec => []AlterationInv
<1>1. AlterationInv /\ [Next]_vars => AlterationInv'
  BY AlterationStep
<1> QED
  BY <1>1, InitAlteration, PTL DEF Spec

\* SQLite3_DDL.alter and the table compilers: whichever statement fails, no table
\* of the alteration is left, the table is there and foreign keys are enforced as
\* before, in a transaction of the program as well.
THEOREM LeavesNothing == Spec => []NothingLeftBehind
<1>1. AlterationInv => NothingLeftBehind
  BY DEF AlterationInv, Sane, TempInv, ForeignInv, NothingLeftBehind, Done, Suspended, Filling, Transacting
<1> QED
  BY <1>1, AlterationInductive, PTL
=============================================================================
