------------------------------ MODULE MCQueries ------------------------------
(* Instances of Queries for TLC: the calls offered to the programs. *)
EXTENDS Queries

\* A call of a family: with n values, a raw column or not, and an option.
C(family, op, n, raw, key) ==
    [family |-> family, op |-> op, or |-> FALSE, not |-> FALSE, raw |-> raw, n |-> n,
     key |-> key, rows |-> <<>>, by |-> 0, on |-> First]

Or(c)  == [c EXCEPT !.or = TRUE]
Neg(c) == [c EXCEPT !.not = TRUE]

W(op, n) == C("where", op, n, FALSE, "")

WhereShapes ==
    {Or(W("whereBasic", 1)), Neg(W("whereIn", 0)), C("where", "whereIn", 2, TRUE, ""),
     C("where", "whereOperatorIn", 1, FALSE, "not in"), Or(Neg(W("whereBetween", 1))),
     Or(W("whereObject", 2)), W("whereJsonPath", 2), Neg(W("whereJsonSubsetOf", 1)), Neg(C("where", "whereRaw", 2, FALSE, "")),
     W("whereJsonSupersetOf", 1), C("where", "whereBasic", 1, FALSE, "undefined")}

HavingShapes == {Or(C("having", "havingBasic", 1, FALSE, "")), C("having", "havingIn", 0, FALSE, "")}

AddShapes ==
    {C("add", "select", 0, TRUE, ""), C("add", "distinctOn", 0, TRUE, ""),
     Or(Neg(C("add", "join", 2, TRUE, "onBetween"))), C("add", "union", 1, FALSE, ""),
     C("add", "with", 1, FALSE, ""), C("add", "orderBy", 0, TRUE, ""),
     C("add", "jsonExtract", 1, FALSE, "")}

\* The values of the rows, by their number.
Rows == <<<<<<"y", 1>>>>, <<<<"x", 2>>, <<"y", 3>>>>, <<<<"z", 4>>>>>>

SetShapes ==
    {C("set", "table", 0, TRUE, ""), [C("set", "insert", 0, FALSE, "") EXCEPT !.rows = Rows],
     C("set", "delete", 0, FALSE, ""), C("set", "returning", 0, FALSE, "triggers"),
     C("set", "clear", 0, FALSE, "where"), C("set", "lock", 0, FALSE, "forUpdate")}

PagingShapes == {C("paging", "limit", 1, FALSE, ""), C("paging", "offset", 1, FALSE, "skip")}

UpdateShapes ==
    {C("counter", "counter", 1, FALSE, "x"), C("counter", "counter", 1, FALSE, "y"), C("update", "update", 1, FALSE, "x"),
     C("conflict", "onConflict", 1, FALSE, "x"), C("clearCounters", "clear", 0, FALSE, "counter")}

MCOffered ==
    WhereShapes \cup HavingShapes \cup AddShapes \cup SetShapes \cup PagingShapes \cup UpdateShapes

MCDialects == {"mssql", "mysql", "pg", "sqlite", "oracledb"}

\* orWhere with an object
ObjectOffered == {Or(W("orWhereObject", 2)), W("whereBasic", 1)}
=============================================================================
