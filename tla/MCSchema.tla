------------------------------ MODULE MCSchema ------------------------------
(* Five tables and the calls that change them. *)
EXTENDS Schema

Call(op, cols) ==
    [op |-> op, cols |-> cols, list |-> TRUE, name |-> "", type |-> "integer", null |-> TRUE,
     default |-> "", checks |-> <<>>, alter |-> FALSE, to |-> "", bound |-> FALSE]

Column(name, type) == [Call("column", <<name>>) EXCEPT !.type = type]
NotNull(c) == [c EXCEPT !.null = FALSE]

MCCreations ==
    { <<Column("a", "increments"), Column("b", "integer")>>,
      <<Call("foreign", <<"b">>), NotNull(Column("a", "integer")),
        [Column("b", "integer") EXCEPT !.default = "zero"], Call("primary", <<"a">>)>>,
      <<Column("a", "enu"), [Column("b", "integer") EXCEPT !.checks = <<"short">>],
        Call("unique", <<"a", "b">>), Call("index", <<"b">>), Call("check", <<"b">>)>>,
      <<[Column("a", "enu") EXCEPT !.checks = <<"short">>], Column("b", "integer")>>,
      <<Column("a", "increments"), NotNull(Column("b", "integer")),
        [Call("primary", <<"b">>) EXCEPT !.list = FALSE]>> }

MCCalls ==
    { NotNull([Column("x", "enu") EXCEPT !.default = "zero"]),
      [NotNull(Column("b", "integer")) EXCEPT !.alter = TRUE],
      [Column("b", "enu") EXCEPT !.alter = TRUE, !.default = "zero"],
      [Column("b", "integer") EXCEPT !.alter = TRUE, !.checks = <<"short">>],
      Call("dropColumn", <<"a">>),
      Call("dropColumn", <<"b">>),
      [Call("renameColumn", <<"a">>) EXCEPT !.to = "x"],
      Call("primary", <<"b">>),
      Call("unique", <<"b">>),
      Call("foreign", <<"b">>),
      Call("check", <<"b">>),
      [Call("check", <<"b">>) EXCEPT !.name = "positive"],
      [Call("check", <<"b">>) EXCEPT !.name = "positive", !.bound = TRUE],
      Call("dropPrimary", <<>>),
      Call("dropUnique", <<"a", "b">>),
      Call("dropIndex", <<"b">>),
      Call("dropForeign", <<"b">>),
      Call("setNullable", <<"b">>) }
=============================================================================
