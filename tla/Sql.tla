--------------------------------- MODULE Sql ---------------------------------
(***************************************************************************)
(* A compiled piece of SQL, as the formatter and the query compilers make   *)
(* it: a text and the list of bindings that compiling it pushed onto the    *)
(* shared bindings holder.  The text is kept as a sequence of tokens:       *)
(* placeholders, each standing for the value it was made for, and the few   *)
(* keywords a property or a condition looks at.  Identifiers and layout     *)
(* are left out.  What is pushed first is bound first, wherever its         *)
(* placeholder ends up in the text.                                         *)
(***************************************************************************)
EXTENDS Naturals, Sequences, SequencesExt

CONSTANT MaxCalls     \* bound on the number of method calls of a run

\* The i-th value that call number k brings in.
Token(k, i) == ToString(k) \o "." \o ToString(i)

\* What a placeholder can stand for: values of the program, the constants
\* the library itself binds, and a value nobody gave.
Value == {Token(k, i) : k \in 1..MaxCalls, i \in 0..4}
           \cup {"-1", "0", "1", "last row", "out", "null", "undefined"}

Nothing == [text |-> <<>>, bound |-> <<>>]

Word(w) == [text |-> <<w>>, bound |-> <<>>]

\* A list of values under placeholders, and a raw expression or a subquery
\* with bindings of its own: they are pushed as the text is made.
Bind(tokens) == [text |-> tokens, bound |-> SelectSeq(tokens, LAMBDA t : t \in Value)]

\* parts is in the order of evaluation, order says how they are put together.
Written(parts, order) ==
    [text  |-> FlattenSeq([i \in DOMAIN order |-> parts[order[i]].text]),
     bound |-> FlattenSeq([i \in DOMAIN parts |-> parts[i].bound])]

InOrder(parts) == Written(parts, [i \in DOMAIN parts |-> i])

Shown(piece) == piece.text # <<>>

\* A clause that appears only when what follows its keyword does.
Headed(w, piece) == IF Shown(piece) THEN InOrder(<<Word(w), piece>>) ELSE Nothing

When(condition, piece) == IF condition THEN piece ELSE Nothing

Placeholders(piece) == SelectSeq(piece.text, LAMBDA t : t \in Value)

\* A compilation that throws.
Throw == Word("throws")

Throws(piece) == "throws" \in ToSet(piece.text)

\* The database assigns the bindings to the placeholders from left to right;
\* an empty text is not sent to it.
Aligned(piece) ==
    Throws(piece) \/ ~Shown(piece) \/ Placeholders(piece) = piece.bound

-----------------------------------------------------------------------------
(* JavaScript objects used as maps: keys in the order of their insertion *)

Keys(object) == {object[i][1] : i \in DOMAIN object}

Put(object, key, value) ==
    IF key \in Keys(object)
    THEN [i \in DOMAIN object |-> IF object[i][1] = key THEN <<key, value>> ELSE object[i]]
    ELSE Append(object, <<key, value>>)

Get(object, key) ==
    IF key \in Keys(object)
    THEN object[CHOOSE i \in DOMAIN object : object[i][1] = key][2]
    ELSE "undefined"
=============================================================================
