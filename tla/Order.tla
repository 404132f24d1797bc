------------------------------- MODULE Order --------------------------------
(***************************************************************************)
(* Lists in the order of their elements, and parts of a list in its order: *)
(* what the migrator sorts and filters, defined by what it returns and not *)
(* by how, so that it can be proved about (MigratorProofs).                *)
(***************************************************************************)
EXTENDS SequencesExt

Increasing(s) == \A i, j \in DOMAIN s : i < j => s[i] < s[j]

\* The elements of a finite set of numbers, in ascending order.
Ascending(S) == CHOOSE s \in [1 .. Cardinality(S) -> S] : Increasing(s)

\* What the list holds at the positions I, in the order of the list.
Selected(s, I) ==
  LET at == Ascending(I) IN [k \in DOMAIN at |-> s[at[k]]]
=============================================================================
