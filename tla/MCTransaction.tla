--------------------------- MODULE MCTransaction ---------------------------
(* Instances of Transaction for TLC. *)
EXTENDS Transaction, TLC

Plain    == [conn |-> NoConn, isolation |-> FALSE, quiet |-> TRUE]
Isolated == [conn |-> NoConn, isolation |-> TRUE, quiet |-> FALSE]
External == {[conn |-> c, isolation |-> FALSE, quiet |-> TRUE] : c \in ExtConn}

PlainConfigs  == {Plain}
OwnConfigs    == {Plain, Isolated} \cup External

Symmetry == Permutations(Trx) \cup Permutations(PoolConn)

\* Where the identities are numbers: transactions are created in their order,
\* which loses nothing, as their identities mean nothing.
CreationOrder ==
  \A t \in Trx : life'[t] # "none" => \A u \in 1 .. t - 1 : life'[u] # "none"
=============================================================================
