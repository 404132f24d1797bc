------------------------------ MODULE MCRunner ------------------------------
(* Instances of Runner for TLC. *)
EXTENDS Runner

\* Two statements without a timeout, or one with.
AllPlans == {[length |-> 2, timeout |-> "none"]}
              \cup [length : {1}, timeout : {"plain", "cancel"}]

\* Runs are numbers and start in their order, which loses nothing, as their
\* identities mean nothing.
StartOrder ==
  \A r \in Run : at'[r] # "new" => \A q \in 1 .. r - 1 : at'[q] # "new"
=============================================================================
