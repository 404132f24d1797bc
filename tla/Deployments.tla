---------------------------- MODULE Deployments ----------------------------
(***************************************************************************)
(* What knex.migrate.latest and up promise where a transaction surrounds   *)
(* the batch: however many processes deploy, fail and die, the database    *)
(* only ever moves by whole batches.  A batch applies migrations that were *)
(* not applied, in the order of their names, and records them under a      *)
(* number higher than any before.                                          *)
(***************************************************************************)
EXTENDS Order

CONSTANT Mig

VARIABLES
  log,      \* what is recorded, in order: [name, batch]
  applied   \* the migrations whose changes the database shows

Recorded == {log[i].name : i \in DOMAIN log}

NextBatch == IF log = <<>> THEN 1 ELSE log[Len(log)].batch + 1

Init == log = <<>> /\ applied = {}

Deploy(ms) ==
  LET order == Ascending(ms)
  IN /\ log' = log \o [i \in DOMAIN order |-> [name |-> order[i], batch |-> NextBatch]]
     /\ applied' = applied \cup ms

Next == \E ms \in SUBSET (Mig \ Recorded) : Deploy(ms)

Spec == Init /\ [][Next]_<<log, applied>>
=============================================================================
