----------------------------- MODULE MCMigrator -----------------------------
(* Instances of Migrator for TLC. *)
EXTENDS Migrator

Two == {1, 2}
Three == {1, 2, 3}

Everywhere2 == [r \in Runner |-> Two]
Everywhere3 == [r \in Runner |-> Three]

\* One runner knows only the first migration.
Behind == [r \in Runner |-> IF r = CHOOSE q \in Runner : TRUE THEN {1} ELSE Two]

Default == [m \in Mig |-> "default"]
\* The last migration opts out of its transaction.
OptOut  == [m \in Mig |-> IF \A n \in Mig : n <= m THEN "off" ELSE "default"]
Do(kind)    == [kind |-> kind, name |-> Unnamed]
Forward     == {Do("latest"), Do("up")}
Named       == {[kind |-> k, name |-> 1] : k \in {"up", "down"}}
AllButUnlock == {Do(k) : k \in Kinds \ {"unlock"}} \cup Named
Everything   == AllButUnlock \cup {Do("unlock")}

\* Bound: no process dies within an unlock. One that does leaves the lock without
\* a row, and every operation that comes next inserts one.
UnlocksComplete == \A r \in Runner : pc[r] \in Unlocking => crashes' = crashes

Symmetry == Permutations(Runner)
=============================================================================
