----------------------------- MODULE MCMigrator -----------------------------
(* Values for the constants of Migrator. *)
EXTENDS Migrator

CONSTANTS p1, p2, old, new

ThreeIds == 1..3
TwoDeployments == {p1, p2}
(* The second process has an edited version of the second migration. *)
TwoSums ==
  [p \in TwoDeployments |->
    [m \in ThreeIds |-> IF p = p2 /\ m = 2 THEN new ELSE old]]
=============================================================================
