----------------------------- MODULE MCJobQueue -----------------------------
(* Values for the constants of JobQueue. *)
EXTENDS JobQueue, TLC

CONSTANTS c1, c2, w1, w2, k1

ClientSymmetry == Permutations(Clients)

TwoIds == 1..2
TwoPrio == [i \in TwoIds |-> i]
(* The second worker belongs to a queue that does not define job 2. *)
TwoOneUnknown == [p \in Procs |-> IF p = w2 THEN {1} ELSE TwoIds]
TwoNoKeys == [i \in TwoIds |-> NoKey]
TwoSameKey == [i \in TwoIds |-> k1]
TwoOneKey == [i \in TwoIds |-> IF i = 2 THEN k1 ELSE NoKey]

ThreeIds == 1..3
ThreePrio == [i \in ThreeIds |-> IF i = 3 THEN 3 ELSE 2]
ThreeAllKnown == [p \in Procs |-> ThreeIds]
(* Every job is enqueued with one idempotency key. *)
ThreeSameKey == [i \in ThreeIds |-> k1]
=============================================================================
