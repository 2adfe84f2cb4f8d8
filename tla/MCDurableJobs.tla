--------------------------- MODULE MCDurableJobs ---------------------------
(* Values for the constants of DurableJobs. *)
EXTENDS DurableJobs

CONSTANTS p1, p2, w1, w2, k1

OneId == {1}
OnePrio == [i \in OneId |-> 2]
OneNoKey == [i \in OneId |-> NoKey]
TwoIds == {1, 2}
TwoPrio == [i \in TwoIds |-> i]
TwoSameKey == [i \in TwoIds |-> k1]
=============================================================================
