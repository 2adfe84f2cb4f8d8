---------------------------- MODULE JobRecovery ----------------------------
(***************************************************************************)
(* What a durable queue promises for each job when workers crash, calls to *)
(* the store fail and jobs are canceled: JobLifecycle, with the ways out   *)
(* of it that these faults open, and no others.                            *)
(*   lost      no worker has it and no lease runs: it is never given out   *)
(*   canceled  for good                                                    *)
(*   disputed  its claim ran out before its live worker started it, and it *)
(*             was put back: from here on nothing is promised              *)
(***************************************************************************)
EXTENDS JobLifecycle

Phases == {"new", "waiting", "taken", "trying", "done", "buried", "lost",
           "canceled", "disputed"}

(* The worker is gone after the claim was replaced by a started attempt. *)
Lose(j) ==
  /\ \/ Move(j, "taken", "lost")
     \/ Move(j, "trying", "lost")
  /\ UNCHANGED tries

(* A cancel is stored over whatever became of the job, a result included. *)
Cancel(j) ==
  /\ \E from \in Phases \ {"new", "disputed"} : Move(j, from, "canceled")
  /\ UNCHANGED tries

(* One sweep over the claims that ran out: each waits again, or is disputed. *)
Sweep ==
  /\ phase' \in [Jobs -> Phases]
  /\ \A j \in Jobs :
       phase'[j] # phase[j] => phase[j] = "taken" /\ phase'[j] \in {"waiting", "disputed"}
  /\ UNCHANGED tries

(* A disputed job may be tried again, by whoever thinks it is theirs. *)
TryDisputed(j) ==
  /\ phase[j] = "disputed"
  /\ tries' = [tries EXCEPT ![j] = @ + 1]
  /\ UNCHANGED phase

(* Most of what the queue does shows in no job: TLC is to see that first. *)
RecoveryNext ==
  \/ UNCHANGED vars
  \/ Next
  \/ \E j \in Jobs : Lose(j) \/ Cancel(j) \/ TryDisputed(j)
  \/ Sweep

RecoverySpec == Init /\ [][RecoveryNext]_vars
=============================================================================
