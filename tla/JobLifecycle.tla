---------------------------- MODULE JobLifecycle ----------------------------
(***************************************************************************)
(* What the job queue promises for each job, whoever processes it: a job   *)
(* is submitted once, is taken by one worker at a time, is tried at most   *)
(* MaxTries times and ends either done or buried, for good.                *)
(***************************************************************************)
EXTENDS Naturals

CONSTANTS Jobs, MaxTries

VARIABLES
  phase,   \* phase[j]: where job j is in its life
  tries    \* tries[j]: how often its handler was started

vars == <<phase, tries>>

Init ==
  /\ phase \in [Jobs -> {"new", "waiting"}]
  /\ tries = [j \in Jobs |-> 0]

Move(j, from, to) ==
  /\ phase[j] = from
  /\ phase' = [phase EXCEPT ![j] = to]

Submit(j) == Move(j, "new", "waiting") /\ UNCHANGED tries

Take(j) == Move(j, "waiting", "taken") /\ UNCHANGED tries

Try(j) ==
  /\ tries[j] < MaxTries
  /\ Move(j, "taken", "trying")
  /\ tries' = [tries EXCEPT ![j] = @ + 1]

(* A job nobody can run is buried without being tried. *)
Refuse(j) == Move(j, "taken", "buried") /\ UNCHANGED tries

Finish(j) == Move(j, "trying", "done") /\ UNCHANGED tries

GiveBack(j) ==
  /\ tries[j] < MaxTries
  /\ Move(j, "trying", "waiting")
  /\ UNCHANGED tries

Bury(j) ==
  /\ tries[j] = MaxTries
  /\ Move(j, "trying", "buried")
  /\ UNCHANGED tries

Next ==
  \E j \in Jobs :
    \/ Submit(j) \/ Take(j) \/ Try(j) \/ Refuse(j)
    \/ Finish(j) \/ GiveBack(j) \/ Bury(j)

Spec == Init /\ [][Next]_vars
=============================================================================
