----------------------------- MODULE JobWorker -----------------------------
(***************************************************************************)
(* RootwareJobWorker (packages/async/jobs/mod.ts): the interval loop that   *)
(* queue.worker() returns.  A tick starts Concurrency calls of processNext *)
(* at once and then awaits their promises one after the other.  What        *)
(* processNext does is in JobQueue; here it is a promise that settles.      *)
(***************************************************************************)
EXTENDS Naturals, Sequences, FiniteSets

CONSTANTS
  Ticks,         \* bound: the runs of tick() there may be
  Stops,         \* stop() calls, each at most once
  MaxConcurrency \* bound on JobWorkerOptions.concurrency

WorkerAssumption == MaxConcurrency \in Nat \ {0}

VARIABLES
  options,     \* JobWorkerOptions: concurrency and stopOnError
  running,     \* #running
  intervals,   \* how many setInterval timers fire
  aborted,     \* the signal of the options
  timed,       \* the ticks the interval launched; the others are the owner's
  phase,       \* how far each tick is
  next,        \* the index of the task each tick awaits
  task,        \* the array of processNext promises of each tick
  stop,        \* how far each stop() call is
  waits        \* the copy of #active each stop() call awaits

vars == <<options, running, intervals, aborted, timed, phase, next, task, stop, waits>>
tickVars == <<timed, phase, next, task>>

Options == [concurrency: 1..MaxConcurrency, stopOnError: BOOLEAN]

TypeOK ==
  /\ options \in Options
  /\ running \in BOOLEAN
  /\ intervals \in Nat
  /\ aborted \in BOOLEAN
  /\ timed \in SUBSET Ticks
  /\ phase \in [Ticks -> {"unused", "awaiting", "throwing", "settled"}]
  /\ next \in [Ticks -> 1..options.concurrency]
  /\ task \in [Ticks -> Seq({"pending", "done", "failed"})]
  /\ stop \in [Stops -> {"unused", "waiting", "resolved"}]
  /\ waits \in [Stops -> SUBSET Ticks]

Init ==
  /\ options \in Options
  /\ running = FALSE
  /\ intervals = 0
  /\ aborted = FALSE
  /\ timed = {}
  /\ phase = [t \in Ticks |-> "unused"]
  /\ next = [t \in Ticks |-> 1]
  /\ task = [t \in Ticks |-> <<>>]
  /\ stop = [s \in Stops |-> "unused"]
  /\ waits = [s \in Stops |-> {}]

(* #active: the ticks of the interval whose promise has not settled. *)
Active == {t \in timed : phase[t] \in {"awaiting", "throwing"}}

-----------------------------------------------------------------------------
Mut_StartTwice ==
  /\ running' = TRUE
  /\ intervals' = intervals + 1
  /\ UNCHANGED <<options, aborted, tickVars, stop, waits>>

(* start() throws when the loop runs; otherwise it sets the interval. *)
Start ==
  /\ ~running
  /\ running' = TRUE
  /\ intervals' = intervals + 1
  /\ UNCHANGED <<options, aborted, tickVars, stop, waits>>

(* stopIfRunning(false): the flag and the interval go, nothing is awaited. *)
StopIfRunning ==
  /\ running' = FALSE
  /\ intervals' = IF running THEN intervals - 1 ELSE intervals

(* stop() rejects when the loop does not run; otherwise it awaits the ticks  *)
(* that are active now.                                                    *)
Stop(s) ==
  /\ stop[s] = "unused"
  /\ running
  /\ StopIfRunning
  /\ stop' = [stop EXCEPT ![s] = "waiting"]
  /\ waits' = [waits EXCEPT ![s] = Active]
  /\ UNCHANGED <<options, aborted, tickVars>>

StopResolves(s) ==
  /\ stop[s] = "waiting"
  /\ waits[s] \cap Active = {}
  /\ stop' = [stop EXCEPT ![s] = "resolved"]
  /\ UNCHANGED <<options, running, intervals, aborted, tickVars, waits>>

Abort ==
  /\ ~aborted
  /\ aborted' = TRUE
  /\ UNCHANGED <<options, running, intervals, tickVars, stop, waits>>

-----------------------------------------------------------------------------
Mut_OneTaskTooMany(t) ==
  /\ phase[t] = "unused" /\ ~aborted
  /\ phase' = [phase EXCEPT ![t] = "awaiting"]
  /\ task' = [task EXCEPT ![t] = [k \in 1..(options.concurrency + 1) |-> "pending"]]
  /\ UNCHANGED <<options, running, intervals, aborted, next, stop, waits>>

(* tick(): with an aborted signal nothing happens. *)
BeginTick(t) ==
  /\ phase[t] = "unused" /\ ~aborted
  /\ phase' = [phase EXCEPT ![t] = "awaiting"]
  /\ task' = [task EXCEPT ![t] = [k \in 1..options.concurrency |-> "pending"]]
  /\ UNCHANGED <<options, running, intervals, aborted, next, stop, waits>>

(* The interval fires whether or not earlier ticks have settled. *)
IntervalFires(t) == intervals > 0 /\ BeginTick(t) /\ timed' = timed \cup {t}

OwnerTicks(t) == BeginTick(t) /\ UNCHANGED timed

(* A call of processNext settles. *)
TaskSettles(t, k) ==
  /\ task[t][k] = "pending"
  /\ \E outcome \in {"done", "failed"} : task' = [task EXCEPT ![t][k] = outcome]
  /\ UNCHANGED <<options, running, intervals, aborted, timed, phase, next, stop, waits>>

Mut_ErrorEndsTick(t) ==
  /\ phase[t] = "awaiting"
  /\ \/ task[t][next[t]] = "done"
     \/ task[t][next[t]] = "failed" /\ ~options.stopOnError
  /\ IF next[t] < Len(task[t]) /\ task[t][next[t]] = "done"
     THEN next' = [next EXCEPT ![t] = @ + 1] /\ UNCHANGED phase
     ELSE phase' = [phase EXCEPT ![t] = "settled"] /\ UNCHANGED next
  /\ UNCHANGED <<options, running, intervals, aborted, timed, task, stop, waits>>

(* The loop goes past a job or, without stopOnError, past a logged error.  A *)
(* tick that has awaited its last task settles and leaves #active.          *)
LoopContinues(t) ==
  /\ phase[t] = "awaiting"
  /\ \/ task[t][next[t]] = "done"
     \/ task[t][next[t]] = "failed" /\ ~options.stopOnError
  /\ IF next[t] < Len(task[t])
     THEN next' = [next EXCEPT ![t] = @ + 1] /\ UNCHANGED phase
     ELSE phase' = [phase EXCEPT ![t] = "settled"] /\ UNCHANGED next
  /\ UNCHANGED <<options, running, intervals, aborted, timed, task, stop, waits>>

(* With stopOnError the loop stops the worker and rethrows; the tasks after  *)
(* the failed one are awaited by nobody.                                   *)
ErrorStops(t) ==
  /\ phase[t] = "awaiting"
  /\ task[t][next[t]] = "failed" /\ options.stopOnError
  /\ StopIfRunning
  /\ phase' = [phase EXCEPT ![t] = "throwing"]
  /\ UNCHANGED <<options, aborted, timed, next, task, stop, waits>>

(* The interval's catch stops once more, even a loop started meanwhile; the  *)
(* owner of a tick() call gets the error.                                  *)
TickRejects(t) ==
  /\ phase[t] = "throwing"
  /\ phase' = [phase EXCEPT ![t] = "settled"]
  /\ IF t \in timed THEN StopIfRunning ELSE UNCHANGED <<running, intervals>>
  /\ UNCHANGED <<options, aborted, timed, next, task, stop, waits>>

TickStep(t) == LoopContinues(t) \/ ErrorStops(t) \/ TickRejects(t)

Next ==
  \/ Start \/ Abort
  \/ \E s \in Stops : Stop(s) \/ StopResolves(s)
  \/ \E t \in Ticks :
       \/ IntervalFires(t) \/ OwnerTicks(t) \/ TickStep(t)
       \/ \E k \in DOMAIN task[t] : TaskSettles(t, k)

Spec == Init /\ [][Next]_vars

(* The runtime resumes what is ready, and every processNext call settles. *)
Fairness ==
  /\ \A s \in Stops : WF_vars(StopResolves(s))
  /\ \A t \in Ticks :
       /\ WF_vars(TickStep(t))
       /\ WF_vars(\E k \in DOMAIN task[t] : TaskSettles(t, k))

FairSpec == Spec /\ Fairness

-----------------------------------------------------------------------------
(* Without stopOnError stop() is graceful: when it has resolved, no job of    *)
(* the ticks that were active is still being processed.                      *)
StopIsGraceful ==
  ~options.stopOnError =>
    \A s \in Stops : \A t \in waits[s] : \A k \in DOMAIN task[t] :
      stop[s] = "resolved" => task[t][k] # "pending"

(* A stopped worker begins nothing: whatever the order of start, stop and     *)
(* failing ticks, no interval outlives the flag.                            *)
StoppedMeansQuiet ==
  [][timed' # timed => running]_vars

(* Ticks settle and stop() resolves, also when the error that stops the       *)
(* worker comes out of a tick that stop() awaits.                           *)
EverythingSettles ==
  /\ \A t \in Ticks : phase[t] = "awaiting" ~> phase[t] = "settled"
  /\ \A s \in Stops : stop[s] = "waiting" ~> stop[s] = "resolved"
=============================================================================
