------------------------------ MODULE Migrator ------------------------------
(***************************************************************************)
(* up() and down() of RootwareMigrator (packages/data/migrate/core/mod.ts)  *)
(* on a shared migration history.  The history is memoryMigrationStore,     *)
(* which has a lock and whose driver has no transactions, or the history    *)
(* table of the SQL adapters, which has a primary key and no lock; there    *)
(* each process has a connection of its own, and useTransaction may be off. *)
(* A call plans from the history before it asks for the lock.               *)
(***************************************************************************)
EXTENDS Integers, FiniteSets

CONSTANTS
  Processes,  \* migrators, each with one call at a time
  Ids,        \* the migrations, ordered as their ids are
  Sums,       \* checksums
  None,       \* not applied
  Checksum,   \* the checksum each process has for each migration
  HasDown,    \* the migrations that define a down step
  Kinds,      \* "memory", "sql" and "sqlNoTx" (useTransaction: false)
  MaxCalls    \* bound: calls each process makes

ASSUME MigratorAssumption ==
  /\ Ids \subseteq Nat
  /\ IsFiniteSet(Ids)
  /\ None \notin Sums
  /\ Checksum \in [Processes -> [Ids -> Sums]]
  /\ HasDown \subseteq Ids
  /\ Kinds \subseteq {"memory", "sql", "sqlNoTx"}
  /\ MaxCalls \in Nat

VARIABLES
  kind,       \* the store and driver of all the migrators
  history,    \* the applied migrations and the checksums recorded for them
  effect,     \* up steps less down steps that took effect on the database
  lock,       \* the lock of the memory store
  pc,         \* the await each process stands at
  direction,  \* what its call does
  plan,       \* the migrations its call has still to run
  locked,     \* the processes whose call has lockAcquired
  hit,        \* the processes whose delete found the row it deletes
  calls,      \* how many calls it has made
  stale,      \* history: migrations rolled back that were not applied any more
  mixed       \* history: whether an up and a down have overlapped

vars == <<kind, history, effect, lock, pc, direction, plan, locked, hit, calls, stale, mixed>>

Applied == {m \in Ids : history[m] # None}
Pending == Ids \ Applied
Transactional == kind = "sql"
Busy(p) == pc[p] # "idle"

TypeOK ==
  /\ kind \in Kinds
  /\ history \in [Ids -> Sums \cup {None}]
  /\ effect \in [Ids -> Int]
  /\ lock \in BOOLEAN
  /\ pc \in [Processes -> {"idle", "lock", "step", "mark", "commit", "finally"}]
  /\ direction \in [Processes -> {"up", "down"}]
  /\ plan \in [Processes -> SUBSET Ids]
  /\ locked \subseteq Processes
  /\ hit \subseteq Processes
  /\ calls \in [Processes -> 0..MaxCalls]
  /\ stale \subseteq Ids
  /\ mixed \in BOOLEAN

Init ==
  /\ kind \in Kinds
  /\ history = [m \in Ids |-> None]
  /\ effect = [m \in Ids |-> 0]
  /\ lock = FALSE
  /\ pc = [p \in Processes |-> "idle"]
  /\ direction = [p \in Processes |-> "up"]
  /\ plan = [p \in Processes |-> {}]
  /\ locked = {}
  /\ hit = {}
  /\ calls = [p \in Processes |-> 0]
  /\ stale = {}
  /\ mixed = FALSE

-----------------------------------------------------------------------------
GoTo(p, where) == pc' = [pc EXCEPT ![p] = where]

(* assertCleanPlan: the checksums of what is applied are those of the code. *)
Clean(p) == \A m \in Applied : history[m] = Checksum[p][m]

(* steps and to both cut the migrations that are left to run to the first few. *)
FirstOf(chosen, all, dir) ==
  /\ chosen \subseteq all
  /\ \A m \in chosen, n \in all \ chosen : IF dir = "up" THEN m < n ELSE m > n

Mut_ForgetsReverse(p, m) ==
  /\ m \in plan[p]
  /\ \A n \in plan[p] : m <= n

(* The migration whose turn it is. *)
IsCurrent(p, m) ==
  /\ m \in plan[p]
  /\ \A n \in plan[p] : IF direction[p] = "up" THEN m <= n ELSE m >= n

Overlaps(p, dir) == \E q \in Processes \ {p} : Busy(q) /\ direction[q] # dir

(* The history has been read and the call goes on to the lock.  A call that a *)
(* mismatch or a missing down step stops, and a dry run, change nothing.      *)
Plans(p, dir, all) ==
  /\ pc[p] = "idle"
  /\ calls[p] < MaxCalls
  /\ \E allowDirty \in BOOLEAN, chosen \in SUBSET all :
       /\ Clean(p) \/ allowDirty
       /\ FirstOf(chosen, all, dir)
       /\ dir = "down" => chosen \subseteq HasDown
       /\ plan' = [plan EXCEPT ![p] = chosen]
  /\ GoTo(p, "lock")
  /\ direction' = [direction EXCEPT ![p] = dir]
  /\ calls' = [calls EXCEPT ![p] = @ + 1]
  /\ mixed' = (mixed \/ Overlaps(p, dir))
  /\ UNCHANGED <<kind, history, effect, lock, locked, hit, stale>>

Up(p) == Plans(p, "up", Pending)
Down(p) == Plans(p, "down", Applied)

(* The SQL stores have no acquireLock: the migrator warns and goes on. *)
AcquireLock(p) ==
  /\ pc[p] = "lock"
  /\ kind = "memory" => ~lock
  /\ GoTo(p, "step")
  /\ lock' = (kind = "memory")
  /\ locked' = IF kind = "memory" THEN locked \cup {p} ELSE locked
  /\ UNCHANGED <<kind, history, effect, direction, plan, hit, calls, stale, mixed>>

LockTaken(p) ==
  /\ pc[p] = "lock"
  /\ kind = "memory" /\ lock
  /\ GoTo(p, "finally")
  /\ plan' = [plan EXCEPT ![p] = {}]
  /\ UNCHANGED <<kind, history, effect, lock, direction, locked, hit, calls, stale, mixed>>

(* The step of migration m takes effect for everybody. *)
TakesEffect(p, m) ==
  effect' = [effect EXCEPT ![m] = IF direction[p] = "up" THEN @ + 1 ELSE @ - 1]

(* executeMigrationStep; in a transaction nobody sees it before the commit. *)
Step(p) ==
  /\ pc[p] = "step"
  /\ \E m \in plan[p] :
       /\ IsCurrent(p, m)
       /\ IF Transactional THEN UNCHANGED effect ELSE TakesEffect(p, m)
  /\ GoTo(p, "mark")
  /\ UNCHANGED <<kind, history, lock, direction, plan, locked, hit, calls, stale, mixed>>

(* The loop over the migrations ends with the first one that fails. *)
Abandons(p) ==
  /\ GoTo(p, "finally")
  /\ plan' = [plan EXCEPT ![p] = {}]

(* begin or a statement of the step fails; without a transaction the          *)
(* statements before it stay.                                                 *)
StepFails(p) ==
  /\ pc[p] = "step"
  /\ \E m \in plan[p] :
       /\ IsCurrent(p, m)
       /\ UNCHANGED effect \/ (~Transactional /\ TakesEffect(p, m))
  /\ Abandons(p)
  /\ UNCHANGED <<kind, history, lock, direction, locked, hit, calls, stale, mixed>>

(* The insert and the delete wait for a transaction that has written the row. *)
RowIsFree(p, m) ==
  \A q \in Processes \ {p} :
    ~(/\ pc[q] = "commit" /\ IsCurrent(q, m)
      /\ IF direction[q] = "up" THEN direction[p] = "up" ELSE q \in hit)

Records(p, m) ==
  history' = [history EXCEPT ![m] = IF direction[p] = "up" THEN Checksum[p][m] ELSE None]

Mut_Upserts(p) ==
  /\ pc[p] = "mark"
  /\ \E m \in plan[p] :
       /\ IsCurrent(p, m)
       /\ IF Transactional
          THEN /\ RowIsFree(p, m)
               /\ hit' = IF history[m] # None THEN hit \cup {p} ELSE hit \ {p}
               /\ GoTo(p, "commit")
               /\ UNCHANGED <<history, plan>>
          ELSE /\ Records(p, m)
               /\ plan' = [plan EXCEPT ![p] = @ \ {m}]
               /\ GoTo(p, "step")
               /\ UNCHANGED hit
  /\ UNCHANGED <<kind, effect, lock, direction, locked, calls, stale, mixed>>

(* markApplied is an insert under a primary key, in memory it overwrites;      *)
(* that unmarkApplied may find nothing is not looked at.                       *)
Mark(p) ==
  /\ pc[p] = "mark"
  /\ \E m \in plan[p] :
       /\ IsCurrent(p, m)
       /\ direction[p] = "up" /\ kind # "memory" => history[m] = None
       /\ IF Transactional
          THEN /\ RowIsFree(p, m)
               /\ hit' = IF history[m] # None THEN hit \cup {p} ELSE hit \ {p}
               /\ GoTo(p, "commit")
               /\ UNCHANGED <<history, plan>>
          ELSE /\ Records(p, m)
               /\ plan' = [plan EXCEPT ![p] = @ \ {m}]
               /\ GoTo(p, "step")
               /\ UNCHANGED hit
  /\ UNCHANGED <<kind, effect, lock, direction, locked, calls, stale, mixed>>

(* A primary key violation, or any failure of a SQL store: the transaction,   *)
(* where there is one, is rolled back.                                        *)
MarkFails(p) ==
  /\ pc[p] = "mark"
  /\ kind # "memory"
  /\ Abandons(p)
  /\ UNCHANGED <<kind, history, effect, lock, direction, locked, hit, calls, stale, mixed>>

Commits(p, m) ==
  /\ IsCurrent(p, m)
  /\ TakesEffect(p, m)
  /\ IF direction[p] = "up" \/ p \in hit
     THEN Records(p, m) /\ UNCHANGED stale
     ELSE stale' = stale \cup {m} /\ UNCHANGED history

Commit(p) ==
  /\ pc[p] = "commit"
  /\ \E m \in plan[p] :
       /\ Commits(p, m)
       /\ plan' = [plan EXCEPT ![p] = @ \ {m}]
  /\ GoTo(p, "step")
  /\ UNCHANGED <<kind, lock, direction, locked, hit, calls, mixed>>

(* The commit rejects: it may have gone through all the same. *)
CommitFails(p) ==
  /\ pc[p] = "commit"
  /\ \/ UNCHANGED <<history, effect, stale>>
     \/ \E m \in plan[p] : Commits(p, m)
  /\ Abandons(p)
  /\ UNCHANGED <<kind, lock, direction, locked, hit, calls, mixed>>

Mut_ReleasesAnyway(p) ==
  /\ \/ pc[p] = "finally"
     \/ pc[p] = "step" /\ plan[p] = {}
  /\ GoTo(p, "idle")
  /\ lock' = FALSE
  /\ locked' = locked \ {p}
  /\ UNCHANGED <<kind, history, effect, direction, plan, hit, calls, stale, mixed>>

Mut_KeepsAfterFailure(p) ==
  /\ \/ pc[p] = "finally"
     \/ pc[p] = "step" /\ plan[p] = {}
  /\ GoTo(p, "idle")
  /\ lock' = IF p \in locked /\ pc[p] = "step" THEN FALSE ELSE lock
  /\ locked' = locked \ {p}
  /\ UNCHANGED <<kind, history, effect, direction, plan, hit, calls, stale, mixed>>

(* finally: whoever acquired the lock releases it. *)
Finally(p) ==
  /\ \/ pc[p] = "finally"
     \/ pc[p] = "step" /\ plan[p] = {}
  /\ GoTo(p, "idle")
  /\ lock' = IF p \in locked THEN FALSE ELSE lock
  /\ locked' = locked \ {p}
  /\ UNCHANGED <<kind, history, effect, direction, plan, hit, calls, stale, mixed>>

(* The process dies and its connection with it: an open transaction is undone, *)
(* except that a commit under way may still go through.                       *)
Crash(p) ==
  /\ kind # "memory"
  /\ Busy(p)
  /\ \/ UNCHANGED <<history, effect, stale>>
     \/ pc[p] = "commit" /\ \E m \in plan[p] : Commits(p, m)
  /\ GoTo(p, "idle")
  /\ plan' = [plan EXCEPT ![p] = {}]
  /\ UNCHANGED <<kind, lock, direction, locked, hit, calls, mixed>>

Progress(p) ==
  \/ AcquireLock(p) \/ LockTaken(p)
  \/ Step(p) \/ Mark(p) \/ Commit(p) \/ Finally(p)

Failure(p) == StepFails(p) \/ MarkFails(p) \/ CommitFails(p) \/ Crash(p)

Next == \E p \in Processes : Up(p) \/ Down(p) \/ Progress(p) \/ Failure(p)

Spec == Init /\ [][Next]_vars

(* What a promise waits for comes: a statement returns or rejects. *)
FairSpec ==
  /\ Spec
  /\ \A p \in Processes : WF_vars(Progress(p) \/ MarkFails(p))

-----------------------------------------------------------------------------
(* In transactions the history tells the truth: a migration is recorded if and *)
(* only if its up step took effect once more than its down step, however the  *)
(* migrators overlap, fail and crash.  The exception is a rollback planned    *)
(* before somebody else rolled the migration back: it runs the down step again *)
(* and finds no row to delete, which nobody looks at.                        *)
HistoryTrue ==
  Transactional =>
    \A m \in Ids \ stale : effect[m] = IF m \in Applied THEN 1 ELSE 0

(* The migrations are applied in order and without gaps, even by migrators    *)
(* without a lock that planned on an old history and stop half-way, as long as *)
(* no up overlaps a down.                                                    *)
AppliedInOrder ==
  ~mixed => \A m \in Applied, n \in Ids : n < m => n \in Applied

(* Between acquiring and releasing the lock no other call runs a migration: in *)
(* particular a call that did not get the lock does not release it.          *)
LockExcludes ==
  kind = "memory" =>
    \A p, q \in Processes : pc[p] \in {"step", "mark"} /\ pc[q] \in {"step", "mark"} => p = q

(* Every call comes to its end, and with all of them the lock is free: no two *)
(* transactions wait for each other's rows.                                  *)
EveryCallSettles ==
  /\ \A p \in Processes : Busy(p) ~> ~Busy(p)
  /\ [](lock => <>~lock)
=============================================================================
