------------------------------ MODULE JobQueue ------------------------------
(***************************************************************************)
(* createJobQueue over memoryJobStore (packages/async/jobs/mod.ts).        *)
(*                                                                         *)
(* Every store operation is synchronous inside and runs to its end; a      *)
(* queue operation is a chain of store operations with an await between    *)
(* them, so other calls run in between.  A slot of Clients or Workers is   *)
(* one call in flight; pc says at which await it stands and copy what the  *)
(* call read before it.                                                    *)
(***************************************************************************)
EXTENDS JobRecords

CONSTANTS
  Clients,     \* slots for enqueue, cancel, retry and delete calls
  Workers,     \* slots for processNext calls
  Registry,    \* Registry[p]: jobs whose name has a definition in p's queue
  KeyOf,       \* KeyOf[i]: idempotency key job i is enqueued with
  NoKey,       \* no idempotency key
  NoId,        \* a call that holds no job
  Seed,        \* MemoryJobStoreOptions.jobs
  MaxJobs,     \* MemoryJobStoreOptions.maxJobs
  Delays,      \* EnqueueOptions.delayMs values
  Ops,         \* which of "cancel", "retry", "delete", "reuse" callers use
  MaxTime,     \* bound: the clock stops here
  MaxRuns      \* bound: no retry and no reused id after this many runs

Procs == Clients \cup Workers

ASSUME QueueAssumption ==
  /\ Clients \cap Workers = {}
  /\ Registry \in [Procs -> SUBSET Ids]
  /\ NoId \notin Ids
  /\ Seed \subseteq Ids
  /\ MaxJobs \in Nat \ {0}
  /\ Delays \subseteq Nat
  /\ Ops \subseteq {"cancel", "retry", "delete", "reuse"}
  /\ MaxTime \in Nat /\ MaxRuns \in Nat

VARIABLES
  store,   \* the Map of memoryJobStore
  older,   \* <<a, b>>: a comes before b in the Map's insertion order
  now,     \* Date.now()
  pc,      \* the await each call stands at
  at,      \* the job each call works on
  copy,    \* the record each call read or built
  used,    \* history: ids that were enqueued
  revived, \* history: ids enqueued again or brought back by retry()
  runs     \* history: how many attempts at each job were begun

vars == <<store, older, now, pc, at, copy, used, revived, runs>>

PcValues == {"idle", "enqueue", "cancel", "retry", "claimed", "running"}

TypeOK ==
  /\ store \in [Ids -> Slot]
  /\ older \in SUBSET (Ids \X Ids)
  /\ now \in Nat
  /\ pc \in [Procs -> PcValues]
  /\ at \in [Procs -> Ids \cup {NoId}]
  /\ copy \in [Procs -> Slot]
  /\ used \in SUBSET Ids
  /\ revived \in SUBSET Ids
  /\ runs \in [Ids -> Nat]

(* The seeded jobs are stored without looking at maxJobs. *)
Init ==
  /\ store = [i \in Ids |-> IF i \in Seed THEN CreateJobRecord(0, 0) ELSE Absent]
  /\ older = {e \in Seed \X Seed : e[1] < e[2]}
  /\ now = 0
  /\ pc = [p \in Procs |-> "idle"]
  /\ at = [p \in Procs |-> NoId]
  /\ copy = [p \in Procs |-> Absent]
  /\ used = Seed
  /\ revived = {}
  /\ runs = [i \in Ids |-> 0]

-----------------------------------------------------------------------------
(* memoryJobStore.enqueue and update: Map.set, then the eviction.  An id    *)
(* that is already in the Map keeps its place.                             *)
Put(i, job) ==
  /\ store' = EvictOverflowJobs([store EXCEPT ![i] = job], MaxJobs)
  /\ older' = (older \cup (IF i \in Present(store) THEN {}
                           ELSE Present(store) \X {i}))
              \cap (Present(store') \X Present(store'))

(* findByIdempotencyKey: the first job of the Map that carries the key. *)
FindByIdempotencyKey(key) ==
  {i \in Present(store) :
     /\ KeyOf[i] = key
     /\ \A k \in Present(store) \ {i} : KeyOf[k] = key => <<i, k>> \in older}

Reach(p, where, i, job) ==
  /\ pc' = [pc EXCEPT ![p] = where]
  /\ at' = [at EXCEPT ![p] = i]
  /\ copy' = [copy EXCEPT ![p] = job]

Return(p) == Reach(p, "idle", NoId, Absent)

(* A random id is new; a caller may instead pass options.id. *)
TakeId(i) ==
  /\ i \notin used \/ ("reuse" \in Ops /\ runs[i] < MaxRuns)
  /\ used' = used \cup {i}
  /\ revived' = revived \cup ({i} \cap used)

-----------------------------------------------------------------------------
(* enqueue without an idempotency key never awaits before it stores. *)
EnqueueUnkeyed(p, i, delay) ==
  /\ pc[p] = "idle"
  /\ i \in Registry[p] /\ TakeId(i)
  /\ KeyOf[i] = NoKey
  /\ Put(i, CreateJobRecord(now, now + delay))
  /\ UNCHANGED <<now, pc, at, copy, runs>>

(* enqueue with a key: a live first match is returned instead of a new job. *)
EnqueueFind(p, i) ==
  /\ pc[p] = "idle"
  /\ i \in Registry[p] /\ TakeId(i)
  /\ KeyOf[i] # NoKey
  /\ \A k \in FindByIdempotencyKey(KeyOf[i]) : ~IsLive(store[k])
  /\ Reach(p, "enqueue", i, Absent)
  /\ UNCHANGED <<store, older, now, runs>>

EnqueueStore(p, delay) ==
  /\ pc[p] = "enqueue"
  /\ Put(at[p], CreateJobRecord(now, now + delay))
  /\ Return(p)
  /\ UNCHANGED <<now, used, revived, runs>>

CancelGet(p, i) ==
  /\ "cancel" \in Ops
  /\ pc[p] = "idle"
  /\ IsLive(store[i])
  /\ Reach(p, "cancel", i, store[i])
  /\ UNCHANGED <<store, older, now, used, revived, runs>>

CancelUpdate(p) ==
  /\ pc[p] = "cancel"
  /\ Put(at[p], Canceled(copy[p]))
  /\ Return(p)
  /\ UNCHANGED <<now, used, revived, runs>>

RetryGet(p, i) ==
  /\ "retry" \in Ops /\ runs[i] < MaxRuns
  /\ pc[p] = "idle"
  /\ IsRetryableJobStatus(store[i].status)
  /\ Reach(p, "retry", i, store[i])
  /\ revived' = revived \cup {i}
  /\ UNCHANGED <<store, older, now, used, runs>>

RetryUpdate(p) ==
  /\ pc[p] = "retry"
  /\ Put(at[p], Requeued(copy[p], now))
  /\ Return(p)
  /\ UNCHANGED <<now, used, revived, runs>>

(* JobStore.delete, called by the store's owner. *)
Delete(p, i) ==
  /\ "delete" \in Ops
  /\ pc[p] = "idle"
  /\ i \in Present(store)
  /\ store' = [store EXCEPT ![i] = Absent]
  /\ older' = {e \in older : i \notin {e[1], e[2]}}
  /\ UNCHANGED <<now, pc, at, copy, used, revived, runs>>

-----------------------------------------------------------------------------
(* processNext: claimNext marks the first ready job of the queue. *)
Claim(p) ==
  /\ pc[p] = "idle"
  /\ \E i \in NextToClaim(store, now) :
       /\ store' = [store EXCEPT ![i] = Claimed(@)]
       /\ Reach(p, "claimed", i, Claimed(store[i]))
  /\ UNCHANGED <<older, now, used, revived, runs>>

Mut_RejectUnknownWithoutUpdate(p) ==
  /\ pc[p] = "claimed"
  /\ at[p] \notin Registry[p]
  /\ Return(p)
  /\ UNCHANGED <<store, older, now, used, revived, runs>>

(* A claimed job whose name this queue does not define is dead at once. *)
RejectUnknown(p) ==
  /\ pc[p] = "claimed"
  /\ at[p] \notin Registry[p]
  /\ Put(at[p], Unknown(copy[p]))
  /\ Return(p)
  /\ UNCHANGED <<now, used, revived, runs>>

(* The attempt is counted and stored, and the handler starts. *)
StartHandler(p) ==
  /\ pc[p] = "claimed"
  /\ at[p] \in Registry[p]
  /\ Put(at[p], Running(copy[p]))
  /\ Reach(p, "running", at[p], Running(copy[p]))
  /\ runs' = [runs EXCEPT ![at[p]] = @ + 1]
  /\ UNCHANGED <<now, used, revived>>

HandlerSucceeds(p) ==
  /\ pc[p] = "running"
  /\ Put(at[p], Succeeded(copy[p]))
  /\ Return(p)
  /\ UNCHANGED <<now, used, revived, runs>>

(* The handler throws, or the signal was aborted before it was called. *)
HandlerFails(p) ==
  /\ pc[p] = "running"
  /\ Put(at[p], CreateFailedJobRecord(copy[p], now))
  /\ Return(p)
  /\ UNCHANGED <<now, used, revived, runs>>

Tick ==
  /\ now < MaxTime
  /\ now' = now + 1
  /\ UNCHANGED <<store, older, pc, at, copy, used, revived, runs>>

ClientStep(p) ==
  \/ \E i \in Ids, delay \in Delays : EnqueueUnkeyed(p, i, delay)
  \/ \E i \in Ids : EnqueueFind(p, i) \/ CancelGet(p, i) \/ RetryGet(p, i)
                    \/ Delete(p, i)
  \/ \E delay \in Delays : EnqueueStore(p, delay)
  \/ CancelUpdate(p)
  \/ RetryUpdate(p)

FinishHandler(p) == HandlerSucceeds(p) \/ HandlerFails(p)

WorkerStep(p) ==
  Claim(p) \/ RejectUnknown(p) \/ StartHandler(p) \/ FinishHandler(p)

Next ==
  \/ \E p \in Clients : ClientStep(p)
  \/ \E p \in Workers : WorkerStep(p)
  \/ Tick

Spec == Init /\ [][Next]_vars

(* A worker polls (setInterval) and the runtime resumes every awaiting call; *)
(* handlers are assumed to return.  Nothing makes a client call.            *)
Fairness ==
  /\ WF_vars(Tick)
  /\ \A p \in Workers :
       /\ WF_vars(Claim(p))
       /\ WF_vars(RejectUnknown(p) \/ StartHandler(p))
       /\ WF_vars(FinishHandler(p))

FairSpec == Spec /\ Fairness

-----------------------------------------------------------------------------
Holds(p, i) == at[p] = i /\ pc[p] \in {"claimed", "running"}

(* Jobs that were enqueued once and not brought back by a caller. *)
Once == Ids \ revived

(* Two calls of processNext never have the same job in hand, although each  *)
(* writes its stale copy back unconditionally and clients cancel and delete *)
(* in between.                                                             *)
HandlersExclusive ==
  \A p, q \in Workers : \A i \in Once : Holds(p, i) /\ Holds(q, i) => p = q

(* A job is attempted at most RetryOptions.attempts times, counting the      *)
(* handler calls and not what the record says.                             *)
RunsWithinBudget == \A i \in Once : runs[i] <= MaxAttempts

(* A record that says "running" has a processNext behind it that will still  *)
(* write its outcome: nothing is left running for ever, whatever cancel,     *)
(* retry, delete and the eviction do in between.                            *)
RunningHasOwner ==
  \A i \in Ids : store[i].status = "running" => \E p \in Workers : Holds(p, i)

(* A processed record that is written back after its job was evicted or      *)
(* deleted does not push the store over maxJobs.                            *)
CapacityRespected == Cardinality(Present(store)) <= MaxJobs

(* Outside an attempt the attempt count and the attempt history agree; during *)
(* one the count is ahead by one.                                           *)
AttemptsMatchHistory ==
  \A i \in Present(store) \cap Once :
    /\ store[i].attempts - store[i].hist \in {0, 1}
    /\ store[i].status \in {"queued", "succeeded"} => store[i].attempts = store[i].hist

(* The store's records agree with each other and with what was run, through  *)
(* every stale write-back: types, capacity, attempts, history and budget.   *)
StoreIsSound ==
  TypeOK /\ CapacityRespected /\ AttemptsMatchHistory /\ RunsWithinBudget

(* The eviction drops a live job only when no finished job is left to drop. *)
EvictionSparesLiveJobs ==
  [][\A i \in Ids :
       IsLive(store[i]) /\ store'[i] = Absent =>
         \/ \A k \in Ids : ~IsTerminalJobStatus(store'[k].status)
         \/ \E p \in Clients : Delete(p, i)]_vars

(* A recorded success is never turned back into work by a stale write; only  *)
(* a cancel that read the job before it finished overwrites it.             *)
SuccessNotUndone ==
  [][\A i \in Ids \ revived' :
       store[i].status = "succeeded"
         => store'[i].status \in {"succeeded", "canceled", "absent"}]_vars

(* Every job that waits is finished, evicted or deferred beyond the clock's  *)
(* bound, as long as workers poll and handlers return.                      *)
EveryJobSettles ==
  \A i \in Ids :
    store[i].status = "queued" ~> (~IsLive(store[i]) \/ store[i].runAt > MaxTime)

(* What the README says of enqueue with an idempotency key: repeating it     *)
(* gives the existing job back, so a key never has two jobs under way.      *)
OneLiveJobPerKey ==
  \A i, k \in Ids :
    IsLive(store[i]) /\ IsLive(store[k]) /\ KeyOf[i] = KeyOf[k] /\ KeyOf[i] # NoKey
      => i = k

-----------------------------------------------------------------------------
(* Seen from outside, a job goes through JobLifecycle. *)
PhaseOf(i) ==
  CASE store[i].status = "absent"    -> "new"
    [] store[i].status = "queued"    -> "waiting"
    [] store[i].status = "succeeded" -> "done"
    [] store[i].status = "dead"      -> "buried"
    [] store[i].status = "running"   ->
         IF \E p \in Workers : at[p] = i /\ pc[p] = "running" THEN "trying" ELSE "taken"
    [] OTHER                         -> "canceled"

Lifecycle ==
  INSTANCE JobLifecycle
    WITH Jobs <- Ids, MaxTries <- MaxAttempts,
         phase <- [i \in Ids |-> PhaseOf(i)], tries <- runs

(* The queue implements the lifecycle: callers only enqueue new jobs and      *)
(* nothing is evicted.                                                      *)
ImplementsLifecycle == Lifecycle!Spec
=============================================================================
