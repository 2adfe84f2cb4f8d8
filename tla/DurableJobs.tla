---------------------------- MODULE DurableJobs ----------------------------
(***************************************************************************)
(* createJobQueue over createPostgresJobStore                              *)
(* (packages/async/jobs/mod.ts and packages/async/jobs/postgres/store.ts): *)
(* several processes share one table, each statement is atomic in the      *)
(* database, a process can crash between two statements, a statement can   *)
(* fail, and its answer can be lost after it took effect.                  *)
(***************************************************************************)
EXTENDS JobRecords

CONSTANTS
  Producers,   \* processes that enqueue and cancel
  Workers,     \* processes that call processNext
  Known,       \* jobs whose name the workers' registry defines
  KeyOf,       \* KeyOf[i]: idempotency key job i is enqueued with
  NoKey,       \* no idempotency key
  NoId,        \* a process that holds no job
  Null,        \* SQL null
  LeaseMs,     \* defaultLeaseMs
  Faults,      \* which of "crash", "reject", "cancel" happen
  MaxTime      \* bound: nothing is enqueued after this time

Procs == Producers \cup Workers

(* Bound: nothing is claimed after this time, and no lease is extended after *)
(* the next.                                                                *)
LastLease == MaxTime + MaxBackoffMs

(* Bound: the clock runs on until every lease and every backoff is over. *)
Horizon == LastLease + LeaseMs + 2

ASSUME DurableAssumption ==
  /\ Producers \cap Workers = {}
  /\ Known \subseteq Ids
  /\ NoId \notin Ids
  /\ Null \notin Nat
  /\ LeaseMs \in Nat \ {0}
  /\ Faults \subseteq {"crash", "reject", "cancel"}
  /\ MaxTime \in Nat

VARIABLES
  rows,    \* the job table, without the lease columns
  lease,   \* lease_expires_at of each row
  now,     \* now() of the database
  pc,      \* the await each process stands at
  at,      \* the job each process works on
  copy,    \* the record each process read or built
  late,    \* history: jobs reclaimed while a live worker held them
  runs     \* history: how many attempts at each job were begun

vars == <<rows, lease, now, pc, at, copy, late, runs>>

PcValues == {"idle", "enqueue", "cancel", "claimed", "running", "failing",
             "aborting"}

TypeOK ==
  /\ rows \in [Ids -> Slot]
  /\ lease \in [Ids -> Nat \cup {Null}]
  /\ now \in Nat
  /\ pc \in [Procs -> PcValues]
  /\ at \in [Procs -> Ids \cup {NoId}]
  /\ copy \in [Procs -> Slot]
  /\ late \in SUBSET Ids
  /\ runs \in [Ids -> Nat]

Init ==
  /\ rows = [i \in Ids |-> Absent]
  /\ lease = [i \in Ids |-> Null]
  /\ now = 0
  /\ pc = [p \in Procs |-> "idle"]
  /\ at = [p \in Procs |-> NoId]
  /\ copy = [p \in Procs |-> Absent]
  /\ late = {}
  /\ runs = [i \in Ids |-> 0]

-----------------------------------------------------------------------------
Mut_UpsertKeepsLease(i, job) ==
  /\ rows' = [rows EXCEPT ![i] = job]
  /\ UNCHANGED lease

(* upsertSql, behind enqueue and update: every column is replaced and the   *)
(* lease is set to null, whatever the row's status.                        *)
Upsert(i, job) ==
  /\ rows' = [rows EXCEPT ![i] = job]
  /\ lease' = [lease EXCEPT ![i] = Null]

Reach(p, where, i, job) ==
  /\ pc' = [pc EXCEPT ![p] = where]
  /\ at' = [at EXCEPT ![p] = i]
  /\ copy' = [copy EXCEPT ![p] = job]

Return(p) == Reach(p, "idle", NoId, Absent)

Mut_NoUniqueIndex(i) == FALSE

(* The partial unique index on idempotency_key refuses a second row. *)
KeyConflict(i) ==
  /\ KeyOf[i] # NoKey
  /\ \E k \in Present(rows) \ {i} : KeyOf[k] = KeyOf[i]

-----------------------------------------------------------------------------
(* enqueue: an existing live row with the key is returned; otherwise a new  *)
(* record is built and inserted in a second statement.                     *)
EnqueueFind(p, i) ==
  /\ pc[p] = "idle" /\ now <= MaxTime
  /\ i \notin Present(rows)
  /\ \A q \in Procs : at[q] # i
  /\ runs[i] = 0
  /\ \A k \in Present(rows) :
       KeyOf[i] # NoKey /\ KeyOf[k] = KeyOf[i] => ~IsLive(rows[k])
  /\ Reach(p, "enqueue", i, CreateJobRecord(now, now))
  /\ UNCHANGED <<rows, lease, now, late, runs>>

EnqueueInsert(p) ==
  /\ pc[p] = "enqueue"
  /\ ~KeyConflict(at[p])
  /\ Upsert(at[p], copy[p])
  /\ Return(p)
  /\ UNCHANGED <<now, late, runs>>

(* A statement that fails: it did nothing, or it did its work and the answer *)
(* was lost.                                                               *)
Rejects(i, job) ==
  /\ "reject" \in Faults
  /\ Upsert(i, job) \/ UNCHANGED <<rows, lease>>

(* The insert violates the index, or fails otherwise: enqueue rejects. *)
EnqueueRejected(p) ==
  /\ pc[p] = "enqueue"
  /\ IF KeyConflict(at[p]) THEN UNCHANGED <<rows, lease>>
     ELSE Rejects(at[p], copy[p])
  /\ Return(p)
  /\ UNCHANGED <<now, late, runs>>

CancelGet(p, i) ==
  /\ "cancel" \in Faults
  /\ pc[p] = "idle"
  /\ IsLive(rows[i])
  /\ Reach(p, "cancel", i, rows[i])
  /\ UNCHANGED <<rows, lease, now, late, runs>>

CancelUpdate(p) ==
  /\ pc[p] = "cancel"
  /\ Upsert(at[p], Canceled(copy[p])) \/ Rejects(at[p], Canceled(copy[p]))
  /\ Return(p)
  /\ UNCHANGED <<now, late, runs>>

-----------------------------------------------------------------------------
(* claimSql: the first due row by priority and run_at; ties are the         *)
(* database's choice.                                                      *)
Claimable ==
  {i \in Ready(rows, now) :
     \A k \in Ready(rows, now) :
       \/ Prio[i] > Prio[k]
       \/ Prio[i] = Prio[k] /\ rows[i].runAt <= rows[k].runAt}

Claim(p) ==
  /\ pc[p] = "idle" /\ now <= LastLease
  /\ \E i \in Claimable :
       /\ rows' = [rows EXCEPT ![i] = Claimed(@)]
       /\ lease' = [lease EXCEPT ![i] = now + LeaseMs]
       /\ \/ Reach(p, "claimed", i, Claimed(rows[i]))
          \/ "reject" \in Faults /\ UNCHANGED <<pc, at, copy>>  \* answer lost
  /\ UNCHANGED <<now, late, runs>>

(* The job's name is unknown here: stored as dead. *)
RejectUnknown(p) ==
  /\ pc[p] = "claimed"
  /\ at[p] \notin Known
  /\ Upsert(at[p], Unknown(copy[p]))
  /\ Return(p)
  /\ UNCHANGED <<now, late, runs>>

(* The attempt is counted and stored, and the handler starts. *)
StartHandler(p) ==
  /\ pc[p] = "claimed"
  /\ at[p] \in Known
  /\ Upsert(at[p], Running(copy[p]))
  /\ Reach(p, "running", at[p], Running(copy[p]))
  /\ runs' = [runs EXCEPT ![at[p]] = @ + 1]
  /\ UNCHANGED <<now, late>>

(* store.update(running) or update(dead) rejects outside the try block:     *)
(* processNext rejects and the handler is not called.                      *)
ClaimedUpdateRejects(p) ==
  /\ pc[p] = "claimed"
  /\ Rejects(at[p], IF at[p] \in Known THEN Running(copy[p]) ELSE Unknown(copy[p]))
  /\ Return(p)
  /\ UNCHANGED <<now, late, runs>>

HandlerSucceeds(p) ==
  /\ pc[p] = "running"
  /\ Upsert(at[p], Succeeded(copy[p]))
  /\ Return(p)
  /\ UNCHANGED <<now, late, runs>>

(* The update that records the success rejects, with or without effect: the  *)
(* catch block takes it for a failure of the handler.                      *)
SuccessRejected(p) ==
  /\ pc[p] = "running"
  /\ Rejects(at[p], Succeeded(copy[p]))
  /\ pc' = [pc EXCEPT ![p] = "failing"]
  /\ UNCHANGED <<now, at, copy, late, runs>>

(* heartbeat extends the lease of a running row that has an unexpired one;  *)
(* the row's holder is not compared.                                       *)
LeaseHeld(i) == rows[i].status = "running" /\ lease[i] # Null /\ lease[i] > now

Heartbeat(p) ==
  /\ pc[p] = "running" /\ now <= LastLease + 1
  /\ LeaseHeld(at[p])
  /\ lease' = [lease EXCEPT ![at[p]] = now + LeaseMs]
  /\ UNCHANGED <<rows, now, pc, at, copy, late, runs>>

(* heartbeat resolved false: the handler aborts, as the docs tell it to. *)
HeartbeatRefused(p) ==
  /\ pc[p] = "running"
  /\ ~LeaseHeld(at[p])
  /\ pc' = [pc EXCEPT ![p] = "aborting"]
  /\ UNCHANGED <<rows, lease, now, at, copy, late, runs>>

HandlerThrows(p) ==
  /\ pc[p] = "running"
  /\ pc' = [pc EXCEPT ![p] = "failing"]
  /\ UNCHANGED <<rows, lease, now, at, copy, late, runs>>

(* The catch block stores the failed record, or rejects as well. *)
StoreFailure(p) ==
  /\ pc[p] \in {"failing", "aborting"}
  /\ LET failed == CreateFailedJobRecord(copy[p], now)
     IN  Upsert(at[p], failed) \/ Rejects(at[p], failed)
  /\ Return(p)
  /\ UNCHANGED <<now, late, runs>>

-----------------------------------------------------------------------------
Mut_ExpiredWithoutLease(i) ==
  rows[i].status = "running" /\ (lease[i] = Null \/ lease[i] < now)

Expired(i) == rows[i].status = "running" /\ lease[i] # Null /\ lease[i] < now

Mut_ReclaimKeepsLease ==
  /\ \E i \in Ids : Expired(i)
  /\ rows' = [i \in Ids |-> IF Expired(i) THEN [rows[i] EXCEPT !.status = "queued"]
                            ELSE rows[i]]
  /\ late' = late \cup {i \in Ids : Expired(i) /\ \E p \in Workers : at[p] = i}
  /\ UNCHANGED <<lease, now, pc, at, copy, runs>>

(* reclaimExpired, called by any process: every expired row is queued.  The  *)
(* attempt count stays.                                                    *)
ReclaimExpired ==
  /\ \E i \in Ids : Expired(i)
  /\ rows' = [i \in Ids |-> IF Expired(i) THEN [rows[i] EXCEPT !.status = "queued"]
                            ELSE rows[i]]
  /\ lease' = [i \in Ids |-> IF Expired(i) THEN Null ELSE lease[i]]
  /\ late' = late \cup {i \in Ids : Expired(i) /\ \E p \in Workers : at[p] = i}
  /\ UNCHANGED <<now, pc, at, copy, runs>>

(* A process dies between two statements; the one that is started in its      *)
(* place has nothing in hand.                                               *)
Crash(p) ==
  /\ "crash" \in Faults
  /\ pc[p] # "idle"
  /\ Return(p)
  /\ UNCHANGED <<rows, lease, now, late, runs>>

Tick ==
  /\ now < Horizon
  /\ now' = now + 1
  /\ UNCHANGED <<rows, lease, pc, at, copy, late, runs>>

ProducerStep(p) ==
  \/ \E i \in Ids : EnqueueFind(p, i) \/ CancelGet(p, i)
  \/ EnqueueInsert(p) \/ EnqueueRejected(p) \/ CancelUpdate(p)

HandlerStep(p) ==
  \/ HandlerSucceeds(p) \/ SuccessRejected(p) \/ HandlerThrows(p)
  \/ Heartbeat(p) \/ HeartbeatRefused(p)

WorkerStep(p) ==
  \/ Claim(p)
  \/ RejectUnknown(p) \/ StartHandler(p) \/ ClaimedUpdateRejects(p)
  \/ HandlerStep(p)
  \/ StoreFailure(p)

Next ==
  \/ \E p \in Producers : ProducerStep(p)
  \/ \E p \in Workers : WorkerStep(p)
  \/ \E p \in Procs : Crash(p)
  \/ ReclaimExpired
  \/ Tick

Spec == Init /\ [][Next]_vars

(* Workers poll, live processes go on, handlers return and somebody sweeps   *)
(* with reclaimExpired.                                                     *)
Fairness ==
  /\ WF_vars(Tick) /\ WF_vars(ReclaimExpired)
  /\ \A p \in Workers :
       /\ WF_vars(Claim(p))
       /\ WF_vars(RejectUnknown(p) \/ StartHandler(p))
       /\ WF_vars(HandlerSucceeds(p) \/ HandlerThrows(p))
       /\ WF_vars(StoreFailure(p))

FairSpec == Spec /\ Fairness

-----------------------------------------------------------------------------
(* Where a worker stands once its handler was started. *)
Started == {"running", "failing", "aborting"}

Holds(p, i) == at[p] = i /\ pc[p] \in {"claimed"} \cup Started

LeasesAreUncounted ==
  \A i \in Ids :
    lease[i] # Null =>
      rows[i].status = "running" /\ rows[i].attempts = rows[i].hist

StartedHaveNoLease ==
  \A p \in Workers :
    pc[p] \in Started /\ at[p] \notin late => lease[at[p]] = Null

(* A lease is there only between a claim and the update that starts the      *)
(* handler: the attempt is not counted yet, so a reclaimed job loses nothing *)
(* of its budget, no started handler is ever reclaimed from, and unless its  *)
(* job was reclaimed before it started no handler's heartbeat extends a lease: *)
(* the one it would extend is another worker's.                             *)
LeaseMeansNotStarted == LeasesAreUncounted /\ StartedHaveNoLease

(* Unless a job was reclaimed from a live worker that had not yet stored      *)
(* "running", no two workers have it in hand, through crashes, lost answers,  *)
(* failed statements, reclaims and cancels.                                  *)
HandlersExclusive ==
  \A p, q \in Workers : \A i \in Ids \ late : Holds(p, i) /\ Holds(q, i) => p = q

(* Under the same proviso a job is attempted at most maxAttempts times.       *)
RunsWithinBudget == \A i \in Ids \ late : runs[i] <= MaxAttempts

(* Two producers that race between find and insert, or come back with a key    *)
(* whose job has finished, never give a key a second row.                     *)
OneRowPerKey ==
  \A i, k \in Present(rows) : KeyOf[i] = KeyOf[k] /\ KeyOf[i] # NoKey => i = k

(* The table's rows agree with each other and with what was run: types, one   *)
(* row per key and the budget, through crashes, lost answers and reclaims.    *)
StoreIsSound == TypeOK /\ OneRowPerKey /\ RunsWithinBudget

(* What a job is to a caller: where a worker has it in hand, else its row.     *)
RecoveryPhase(i) ==
  IF i \in late THEN "disputed"
  ELSE IF \E p \in Workers : at[p] = i /\ pc[p] = "claimed" THEN "taken"
  ELSE IF \E p \in Workers : at[p] = i /\ pc[p] \in Started THEN "trying"
  ELSE CASE rows[i].status = "absent"    -> "new"
         [] rows[i].status = "queued"    -> "waiting"
         [] rows[i].status = "succeeded" -> "done"
         [] rows[i].status = "dead"      -> "buried"
         [] rows[i].status = "running"   -> IF lease[i] = Null THEN "lost" ELSE "taken"
         [] OTHER                        -> "canceled"

Recovery ==
  INSTANCE JobRecovery
    WITH Jobs <- Ids, MaxTries <- MaxAttempts,
         phase <- [i \in Ids |-> RecoveryPhase(i)], tries <- runs

(* Whatever crashes, fails or is canceled, a job goes through JobRecovery: it   *)
(* is given to a second worker only from an unstarted claim that ran out, a    *)
(* result is undone by nothing but a cancel, a lost job is never run again,    *)
(* and no job is tried more often than its options allow.                     *)
ImplementsRecovery == Recovery!RecoverySpec

(* A claim that was never started comes free again once its lease is over,     *)
(* whether its worker crashed, lost the answer or failed to store "running".  *)
UnstartedClaimsComeFree == \A i \in Ids : lease[i] # Null ~> lease[i] = Null

(* What the README says of reclaimExpired: the jobs of crashed workers are     *)
(* recovered, so no job stays "running" for good.                             *)
CrashedJobsRecovered ==
  \A i \in Ids : rows[i].status = "running" ~> rows[i].status # "running"
=============================================================================
