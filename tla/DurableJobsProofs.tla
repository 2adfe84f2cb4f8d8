------------------------- MODULE DurableJobsProofs -------------------------
(***************************************************************************)
(* Theorems about DurableJobs, for every set of ids and processes, every    *)
(* registry, every lease, every retry policy and every mix of faults.       *)
(***************************************************************************)
EXTENDS DurableJobs, TLAPS

-----------------------------------------------------------------------------
(* The pure functions keep records records. *)

LEMMA BackoffIsNat == ASSUME NEW n \in Nat PROVE CalculateBackoffMs(n) \in Nat
<1> DEFINE v == CASE Strategy = "fixed"       -> BackoffMs
                  [] Strategy = "linear"      -> BackoffMs * n
                  [] Strategy = "exponential" -> BackoffMs * 2 ^ (n - 1)
<1>1. v \in Int
  <2>1. CASE Strategy = "fixed"
    BY <2>1, RetryAssumption
  <2>2. CASE Strategy = "linear"
    BY <2>2, RetryAssumption
  <2>3. CASE Strategy = "exponential"
    <3>1. 2 ^ (n - 1) \in Int
      OBVIOUS
    <3>. QED
      BY <2>3, <3>1, RetryAssumption
  <2>. QED
    BY <2>1, <2>2, <2>3, RetryAssumption
<1>. HIDE DEF v
<1>2. AtLeastZero(IF v <= MaxBackoffMs THEN v ELSE MaxBackoffMs) \in Nat
  BY <1>1, RetryAssumption DEF AtLeastZero
<1>. QED
  BY <1>2 DEF CalculateBackoffMs, v

LEMMA AbsentIsSlot == Absent \in Slot
BY DEF Absent, Slot

LEMMA RecordsStaySlots ==
  ASSUME NEW job \in Slot, NEW t \in Nat, NEW r \in Nat
  PROVE  /\ CreateJobRecord(t, r) \in Slot
         /\ Claimed(job) \in Slot
         /\ Running(job) \in Slot
         /\ Succeeded(job) \in Slot
         /\ CreateFailedJobRecord(job, t) \in Slot
         /\ Unknown(job) \in Slot
         /\ Canceled(job) \in Slot
         /\ Requeued(job, t) \in Slot
<1>0. job.attempts \in Nat /\ job.attempts + 1 \in Nat /\ job.hist + 1 \in Nat
  BY DEF Slot
<1>1. CreateFailedJobRecord(job, t) \in Slot
  <2>1. t + CalculateBackoffMs(job.attempts) \in Nat
    BY <1>0, BackoffIsNat
  <2> DEFINE b == t + CalculateBackoffMs(job.attempts)
             h == job.hist + 1
  <2>2. b \in Nat /\ h \in Nat
    BY <1>0, <2>1
  <2>. HIDE DEF b, h
  <2>3. [job EXCEPT !.status = "queued", !.hist = h, !.runAt = b] \in Slot
    BY <2>2 DEF Slot, Statuses
  <2>4. [job EXCEPT !.status = "dead", !.hist = h] \in Slot
    BY <2>2 DEF Slot, Statuses
  <2>. QED
    BY <2>3, <2>4 DEF CreateFailedJobRecord, b, h
<1>2. CreateJobRecord(t, r) \in Slot
  BY DEF CreateJobRecord, Slot, Statuses
<1>3. Running(job) \in Slot /\ Succeeded(job) \in Slot
  BY <1>0 DEF Running, Succeeded, Slot, Statuses
<1>4. Claimed(job) \in Slot /\ Unknown(job) \in Slot /\ Canceled(job) \in Slot
  BY DEF Claimed, Unknown, Canceled, Slot, Statuses
<1>5. Requeued(job, t) \in Slot
  BY DEF Requeued, Slot, Statuses
<1>. QED
  BY <1>1, <1>2, <1>3, <1>4, <1>5

-----------------------------------------------------------------------------
(* The inductive invariant.                                                  *)
Held == {"claimed", "running", "failing", "aborting"}

(* Every process that stands at an await has a job in hand. *)
Shape ==
  /\ \A p \in Procs : pc[p] = "idle" <=> at[p] = NoId
  /\ \A p \in Producers : pc[p] \in {"idle", "enqueue", "cancel"}
  /\ \A p \in Workers : pc[p] \in Held \cup {"idle"}

Typed == TypeOK /\ Shape

QueuedRowsAgree ==
  \A i \in Ids : rows[i].status = "queued" => rows[i].attempts = rows[i].hist

RowsCountRuns ==
  \A i \in Ids \ late :
    /\ runs[i] <= MaxAttempts
    /\ rows[i].status = "queued" \/ lease[i] # Null =>
         rows[i].attempts = runs[i] /\ runs[i] < MaxAttempts

PendingUntouched ==
  \A p \in Producers :
    pc[p] = "enqueue" =>
      /\ rows[at[p]].status = "absent" /\ runs[at[p]] = 0
      /\ copy[p].status = "queued" /\ copy[p].attempts = 0 /\ copy[p].hist = 0
      /\ \A q \in Procs \ {p} : at[q] # at[p]

OthersPresent ==
  \A p \in Procs : pc[p] \notin {"idle", "enqueue"} => rows[at[p]].status # "absent"

CopiesAgree ==
  \A p \in Workers :
    /\ pc[p] = "claimed" => copy[p].attempts = copy[p].hist
    /\ pc[p] \in Held \ {"claimed"} => copy[p].attempts = copy[p].hist + 1

HeldCountsRuns ==
  \A p \in Workers :
    pc[p] # "idle" /\ at[p] \notin late =>
      /\ rows[at[p]].status # "queued"
      /\ copy[p].attempts = runs[at[p]]
      /\ pc[p] = "claimed" => runs[at[p]] < MaxAttempts
      /\ \A q \in Workers \ {p} : at[q] # at[p]

DurableInv ==
  /\ Typed
  /\ OneRowPerKey
  /\ LeasesAreUncounted
  /\ QueuedRowsAgree
  /\ RowsCountRuns
  /\ PendingUntouched
  /\ OthersPresent
  /\ CopiesAgree
  /\ HeldCountsRuns

LEMMA ProcsSplit == /\ Producers \subseteq Procs /\ Workers \subseteq Procs
                    /\ Producers \cap Workers = {} /\ Procs = Producers \cup Workers
BY DurableAssumption DEF Procs

(* What the invariant says of one process, in the types the provers need.    *)
LEMMA TypesOf ==
  ASSUME Typed
  PROVE  /\ rows \in [Ids -> Slot] /\ lease \in [Ids -> Nat \cup {Null}]
         /\ now \in Nat /\ now + LeaseMs \in Nat /\ late \subseteq Ids
         /\ pc \in [Procs -> PcValues] /\ at \in [Procs -> Ids \cup {NoId}]
         /\ copy \in [Procs -> Slot] /\ runs \in [Ids -> Nat]
         /\ \A i \in Ids : rows[i] \in Slot
         /\ \A p \in Procs : /\ copy[p] \in Slot
                             /\ at[p] = NoId <=> pc[p] = "idle"
                             /\ pc[p] # "idle" => at[p] \in Ids
BY DurableAssumption DEF Typed, TypeOK, Shape

LEMMA InitDurable == Init => DurableInv
<1>. SUFFICES ASSUME Init PROVE DurableInv
  OBVIOUS
<1>. USE DurableAssumption, RetryAssumption, ProcsSplit, AbsentIsSlot
<1>1. Typed
  BY DEF Init, Typed, TypeOK, Shape, PcValues
<1>2. OneRowPerKey /\ LeasesAreUncounted /\ QueuedRowsAgree /\ RowsCountRuns
  BY DEF Init, OneRowPerKey, LeasesAreUncounted, QueuedRowsAgree, RowsCountRuns,
         Absent, Present
<1>3. PendingUntouched /\ OthersPresent /\ CopiesAgree /\ HeldCountsRuns
  <2>1. \A p \in Procs : pc[p] = "idle"
    BY DEF Init
  <2>. QED
    BY <2>1 DEF PendingUntouched, OthersPresent, CopiesAgree, HeldCountsRuns, Held
<1>. QED
  BY <1>1, <1>2, <1>3 DEF DurableInv

(* A process's last statement about the job in hand: an upsert that took      *)
(* effect, or one that did not.  A record that goes back to "queued" must     *)
(* count the attempts that were begun and have no second owner.              *)
LEMMA ReturnKeeps ==
  ASSUME DurableInv, NEW p \in Procs, pc[p] # "idle", Return(p),
         UNCHANGED <<now, late, runs>>, NEW job \in Slot, job.status # "absent",
         Upsert(at[p], job) \/ UNCHANGED <<rows, lease>>,
         job.status = "queued" =>
           /\ job.attempts = job.hist
           /\ at[p] \notin late =>
                /\ job.attempts = runs[at[p]] /\ runs[at[p]] < MaxAttempts
                /\ \A q \in Workers \ {p} : at[q] # at[p],
         pc[p] = "enqueue" /\ KeyConflict(at[p]) => UNCHANGED <<rows, lease>>
  PROVE  DurableInv'
<1>. USE ProcsSplit, DurableAssumption
<1>0. Typed
  BY DEF DurableInv
<1>. USE <1>0, TypesOf
<1> DEFINE i == at[p]
<1>1. i \in Ids
  OBVIOUS
<1>2. /\ pc'[p] = "idle" /\ at'[p] = NoId
      /\ pc' \in [Procs -> PcValues] /\ at' \in [Procs -> Ids \cup {NoId}]
      /\ copy' \in [Procs -> Slot]
      /\ \A q \in Procs \ {p} : pc'[q] = pc[q] /\ at'[q] = at[q] /\ copy'[q] = copy[q]
  BY AbsentIsSlot DEF Return, Reach, PcValues
<1>3. /\ rows' \in [Ids -> Slot] /\ lease' \in [Ids -> Nat \cup {Null}]
      /\ \/ rows'[i] = rows[i] /\ lease'[i] = lease[i]
         \/ rows'[i] = job /\ lease'[i] = Null
      /\ \A k \in Ids \ {i} : rows'[k] = rows[k] /\ lease'[k] = lease[k]
  BY DEF Upsert
<1>4. Typed'
  BY <1>2, <1>3 DEF Typed, TypeOK, Shape
<1>5. OneRowPerKey'
  <2>1. CASE pc[p] = "enqueue" /\ ~KeyConflict(i)
    BY <1>3, <2>1 DEF DurableInv, OneRowPerKey, KeyConflict, Present
  <2>2. CASE rows' = rows
    BY <2>2 DEF DurableInv, OneRowPerKey, Present
  <2>3. CASE pc[p] # "enqueue"
    <3>1. rows[i].status # "absent"
      BY <2>3 DEF DurableInv, OthersPresent
    <3>2. Present(rows)' = Present(rows)
      BY <1>3, <3>1 DEF Present
    <3>. QED
      BY <3>2 DEF DurableInv, OneRowPerKey
  <2>. QED
    BY <2>1, <2>2, <2>3
<1>. HIDE DEF i
<1>6. LeasesAreUncounted'
  BY <1>3 DEF DurableInv, LeasesAreUncounted
<1>7. QueuedRowsAgree'
  BY <1>3 DEF DurableInv, QueuedRowsAgree, i
<1>8. RowsCountRuns'
  <2>. SUFFICES ASSUME NEW k \in Ids, k \notin late
                PROVE  /\ runs[k] <= MaxAttempts
                       /\ rows'[k].status = "queued" \/ lease'[k] # Null =>
                            rows'[k].attempts = runs[k] /\ runs[k] < MaxAttempts
    BY DEF RowsCountRuns
  <2>1. CASE rows'[k] = rows[k] /\ lease'[k] = lease[k]
    BY <2>1 DEF DurableInv, RowsCountRuns
  <2>2. CASE k = i /\ rows'[k] = job /\ lease'[k] = Null
    BY <2>2 DEF DurableInv, RowsCountRuns, i
  <2>. QED
    BY <1>3, <2>1, <2>2
<1>9. PendingUntouched'
  <2>. SUFFICES ASSUME NEW c \in Producers, pc'[c] = "enqueue"
                PROVE  /\ rows'[at'[c]].status = "absent" /\ runs[at'[c]] = 0
                       /\ copy'[c].status = "queued"
                       /\ copy'[c].attempts = 0 /\ copy'[c].hist = 0
                       /\ \A q \in Procs \ {c} : at'[q] # at'[c]
    BY DEF PendingUntouched
  <2>1. c # p /\ pc[c] = "enqueue" /\ at'[c] = at[c] /\ copy'[c] = copy[c]
    BY <1>2
  <2>2. /\ rows[at[c]].status = "absent" /\ runs[at[c]] = 0
        /\ copy[c].status = "queued" /\ copy[c].attempts = 0 /\ copy[c].hist = 0
        /\ \A q \in Procs \ {c} : at[q] # at[c]
    BY <2>1 DEF DurableInv, PendingUntouched
  <2>3. at[c] # i /\ at[c] \in Ids
    BY <2>1, <2>2 DEF i
  <2>4. rows'[at[c]] = rows[at[c]]
    BY <1>3, <2>3
  <2>. QED
    BY <1>2, <2>1, <2>2, <2>3, <2>4
<1>10. OthersPresent'
  BY <1>2, <1>3 DEF DurableInv, OthersPresent
<1>11. CopiesAgree'
  BY <1>2 DEF DurableInv, CopiesAgree, Held
<1>12. HeldCountsRuns'
  <2>. SUFFICES ASSUME NEW q \in Workers, pc'[q] # "idle", at'[q] \notin late
                PROVE  /\ rows'[at'[q]].status # "queued"
                       /\ copy'[q].attempts = runs[at'[q]]
                       /\ pc'[q] = "claimed" => runs[at'[q]] < MaxAttempts
                       /\ \A w \in Workers \ {q} : at'[w] # at'[q]
    BY DEF HeldCountsRuns
  <2>1. q # p /\ pc[q] = pc'[q] /\ at'[q] = at[q] /\ copy'[q] = copy[q] /\ at[q] \in Ids
    BY <1>2
  <2>2. /\ rows[at[q]].status # "queued" /\ copy[q].attempts = runs[at[q]]
        /\ pc[q] = "claimed" => runs[at[q]] < MaxAttempts
        /\ \A w \in Workers \ {q} : at[w] # at[q]
    BY <2>1 DEF DurableInv, HeldCountsRuns
  <2>3. rows'[at[q]].status # "queued"
    <3>1. CASE at[q] = i
      BY <1>3, <2>1, <2>2, <3>1 DEF i
    <3>2. CASE at[q] # i
      BY <1>3, <2>1, <2>2, <3>2
    <3>. QED
      BY <3>1, <3>2
  <2>4. \A w \in Workers \ {q} : at'[w] # at[q]
    BY <1>2, <2>1, <2>2
  <2>. QED
    BY <2>1, <2>2, <2>3, <2>4
<1>. QED
  BY <1>4, <1>5, <1>6, <1>7, <1>8, <1>9, <1>10, <1>11, <1>12 DEF DurableInv

(* The records a process in hand of a job may write back.                    *)
LEMMA Outcomes ==
  ASSUME NEW job \in Slot, NEW t \in Nat
  PROVE  /\ Canceled(job) \in Slot /\ Canceled(job).status = "canceled"
         /\ Unknown(job) \in Slot /\ Unknown(job).status = "dead"
         /\ Succeeded(job) \in Slot /\ Succeeded(job).status = "succeeded"
         /\ Running(job) \in Slot /\ Running(job).status = "running"
         /\ Running(job).attempts = job.attempts + 1 /\ Running(job).hist = job.hist
         /\ Claimed(job) \in Slot /\ Claimed(job).status = "running"
         /\ Claimed(job).attempts = job.attempts /\ Claimed(job).hist = job.hist
         /\ job.attempts \in Nat /\ job.hist \in Nat
BY RecordsStaySlots
DEF Canceled, Unknown, Succeeded, Running, Claimed, Slot

LEMMA ProducerDurable ==
  ASSUME DurableInv, NEW p \in Producers, ProducerStep(p)
  PROVE  DurableInv'
<1>. USE ProcsSplit
<1>0. Typed
  BY DEF DurableInv
<1>. USE <1>0, TypesOf
<1>1. ASSUME NEW i \in Ids, EnqueueFind(p, i) PROVE DurableInv'
  <2>1. /\ rows[i].status = "absent" /\ runs[i] = 0 /\ \A q \in Procs : at[q] # i
        /\ pc[p] = "idle" /\ UNCHANGED <<rows, lease, now, late, runs>>
    BY <1>1 DEF EnqueueFind, Present
  <2> DEFINE job == CreateJobRecord(now, now)
  <2>2. /\ job \in Slot /\ job.status = "queued" /\ job.attempts = 0 /\ job.hist = 0
    BY RecordsStaySlots, AbsentIsSlot DEF CreateJobRecord
  <2>3. Reach(p, "enqueue", i, job)
    BY <1>1 DEF EnqueueFind
  <2>. HIDE DEF job
  <2>4. /\ pc'[p] = "enqueue" /\ at'[p] = i /\ copy'[p] = job
        /\ pc' \in [Procs -> PcValues] /\ at' \in [Procs -> Ids \cup {NoId}]
        /\ copy' \in [Procs -> Slot]
        /\ \A q \in Procs \ {p} : pc'[q] = pc[q] /\ at'[q] = at[q] /\ copy'[q] = copy[q]
    BY <2>2, <2>3 DEF Reach, PcValues
  <2>5. Typed'
    BY <2>1, <2>4, DurableAssumption DEF Typed, TypeOK, Shape
  <2>6. OneRowPerKey' /\ LeasesAreUncounted' /\ QueuedRowsAgree' /\ RowsCountRuns'
    BY <2>1 DEF DurableInv, OneRowPerKey, LeasesAreUncounted, QueuedRowsAgree,
                RowsCountRuns, Present
  <2>7. PendingUntouched'
    BY <2>1, <2>2, <2>4 DEF DurableInv, PendingUntouched
  <2>8. OthersPresent' /\ CopiesAgree' /\ HeldCountsRuns'
    BY <2>1, <2>4 DEF DurableInv, OthersPresent, CopiesAgree, HeldCountsRuns, Held
  <2>. QED
    BY <2>5, <2>6, <2>7, <2>8 DEF DurableInv
<1>2. ASSUME NEW i \in Ids, CancelGet(p, i) PROVE DurableInv'
  <2>1. /\ rows[i].status # "absent" /\ pc[p] = "idle"
        /\ UNCHANGED <<rows, lease, now, late, runs>>
    BY <1>2 DEF CancelGet, IsLive
  <2>2. /\ pc'[p] = "cancel" /\ at'[p] = i
        /\ pc' \in [Procs -> PcValues] /\ at' \in [Procs -> Ids \cup {NoId}]
        /\ copy' \in [Procs -> Slot]
        /\ \A q \in Procs \ {p} : pc'[q] = pc[q] /\ at'[q] = at[q] /\ copy'[q] = copy[q]
    BY <1>2 DEF CancelGet, Reach, PcValues
  <2>3. Typed'
    BY <2>1, <2>2, DurableAssumption DEF Typed, TypeOK, Shape
  <2>4. OneRowPerKey' /\ LeasesAreUncounted' /\ QueuedRowsAgree' /\ RowsCountRuns'
    BY <2>1 DEF DurableInv, OneRowPerKey, LeasesAreUncounted, QueuedRowsAgree,
                RowsCountRuns, Present
  <2>5. PendingUntouched'
    <3>. SUFFICES ASSUME NEW c \in Producers, pc'[c] = "enqueue"
                  PROVE  /\ rows[at'[c]].status = "absent" /\ runs[at'[c]] = 0
                         /\ copy'[c].status = "queued"
                         /\ copy'[c].attempts = 0 /\ copy'[c].hist = 0
                         /\ \A q \in Procs \ {c} : at'[q] # at'[c]
      BY <2>1 DEF PendingUntouched
    <3>1. c # p /\ pc[c] = "enqueue" /\ at'[c] = at[c] /\ copy'[c] = copy[c]
      BY <2>2
    <3>2. /\ rows[at[c]].status = "absent" /\ runs[at[c]] = 0
          /\ copy[c].status = "queued" /\ copy[c].attempts = 0 /\ copy[c].hist = 0
          /\ \A q \in Procs \ {c} : at[q] # at[c]
      BY <3>1 DEF DurableInv, PendingUntouched
    <3>. QED
      BY <2>1, <2>2, <3>1, <3>2
  <2>6. OthersPresent' /\ CopiesAgree' /\ HeldCountsRuns'
    BY <2>1, <2>2 DEF DurableInv, OthersPresent, CopiesAgree, HeldCountsRuns, Held
  <2>. QED
    BY <2>3, <2>4, <2>5, <2>6 DEF DurableInv
<1>3. CASE EnqueueInsert(p) \/ EnqueueRejected(p)
  <2>1. /\ pc[p] = "enqueue" /\ Return(p) /\ UNCHANGED <<now, late, runs>>
        /\ Upsert(at[p], copy[p]) \/ UNCHANGED <<rows, lease>>
        /\ KeyConflict(at[p]) => UNCHANGED <<rows, lease>>
    BY <1>3 DEF EnqueueInsert, EnqueueRejected, Rejects
  <2>2. /\ copy[p] \in Slot /\ copy[p].status = "queued" /\ copy[p].attempts = 0
        /\ copy[p].hist = 0 /\ runs[at[p]] = 0 /\ \A q \in Workers \ {p} : at[q] # at[p]
    BY <2>1 DEF DurableInv, PendingUntouched
  <2>3. 0 < MaxAttempts
    BY RetryAssumption
  <2>. QED
    BY <2>1, <2>2, <2>3, ReturnKeeps
<1>4. CASE CancelUpdate(p)
  <2>1. /\ pc[p] = "cancel" /\ Return(p) /\ UNCHANGED <<now, late, runs>>
        /\ Upsert(at[p], Canceled(copy[p])) \/ UNCHANGED <<rows, lease>>
    BY <1>4 DEF CancelUpdate, Rejects
  <2>2. Canceled(copy[p]) \in Slot /\ Canceled(copy[p]).status = "canceled"
    BY Outcomes
  <2>. QED
    BY <2>1, <2>2, ReturnKeeps
<1>. QED
  BY <1>1, <1>2, <1>3, <1>4 DEF ProducerStep

LEMMA ClaimDurable ==
  ASSUME DurableInv, NEW p \in Workers, Claim(p)
  PROVE  DurableInv'
<1>. USE ProcsSplit, DurableAssumption
<1>0. Typed
  BY DEF DurableInv
<1>. USE <1>0, TypesOf
<1>1. PICK i \in Ids :
        /\ rows[i].status = "queued"
        /\ rows' = [rows EXCEPT ![i] = Claimed(@)]
        /\ lease' = [lease EXCEPT ![i] = now + LeaseMs]
        /\ Reach(p, "claimed", i, Claimed(rows[i])) \/ UNCHANGED <<pc, at, copy>>
  BY DEF Claim, Claimable, Ready, IsJobReady
<1>2. pc[p] = "idle" /\ UNCHANGED <<now, late, runs>>
  BY DEF Claim
<1> DEFINE job == Claimed(rows[i])
<1>3. /\ job \in Slot /\ job.status = "running" /\ job.attempts = rows[i].attempts
      /\ job.hist = rows[i].hist
  BY Outcomes
<1>4. /\ rows' \in [Ids -> Slot] /\ lease' \in [Ids -> Nat \cup {Null}]
      /\ rows'[i] = job /\ lease'[i] = now + LeaseMs
      /\ \A k \in Ids \ {i} : rows'[k] = rows[k] /\ lease'[k] = lease[k]
  BY <1>1, <1>3
<1>5. rows[i].attempts = rows[i].hist
      /\ (i \notin late => rows[i].attempts = runs[i] /\ runs[i] < MaxAttempts)
  BY <1>1 DEF DurableInv, QueuedRowsAgree, RowsCountRuns
<1>6. i \notin late => \A q \in Workers : at[q] # i
  <2>. SUFFICES ASSUME i \notin late, NEW q \in Workers, at[q] = i PROVE FALSE
    OBVIOUS
  <2>1. pc[q] # "idle"
    OBVIOUS
  <2>. QED
    BY <1>1, <2>1 DEF DurableInv, HeldCountsRuns
<1>7. /\ pc' \in [Procs -> PcValues] /\ at' \in [Procs -> Ids \cup {NoId}]
      /\ copy' \in [Procs -> Slot]
      /\ \A q \in Procs \ {p} : pc'[q] = pc[q] /\ at'[q] = at[q] /\ copy'[q] = copy[q]
      /\ \/ pc'[p] = "claimed" /\ at'[p] = i /\ copy'[p] = job
         \/ pc'[p] = "idle" /\ at'[p] = at[p]
  BY <1>1, <1>2, <1>3 DEF Reach, PcValues
<1>. HIDE DEF job
<1>8. Typed'
  BY <1>2, <1>4, <1>7 DEF Typed, TypeOK, Shape, Held
<1>9. OneRowPerKey'
  <2>1. Present(rows)' = Present(rows)
    BY <1>1, <1>3, <1>4 DEF Present
  <2>. QED
    BY <2>1 DEF DurableInv, OneRowPerKey
<1>10. LeasesAreUncounted' /\ QueuedRowsAgree'
  BY <1>3, <1>4, <1>5 DEF DurableInv, LeasesAreUncounted, QueuedRowsAgree
<1>11. RowsCountRuns'
  BY <1>2, <1>3, <1>4, <1>5 DEF DurableInv, RowsCountRuns
<1>12. PendingUntouched'
  <2>. SUFFICES ASSUME NEW c \in Producers, pc'[c] = "enqueue"
                PROVE  /\ rows'[at'[c]].status = "absent" /\ runs[at'[c]] = 0
                       /\ copy'[c].status = "queued"
                       /\ copy'[c].attempts = 0 /\ copy'[c].hist = 0
                       /\ \A q \in Procs \ {c} : at'[q] # at'[c]
    BY <1>2 DEF PendingUntouched
  <2>1. c # p /\ pc[c] = "enqueue" /\ at'[c] = at[c] /\ copy'[c] = copy[c]
        /\ at[c] \in Ids
    BY <1>7
  <2>2. /\ rows[at[c]].status = "absent" /\ runs[at[c]] = 0
        /\ copy[c].status = "queued" /\ copy[c].attempts = 0 /\ copy[c].hist = 0
        /\ \A q \in Procs \ {c} : at[q] # at[c]
    BY <2>1 DEF DurableInv, PendingUntouched
  <2>3. at[c] # i /\ rows'[at[c]] = rows[at[c]]
    BY <1>1, <1>4, <2>1, <2>2
  <2>. QED
    BY <1>7, <2>1, <2>2, <2>3
<1>13. OthersPresent'
  BY <1>3, <1>4, <1>7 DEF DurableInv, OthersPresent
<1>14. CopiesAgree'
  BY <1>3, <1>5, <1>7 DEF DurableInv, CopiesAgree, Held
<1>15. HeldCountsRuns'
  <2>. SUFFICES ASSUME NEW q \in Workers, pc'[q] # "idle", at'[q] \notin late
                PROVE  /\ rows'[at'[q]].status # "queued"
                       /\ copy'[q].attempts = runs[at'[q]]
                       /\ pc'[q] = "claimed" => runs[at'[q]] < MaxAttempts
                       /\ \A w \in Workers \ {q} : at'[w] # at'[q]
    BY <1>2 DEF HeldCountsRuns
  <2>1. CASE q = p
    <3>1. pc'[p] = "claimed" /\ at'[p] = i /\ copy'[p] = job
      BY <1>7, <2>1
    <3>. QED
      BY <1>3, <1>4, <1>5, <1>6, <1>7, <2>1, <3>1
  <2>2. CASE q # p
    <3>1. pc[q] = pc'[q] /\ at'[q] = at[q] /\ copy'[q] = copy[q] /\ at[q] \in Ids
          /\ pc[q] # "idle"
      BY <1>7, <2>2
    <3>2. /\ rows[at[q]].status # "queued" /\ copy[q].attempts = runs[at[q]]
          /\ pc[q] = "claimed" => runs[at[q]] < MaxAttempts
          /\ \A w \in Workers \ {q} : at[w] # at[q]
      BY <3>1 DEF DurableInv, HeldCountsRuns
    <3>3. at[q] # i
      BY <1>1, <3>2
    <3>4. rows'[at[q]] = rows[at[q]] /\ \A w \in Workers \ {q} : at'[w] # at[q]
      BY <1>2, <1>4, <1>7, <3>1, <3>2, <3>3
    <3>. QED
      BY <3>1, <3>2, <3>4
  <2>. QED
    BY <2>1, <2>2
<1>. QED
  BY <1>8, <1>9, <1>10, <1>11, <1>12, <1>13, <1>14, <1>15 DEF DurableInv

(* A worker goes on with the job in hand: it stores that the attempt began,   *)
(* or it goes from its handler to the catch block.                           *)
LEMMA GoOnKeeps ==
  ASSUME DurableInv, NEW p \in Workers, pc[p] # "idle",
         pc' = [pc EXCEPT ![p] = pc'[p]], pc'[p] \in Held \ {"claimed"}, at' = at,
         copy' = [copy EXCEPT ![p] = copy'[p]], copy'[p] \in Slot,
         copy'[p].attempts = copy'[p].hist + 1,
         runs' = [runs EXCEPT ![at[p]] = runs'[at[p]]], runs'[at[p]] \in Nat,
         at[p] \notin late =>
           copy'[p].attempts = runs'[at[p]] /\ runs'[at[p]] <= MaxAttempts,
         UNCHANGED <<now, late>>, NEW job \in Slot, job.status \notin {"absent", "queued"},
         Upsert(at[p], job) \/ (UNCHANGED <<rows, lease>> /\ runs' = runs)
  PROVE  DurableInv'
<1>. USE ProcsSplit, DurableAssumption
<1>0. Typed
  BY DEF DurableInv
<1>. USE <1>0, TypesOf
<1> DEFINE i == at[p]
           where == pc'[p]
           mine == copy'[p]
           n == runs'[at[p]]
<1>1. i \in Ids
  OBVIOUS
<1>2. /\ pc'[p] = where /\ pc' \in [Procs -> PcValues]
      /\ copy' \in [Procs -> Slot] /\ copy'[p] = mine
      /\ \A q \in Procs \ {p} : pc'[q] = pc[q] /\ copy'[q] = copy[q]
  BY DEF PcValues, Held
<1>3. /\ rows' \in [Ids -> Slot] /\ lease' \in [Ids -> Nat \cup {Null}]
      /\ \/ rows'[i] = rows[i] /\ lease'[i] = lease[i] /\ n = runs[i]
         \/ rows'[i] = job /\ lease'[i] = Null
      /\ \A k \in Ids \ {i} : rows'[k] = rows[k] /\ lease'[k] = lease[k]
  BY DEF Upsert
<1>4. /\ runs' \in [Ids -> Nat] /\ runs'[i] = n
      /\ \A k \in Ids \ {i} : runs'[k] = runs[k]
  BY <1>1
<1>5. Typed'
  BY <1>2, <1>3, <1>4 DEF Typed, TypeOK, Shape, Held
<1>6. rows[i].status # "absent"
  BY DEF DurableInv, OthersPresent, Typed, Shape, Held
<1>7. OneRowPerKey'
  <2>1. Present(rows)' = Present(rows)
    BY <1>3, <1>6 DEF Present
  <2>. QED
    BY <2>1 DEF DurableInv, OneRowPerKey
<1>8. i \notin late => mine.attempts = n /\ n <= MaxAttempts
  OBVIOUS
<1>9. /\ pc[p] # "idle" /\ at[p] = i /\ where \in Held \ {"claimed"}
      /\ mine.attempts = mine.hist + 1 /\ mine \in Slot
  OBVIOUS
<1>. HIDE DEF i, where, mine, n
<1>10. LeasesAreUncounted' /\ QueuedRowsAgree'
  BY <1>3 DEF DurableInv, LeasesAreUncounted, QueuedRowsAgree
<1>11. RowsCountRuns'
  <2>. SUFFICES ASSUME NEW k \in Ids, k \notin late
                PROVE  /\ runs'[k] <= MaxAttempts
                       /\ rows'[k].status = "queued" \/ lease'[k] # Null =>
                            rows'[k].attempts = runs'[k] /\ runs'[k] < MaxAttempts
    BY DEF RowsCountRuns
  <2>1. CASE rows'[k] = rows[k] /\ lease'[k] = lease[k] /\ runs'[k] = runs[k]
    BY <2>1 DEF DurableInv, RowsCountRuns
  <2>2. CASE k = i /\ rows'[k] = job /\ lease'[k] = Null
    BY <1>4, <1>8, <2>2
  <2>. QED
    BY <1>3, <1>4, <2>1, <2>2
<1>12. PendingUntouched'
  <2>. SUFFICES ASSUME NEW c \in Producers, pc'[c] = "enqueue"
                PROVE  /\ rows'[at[c]].status = "absent" /\ runs'[at[c]] = 0
                       /\ copy'[c].status = "queued"
                       /\ copy'[c].attempts = 0 /\ copy'[c].hist = 0
                       /\ \A q \in Procs \ {c} : at[q] # at[c]
    BY DEF PendingUntouched
  <2>1. c # p /\ pc[c] = "enqueue" /\ copy'[c] = copy[c] /\ at[c] \in Ids
    BY <1>2
  <2>2. /\ rows[at[c]].status = "absent" /\ runs[at[c]] = 0
        /\ copy[c].status = "queued" /\ copy[c].attempts = 0 /\ copy[c].hist = 0
        /\ \A q \in Procs \ {c} : at[q] # at[c]
    BY <2>1 DEF DurableInv, PendingUntouched
  <2>3. at[c] # i
    BY <1>9, <2>1, <2>2
  <2>. QED
    BY <1>3, <1>4, <2>1, <2>2, <2>3
<1>13. OthersPresent'
  <2>. SUFFICES ASSUME NEW q \in Procs, pc'[q] \notin {"idle", "enqueue"}
                PROVE  rows'[at[q]].status # "absent"
    BY DEF OthersPresent
  <2>1. CASE at[q] = i
    BY <1>3, <1>6, <2>1
  <2>2. CASE at[q] # i
    <3>1. q # p /\ pc[q] = pc'[q] /\ at[q] \in Ids
      BY <1>2, <1>9, <2>2
    <3>. QED
      BY <1>3, <2>2, <3>1 DEF DurableInv, OthersPresent
  <2>. QED
    BY <2>1, <2>2
<1>14. CopiesAgree'
  BY <1>2, <1>9 DEF DurableInv, CopiesAgree, Held
<1>15. HeldCountsRuns'
  <2>. SUFFICES ASSUME NEW q \in Workers, pc'[q] # "idle", at[q] \notin late
                PROVE  /\ rows'[at[q]].status # "queued"
                       /\ copy'[q].attempts = runs'[at[q]]
                       /\ pc'[q] = "claimed" => runs'[at[q]] < MaxAttempts
                       /\ \A w \in Workers \ {q} : at[w] # at[q]
    BY DEF HeldCountsRuns
  <2>1. pc[q] # "idle"
    BY <1>2
  <2>2. /\ rows[at[q]].status # "queued" /\ copy[q].attempts = runs[at[q]]
        /\ pc[q] = "claimed" => runs[at[q]] < MaxAttempts
        /\ \A w \in Workers \ {q} : at[w] # at[q]
    BY <2>1 DEF DurableInv, HeldCountsRuns
  <2>3. CASE q = p
    BY <1>2, <1>3, <1>4, <1>8, <1>9, <2>2, <2>3
  <2>4. CASE q # p
    <3>1. at[q] # i /\ at[q] \in Ids /\ pc'[q] = pc[q] /\ copy'[q] = copy[q]
      BY <1>2, <1>9, <2>1, <2>2, <2>4
    <3>. QED
      BY <1>3, <1>4, <2>2, <3>1
  <2>. QED
    BY <2>3, <2>4
<1>. QED
  BY <1>5, <1>7, <1>10, <1>11, <1>12, <1>13, <1>14, <1>15 DEF DurableInv

LEMMA WorkerDurable ==
  ASSUME DurableInv, NEW p \in Workers, WorkerStep(p)
  PROVE  DurableInv'
<1>. USE ProcsSplit
<1>0. Typed
  BY DEF DurableInv
<1>. USE <1>0, TypesOf
<1>1. /\ Unknown(copy[p]) \in Slot /\ Unknown(copy[p]).status = "dead"
      /\ Succeeded(copy[p]) \in Slot /\ Succeeded(copy[p]).status = "succeeded"
      /\ Running(copy[p]) \in Slot /\ Running(copy[p]).status = "running"
      /\ Running(copy[p]).attempts = copy[p].attempts + 1
      /\ Running(copy[p]).hist = copy[p].hist
  BY Outcomes
<1>2. /\ copy[p].attempts \in Nat /\ copy[p].hist \in Nat /\ MaxAttempts \in Nat
      /\ pc[p] # "idle" => at[p] \in Ids /\ runs[at[p]] \in Nat
  BY Outcomes, RetryAssumption
<1>3. /\ pc[p] = "claimed" => copy[p].attempts = copy[p].hist
      /\ pc[p] \in Held \ {"claimed"} => copy[p].attempts = copy[p].hist + 1
  BY DEF DurableInv, CopiesAgree
<1>4. pc[p] # "idle" /\ at[p] \notin late =>
        /\ copy[p].attempts = runs[at[p]] /\ runs[at[p]] <= MaxAttempts
        /\ pc[p] = "claimed" => runs[at[p]] < MaxAttempts
        /\ \A q \in Workers \ {p} : at[q] # at[p]
  BY DEF DurableInv, HeldCountsRuns, RowsCountRuns
<1>5. CASE Claim(p)
  BY <1>5, ClaimDurable
<1>6. CASE RejectUnknown(p)
  BY <1>1, <1>6, ReturnKeeps DEF RejectUnknown
<1>7. CASE StartHandler(p)
  <2>1. /\ pc[p] = "claimed" /\ Upsert(at[p], Running(copy[p]))
        /\ Reach(p, "running", at[p], Running(copy[p]))
        /\ runs' = [runs EXCEPT ![at[p]] = @ + 1] /\ UNCHANGED <<now, late>>
    BY <1>7 DEF StartHandler
  <2>2. /\ pc' = [pc EXCEPT ![p] = "running"] /\ at' = at
        /\ copy' = [copy EXCEPT ![p] = Running(copy[p])]
    BY <2>1 DEF Reach
  <2>3. /\ pc'[p] = "running" /\ copy'[p] = Running(copy[p])
        /\ runs'[at[p]] = runs[at[p]] + 1 /\ at[p] \in Ids
    BY <2>1, <2>2
  <2>4. /\ pc' = [pc EXCEPT ![p] = pc'[p]] /\ copy' = [copy EXCEPT ![p] = copy'[p]]
        /\ runs' = [runs EXCEPT ![at[p]] = runs'[at[p]]]
    BY <2>1, <2>2, <2>3
  <2>5. /\ runs'[at[p]] \in Nat /\ copy'[p].attempts = copy'[p].hist + 1
        /\ at[p] \notin late =>
             copy'[p].attempts = runs'[at[p]] /\ runs'[at[p]] <= MaxAttempts
    BY <1>1, <1>2, <1>3, <1>4, <2>1, <2>3
  <2>6. pc'[p] \in Held \ {"claimed"}
    BY <2>3 DEF Held
  <2>. QED
    BY <1>1, <2>1, <2>2, <2>3, <2>4, <2>5, <2>6, GoOnKeeps
<1>8. CASE ClaimedUpdateRejects(p)
  <2>1. /\ pc[p] = "claimed" /\ Return(p) /\ UNCHANGED <<now, late, runs>>
        /\ \/ Upsert(at[p], Running(copy[p])) \/ Upsert(at[p], Unknown(copy[p]))
           \/ UNCHANGED <<rows, lease>>
    BY <1>8 DEF ClaimedUpdateRejects, Rejects
  <2>. QED
    BY <1>1, <2>1, ReturnKeeps
<1>9. CASE HandlerSucceeds(p)
  BY <1>1, <1>9, ReturnKeeps DEF HandlerSucceeds
<1>10. ASSUME NEW where \in Held \ {"claimed"}, pc[p] = "running",
              pc' = [pc EXCEPT ![p] = where], UNCHANGED <<now, at, copy, late, runs>>,
              Upsert(at[p], Succeeded(copy[p])) \/ UNCHANGED <<rows, lease>>
       PROVE  DurableInv'
  <2>1. /\ pc'[p] = where /\ copy'[p] = copy[p] /\ runs'[at[p]] = runs[at[p]]
        /\ pc' = [pc EXCEPT ![p] = pc'[p]] /\ copy' = [copy EXCEPT ![p] = copy'[p]]
        /\ runs' = [runs EXCEPT ![at[p]] = runs'[at[p]]] /\ at' = at
    BY <1>10
  <2>2. copy[p].attempts = copy[p].hist + 1
    BY <1>3, <1>10 DEF Held
  <2>. QED
    BY <1>1, <1>2, <1>4, <1>10, <2>1, <2>2, GoOnKeeps
<1>11. CASE SuccessRejected(p)
  BY <1>10, <1>11 DEF SuccessRejected, Rejects, Held
<1>12. CASE HandlerThrows(p) \/ HeartbeatRefused(p)
  BY <1>10, <1>12 DEF HandlerThrows, HeartbeatRefused, Held
<1>13. CASE Heartbeat(p)
  <2>1. /\ UNCHANGED <<rows, now, pc, at, copy, late, runs>> /\ lease[at[p]] # Null
        /\ lease' = [lease EXCEPT ![at[p]] = now + LeaseMs] /\ at[p] \in Ids
    BY <1>13 DEF Heartbeat, LeaseHeld
  <2>2. /\ lease' \in [Ids -> Nat \cup {Null}]
        /\ \A i \in Ids : lease'[i] # Null => lease[i] # Null
    BY <2>1
  <2>3. Typed'
    BY <2>1, <2>2 DEF Typed, TypeOK, Shape
  <2>4. LeasesAreUncounted' /\ RowsCountRuns'
    BY <2>1, <2>2 DEF DurableInv, LeasesAreUncounted, RowsCountRuns
  <2>. QED
    BY <2>1, <2>3, <2>4
    DEF DurableInv, OneRowPerKey, QueuedRowsAgree, PendingUntouched, OthersPresent,
        CopiesAgree, HeldCountsRuns, Present
<1>14. CASE StoreFailure(p)
  <2> DEFINE job == CreateFailedJobRecord(copy[p], now)
  <2>1. /\ pc[p] \in Held \ {"claimed"} /\ Return(p) /\ UNCHANGED <<now, late, runs>>
        /\ Upsert(at[p], job) \/ UNCHANGED <<rows, lease>>
    BY <1>14 DEF StoreFailure, Rejects, Held
  <2>2. job \in Slot
    BY RecordsStaySlots
  <2>3. /\ job.status \in {"queued", "dead"} /\ job.attempts = copy[p].attempts
        /\ job.hist = copy[p].hist + 1
        /\ job.status = "queued" => copy[p].attempts < MaxAttempts
    BY DEF CreateFailedJobRecord, Slot
  <2>. HIDE DEF job
  <2>4. pc[p] # "idle" /\ pc[p] # "enqueue" /\ job.status # "absent"
    BY <2>1, <2>3 DEF Held
  <2>5. job.status = "queued" =>
          /\ job.attempts = job.hist
          /\ at[p] \notin late =>
               /\ job.attempts = runs[at[p]] /\ runs[at[p]] < MaxAttempts
               /\ \A q \in Workers \ {p} : at[q] # at[p]
    BY <1>3, <1>4, <2>1, <2>3, <2>4
  <2>. QED
    BY <2>1, <2>2, <2>4, <2>5, ReturnKeeps
<1>. QED
  BY <1>5, <1>6, <1>7, <1>8, <1>9, <1>11, <1>12, <1>13, <1>14
  DEF WorkerStep, HandlerStep

LEMMA ReclaimDurable == DurableInv /\ ReclaimExpired => DurableInv'
<1>. SUFFICES ASSUME DurableInv, ReclaimExpired PROVE DurableInv'
  OBVIOUS
<1>. USE ProcsSplit, DurableAssumption
<1>0. Typed
  BY DEF DurableInv
<1>. USE <1>0, TypesOf
<1>1. /\ \A i \in Ids : rows'[i] = IF Expired(i) THEN [rows[i] EXCEPT !.status = "queued"]
                                   ELSE rows[i]
      /\ \A i \in Ids : lease'[i] = IF Expired(i) THEN Null ELSE lease[i]
      /\ late' = late \cup {i \in Ids : Expired(i) /\ \E p \in Workers : at[p] = i}
      /\ UNCHANGED <<now, pc, at, copy, runs>>
  BY DEF ReclaimExpired
<1>2. /\ rows' \in [Ids -> Slot] /\ lease' \in [Ids -> Nat \cup {Null}]
      /\ late' \in SUBSET Ids
  <2>1. \A i \in Ids : [rows[i] EXCEPT !.status = "queued"] \in Slot
    BY DEF Slot, Statuses
  <2>. QED
    BY <1>1, <2>1 DEF ReclaimExpired
<1>3. ASSUME NEW i \in Ids, Expired(i)
      PROVE  /\ rows[i].status = "running" /\ lease[i] # Null
             /\ rows'[i].status = "queued" /\ rows'[i].attempts = rows[i].attempts
             /\ rows'[i].hist = rows[i].hist /\ rows[i].attempts = rows[i].hist
             /\ i \notin late => rows[i].attempts = runs[i] /\ runs[i] < MaxAttempts
  <2>1. rows[i].status = "running" /\ lease[i] # Null
    BY <1>3 DEF Expired
  <2>2. rows'[i].status = "queued" /\ rows'[i].attempts = rows[i].attempts
        /\ rows'[i].hist = rows[i].hist
    <3>1. rows'[i] = [rows[i] EXCEPT !.status = "queued"] /\ rows[i] \in Slot
      BY <1>1, <1>3
    <3>. QED
      BY <3>1 DEF Slot
  <2>. QED
    BY <2>1, <2>2 DEF DurableInv, LeasesAreUncounted, RowsCountRuns
<1>4. Typed'
  BY <1>1, <1>2 DEF Typed, TypeOK, Shape
<1>5. \A i \in Ids : rows'[i].status = "absent" <=> rows[i].status = "absent"
  BY <1>1, <1>3
<1>6. OneRowPerKey' /\ OthersPresent'
  <2>1. Present(rows)' = Present(rows)
    BY <1>5 DEF Present
  <2>2. OneRowPerKey'
    BY <2>1 DEF DurableInv, OneRowPerKey
  <2>3. OthersPresent'
    BY <1>1, <1>5 DEF DurableInv, OthersPresent
  <2>. QED
    BY <2>2, <2>3
<1>7. LeasesAreUncounted'
  BY <1>1 DEF DurableInv, LeasesAreUncounted
<1>8. QueuedRowsAgree'
  <2>1. \A i \in Ids : ~Expired(i) => rows'[i] = rows[i]
    BY <1>1
  <2>. QED
    BY <1>3, <2>1 DEF DurableInv, QueuedRowsAgree
<1>9. RowsCountRuns'
  <2>. SUFFICES ASSUME NEW k \in Ids, k \notin late'
                PROVE  /\ runs[k] <= MaxAttempts
                       /\ rows'[k].status = "queued" \/ lease'[k] # Null =>
                            rows'[k].attempts = runs[k] /\ runs[k] < MaxAttempts
    BY <1>1 DEF RowsCountRuns
  <2>1. k \notin late /\ runs[k] <= MaxAttempts
    BY <1>1 DEF DurableInv, RowsCountRuns
  <2>2. CASE Expired(k)
    BY <1>3, <2>1, <2>2
  <2>3. CASE ~Expired(k)
    <3>1. rows'[k] = rows[k] /\ lease'[k] = lease[k]
      BY <1>1, <2>3
    <3>. QED
      BY <2>1, <3>1 DEF DurableInv, RowsCountRuns
  <2>. QED
    BY <2>2, <2>3
<1>10. PendingUntouched' /\ CopiesAgree'
  <2>1. \A c \in Producers : pc[c] = "enqueue" => at[c] \in Ids
    OBVIOUS
  <2>. QED
    BY <1>1, <1>5, <2>1 DEF DurableInv, PendingUntouched, CopiesAgree
<1>11. HeldCountsRuns'
  <2>. SUFFICES ASSUME NEW q \in Workers, pc[q] # "idle", at[q] \notin late'
                PROVE  /\ rows'[at[q]].status # "queued"
                       /\ copy[q].attempts = runs[at[q]]
                       /\ pc[q] = "claimed" => runs[at[q]] < MaxAttempts
                       /\ \A w \in Workers \ {q} : at[w] # at[q]
    BY <1>1 DEF HeldCountsRuns
  <2>1. at[q] \in Ids /\ at[q] \notin late /\ ~Expired(at[q])
    BY <1>1
  <2>2. rows'[at[q]] = rows[at[q]]
    BY <1>1, <2>1
  <2>. QED
    BY <2>1, <2>2 DEF DurableInv, HeldCountsRuns
<1>. QED
  BY <1>4, <1>6, <1>7, <1>8, <1>9, <1>10, <1>11 DEF DurableInv

LEMMA NextDurable == DurableInv /\ [Next]_vars => DurableInv'
<1>. SUFFICES ASSUME DurableInv, [Next]_vars PROVE DurableInv'
  OBVIOUS
<1>1. CASE \E p \in Producers : ProducerStep(p)
  BY <1>1, ProducerDurable
<1>2. CASE \E p \in Workers : WorkerStep(p)
  BY <1>2, WorkerDurable
<1>3. CASE \E p \in Procs : Crash(p)
  <2>. PICK p \in Procs : Crash(p)
    BY <1>3
  <2>1. pc[p] # "idle" /\ Return(p) /\ UNCHANGED <<rows, lease, now, late, runs>>
    BY DEF Crash
  <2>2. [Absent EXCEPT !.status = "dead"] \in Slot
        /\ [Absent EXCEPT !.status = "dead"].status = "dead"
    BY DEF Absent, Slot, Statuses
  <2>. QED
    BY <2>1, <2>2, ReturnKeeps
<1>4. CASE ReclaimExpired
  BY <1>4, ReclaimDurable
<1>5. CASE Tick \/ UNCHANGED vars
  <2>1. UNCHANGED <<rows, lease, pc, at, copy, late, runs>> /\ now' \in Nat
    BY <1>5 DEF Tick, vars, DurableInv, Typed, TypeOK
  <2>2. Typed'
    BY <2>1 DEF DurableInv, Typed, TypeOK, Shape
  <2>. QED
    BY <2>1, <2>2
    DEF DurableInv, OneRowPerKey, LeasesAreUncounted, QueuedRowsAgree, RowsCountRuns,
        PendingUntouched, OthersPresent, CopiesAgree, HeldCountsRuns, Present
<1>. QED
  BY <1>1, <1>2, <1>3, <1>4, <1>5 DEF Next

LEMMA AlwaysDurable == Spec => []DurableInv
BY InitDurable, NextDurable, PTL DEF Spec

-----------------------------------------------------------------------------
(* What a step does to the jobs, seen from outside one process.              *)
OnlyAt(i) == \A k \in Ids \ {i} : rows'[k] = rows[k] /\ lease'[k] = lease[k]

RowKept(i) ==
  rows'[i].status = rows[i].status /\ (lease'[i] = Null <=> lease[i] = Null)

RowBecomes(i, status) == rows'[i].status = status /\ lease'[i] = Null

Took(p, i) ==
  /\ pc[p] = "idle" /\ rows[i].status = "queued"
  /\ rows'[i].status = "running" /\ lease'[i] # Null
  /\ pc'[p] = "idle" \/ (pc'[p] = "claimed" /\ at'[p] = i)
  /\ runs' = runs

LeftClaim(p, i) ==
  /\ pc[p] = "claimed" /\ at[p] = i /\ pc'[p] = "idle"
  /\ RowKept(i) \/ RowBecomes(i, "dead") \/ RowBecomes(i, "running")
  /\ runs' = runs

Began(p, i) ==
  /\ pc[p] = "claimed" /\ at[p] = i /\ pc'[p] = "running" /\ at'[p] = i
  /\ RowBecomes(i, "running")
  /\ i \notin late => runs[i] < MaxAttempts
  /\ runs' = [runs EXCEPT ![i] = @ + 1]

WentOn(p, i) ==
  /\ pc[p] = "running" /\ at[p] = i /\ pc'[p] \in Started /\ at'[p] = i
  /\ RowKept(i) \/ RowBecomes(i, "succeeded")
  /\ runs' = runs

Ended(p, i) ==
  /\ pc[p] \in Started /\ at[p] = i /\ pc'[p] = "idle"
  /\ \/ RowKept(i) \/ RowBecomes(i, "succeeded")
     \/ RowBecomes(i, "queued") /\ (i \notin late => runs[i] < MaxAttempts)
     \/ RowBecomes(i, "dead") /\ (i \notin late => runs[i] = MaxAttempts)
  /\ runs' = runs

WorkerMoves(p, i) ==
  /\ OnlyAt(i) /\ late' = late
  /\ \A q \in Workers \ {p} : pc'[q] = pc[q] /\ at'[q] = at[q]
  /\ pc'[p] = "idle" <=> at'[p] = NoId
  /\ i \notin late => \A q \in Workers \ {p} : at[q] # i
  /\ Took(p, i) \/ LeftClaim(p, i) \/ Began(p, i) \/ WentOn(p, i) \/ Ended(p, i)

(* Every step of a worker is a step of one job's life. *)
LEMMA WorkerActs ==
  ASSUME DurableInv, NEW p \in Workers, WorkerStep(p)
  PROVE  \E i \in Ids : WorkerMoves(p, i)
<1>. USE ProcsSplit
<1>0. Typed /\ Typed'
  BY WorkerDurable DEF DurableInv
<1>. USE <1>0, TypesOf
<1>1. /\ Unknown(copy[p]).status = "dead" /\ Succeeded(copy[p]).status = "succeeded"
      /\ Running(copy[p]).status = "running"
  BY Outcomes
<1>2. pc'[p] = "idle" <=> at'[p] = NoId
  BY DEF Typed, Shape
<1>3. pc[p] # "idle" /\ at[p] \notin late =>
        /\ copy[p].attempts = runs[at[p]] /\ runs[at[p]] <= MaxAttempts
        /\ pc[p] = "claimed" => runs[at[p]] < MaxAttempts
        /\ \A q \in Workers \ {p} : at[q] # at[p]
  BY DEF DurableInv, HeldCountsRuns, RowsCountRuns
<1>4. ASSUME NEW i \in Ids, NEW job, Upsert(i, job)
      PROVE  OnlyAt(i) /\ rows'[i] = job /\ lease'[i] = Null
  BY <1>4 DEF Upsert, OnlyAt
<1>5. ASSUME NEW i \in Ids, UNCHANGED <<rows, lease>>
      PROVE  OnlyAt(i) /\ RowKept(i)
  BY <1>5 DEF OnlyAt, RowKept
<1>6. ASSUME NEW q \in Workers \ {p}, NEW where, NEW i, NEW job, Reach(p, where, i, job)
      PROVE  pc'[q] = pc[q] /\ at'[q] = at[q]
  BY <1>6 DEF Reach
<1>7. CASE Claim(p)
  <2>1. PICK i \in Ids :
          /\ rows[i].status = "queued"
          /\ rows' = [rows EXCEPT ![i] = Claimed(@)]
          /\ lease' = [lease EXCEPT ![i] = now + LeaseMs]
          /\ Reach(p, "claimed", i, Claimed(rows[i])) \/ UNCHANGED <<pc, at, copy>>
    BY <1>7 DEF Claim, Claimable, Ready, IsJobReady
  <2>2. pc[p] = "idle" /\ late' = late /\ runs' = runs
    BY <1>7 DEF Claim
  <2>3. rows'[i] = Claimed(rows[i]) /\ Claimed(rows[i]).status = "running"
        /\ lease'[i] = now + LeaseMs /\ lease'[i] # Null
    BY <2>1, Outcomes, DurableAssumption
  <2>4. OnlyAt(i)
    BY <2>1 DEF OnlyAt
  <2>5. i \notin late => \A q \in Workers \ {p} : at[q] # i
    <3>1. \A q \in Workers : at[q] = i => pc[q] # "idle"
      BY DurableAssumption
    <3>. QED
      BY <2>1, <3>1 DEF DurableInv, HeldCountsRuns
  <2>6. pc'[p] = "idle" \/ (pc'[p] = "claimed" /\ at'[p] = i)
    BY <2>1, <2>2 DEF Reach
  <2>7. \A q \in Workers \ {p} : pc'[q] = pc[q] /\ at'[q] = at[q]
    BY <1>6, <2>1
  <2>. QED
    BY <1>2, <2>1, <2>2, <2>3, <2>4, <2>5, <2>6, <2>7 DEF WorkerMoves, Took
<1>8. ASSUME pc[p] # "idle", late' = late,
             \A q \in Workers \ {p} : pc'[q] = pc[q] /\ at'[q] = at[q],
             OnlyAt(at[p]),
             \/ LeftClaim(p, at[p]) \/ Began(p, at[p]) \/ WentOn(p, at[p])
             \/ Ended(p, at[p])
      PROVE  \E i \in Ids : WorkerMoves(p, i)
  BY <1>2, <1>3, <1>8 DEF WorkerMoves
<1>9. ASSUME pc[p] # "idle", Return(p)
      PROVE  pc'[p] = "idle" /\ \A q \in Workers \ {p} : pc'[q] = pc[q] /\ at'[q] = at[q]
  BY <1>9 DEF Return, Reach
<1>10. CASE RejectUnknown(p) \/ ClaimedUpdateRejects(p)
  <2>1. /\ pc[p] = "claimed" /\ Return(p) /\ UNCHANGED <<now, late, runs>>
        /\ \/ Upsert(at[p], Running(copy[p])) \/ Upsert(at[p], Unknown(copy[p]))
           \/ UNCHANGED <<rows, lease>>
    BY <1>10 DEF RejectUnknown, ClaimedUpdateRejects, Rejects
  <2>2. at[p] \in Ids
    BY <2>1
  <2>3. OnlyAt(at[p]) /\ LeftClaim(p, at[p])
    BY <1>1, <1>4, <1>5, <1>9, <2>1, <2>2 DEF LeftClaim, RowBecomes
  <2>. QED
    BY <1>8, <1>9, <2>1, <2>3
<1>11. CASE StartHandler(p)
  <2>1. /\ pc[p] = "claimed" /\ Upsert(at[p], Running(copy[p]))
        /\ Reach(p, "running", at[p], Running(copy[p]))
        /\ runs' = [runs EXCEPT ![at[p]] = @ + 1] /\ UNCHANGED <<now, late>>
    BY <1>11 DEF StartHandler
  <2>2. at[p] \in Ids /\ pc'[p] = "running" /\ at'[p] = at[p]
    BY <2>1 DEF Reach
  <2>3. OnlyAt(at[p]) /\ Began(p, at[p])
    BY <1>1, <1>3, <1>4, <2>1, <2>2 DEF Began, RowBecomes
  <2>. QED
    BY <1>6, <1>8, <2>1, <2>3
<1>12. CASE HandlerSucceeds(p)
  <2>1. /\ pc[p] = "running" /\ Return(p) /\ UNCHANGED <<now, late, runs>>
        /\ Upsert(at[p], Succeeded(copy[p]))
    BY <1>12 DEF HandlerSucceeds
  <2>2. OnlyAt(at[p]) /\ Ended(p, at[p])
    BY <1>1, <1>4, <1>9, <2>1 DEF Ended, RowBecomes, Started
  <2>. QED
    BY <1>8, <1>9, <2>1, <2>2
<1>13. CASE SuccessRejected(p) \/ HandlerThrows(p) \/ HeartbeatRefused(p)
  <2>1. /\ pc[p] = "running" /\ UNCHANGED <<now, at, copy, late, runs>>
        /\ Upsert(at[p], Succeeded(copy[p])) \/ UNCHANGED <<rows, lease>>
        /\ \/ pc' = [pc EXCEPT ![p] = "failing"]
           \/ pc' = [pc EXCEPT ![p] = "aborting"]
    BY <1>13 DEF SuccessRejected, HandlerThrows, HeartbeatRefused, Rejects
  <2>2. /\ at[p] \in Ids /\ pc'[p] \in Started /\ at'[p] = at[p]
        /\ \A q \in Workers \ {p} : pc'[q] = pc[q] /\ at'[q] = at[q]
    BY <2>1 DEF Started
  <2>3. OnlyAt(at[p]) /\ WentOn(p, at[p])
    BY <1>1, <1>4, <1>5, <2>1, <2>2 DEF WentOn, RowBecomes
  <2>. QED
    BY <1>8, <2>1, <2>2, <2>3
<1>14. CASE Heartbeat(p)
  <2>1. /\ pc[p] = "running" /\ UNCHANGED <<rows, now, pc, at, copy, late, runs>>
        /\ lease[at[p]] # Null /\ lease' = [lease EXCEPT ![at[p]] = now + LeaseMs]
    BY <1>14 DEF Heartbeat, LeaseHeld
  <2>2. at[p] \in Ids /\ lease'[at[p]] = now + LeaseMs /\ now + LeaseMs # Null
    BY <2>1, DurableAssumption
  <2>3. OnlyAt(at[p]) /\ RowKept(at[p])
    BY <2>1, <2>2 DEF OnlyAt, RowKept
  <2>4. WentOn(p, at[p])
    BY <2>1, <2>3 DEF WentOn, Started
  <2>. QED
    BY <1>8, <2>1, <2>3, <2>4
<1>15. CASE StoreFailure(p)
  <2> DEFINE job == CreateFailedJobRecord(copy[p], now)
  <2>1. /\ pc[p] \in Started /\ Return(p) /\ UNCHANGED <<now, late, runs>>
        /\ Upsert(at[p], job) \/ UNCHANGED <<rows, lease>>
    BY <1>15 DEF StoreFailure, Rejects, Started
  <2>2. \/ job.status = "queued" /\ copy[p].attempts < MaxAttempts
        \/ job.status = "dead" /\ copy[p].attempts >= MaxAttempts
    BY RetryAssumption DEF CreateFailedJobRecord, Slot
  <2>. HIDE DEF job
  <2>3. pc[p] # "idle" /\ at[p] \in Ids /\ runs[at[p]] \in Nat
    BY <2>1 DEF Started
  <2>4. \/ job.status = "queued" /\ (at[p] \notin late => runs[at[p]] < MaxAttempts)
        \/ job.status = "dead" /\ (at[p] \notin late => runs[at[p]] = MaxAttempts)
    BY <1>3, <2>2, <2>3, RetryAssumption
  <2>5. OnlyAt(at[p]) /\ Ended(p, at[p])
    BY <1>4, <1>5, <1>9, <2>1, <2>3, <2>4 DEF Ended, RowBecomes
  <2>. QED
    BY <1>8, <1>9, <2>1, <2>3, <2>5
<1>. QED
  BY <1>7, <1>10, <1>11, <1>12, <1>13, <1>14, <1>15 DEF WorkerStep, HandlerStep

(* A producer's step is one of these too, with no worker in hand of a new job. *)
ProducerMoves(i) ==
  /\ OnlyAt(i) /\ late' = late /\ runs' = runs
  /\ \A q \in Workers : pc'[q] = pc[q] /\ at'[q] = at[q]
  /\ \/ RowKept(i)
     \/ /\ rows[i].status = "absent" /\ RowBecomes(i, "queued")
        /\ \A q \in Workers : at[q] # i
     \/ rows[i].status # "absent" /\ RowBecomes(i, "canceled")

LEMMA ProducerActs ==
  ASSUME DurableInv, NEW p \in Producers, ProducerStep(p)
  PROVE  \E i \in Ids : ProducerMoves(i)
<1>. USE ProcsSplit
<1>0. Typed
  BY DEF DurableInv
<1>. USE <1>0, TypesOf
<1>1. ASSUME NEW q \in Workers, NEW where, NEW i, NEW job, Reach(p, where, i, job)
      PROVE  pc'[q] = pc[q] /\ at'[q] = at[q]
  BY <1>1 DEF Reach
<1>2. ASSUME NEW i \in Ids, UNCHANGED <<rows, lease>>
      PROVE  OnlyAt(i) /\ RowKept(i)
  BY <1>2 DEF OnlyAt, RowKept
<1>3. ASSUME NEW i \in Ids, NEW job, Upsert(i, job)
      PROVE  OnlyAt(i) /\ RowBecomes(i, job.status)
  BY <1>3 DEF Upsert, OnlyAt, RowBecomes
<1>4. CASE \E i \in Ids : EnqueueFind(p, i) \/ CancelGet(p, i)
  <2>1. PICK i \in Ids : EnqueueFind(p, i) \/ CancelGet(p, i)
    BY <1>4
  <2>2. UNCHANGED <<rows, lease, now, late, runs>>
        /\ \E where, job : Reach(p, where, i, job)
    BY <2>1 DEF EnqueueFind, CancelGet
  <2>. QED
    BY <1>1, <1>2, <2>2 DEF ProducerMoves
<1>5. CASE EnqueueInsert(p) \/ EnqueueRejected(p)
  <2>1. /\ pc[p] = "enqueue" /\ Return(p) /\ UNCHANGED <<now, late, runs>>
        /\ Upsert(at[p], copy[p]) \/ UNCHANGED <<rows, lease>>
    BY <1>5 DEF EnqueueInsert, EnqueueRejected, Rejects
  <2>2. /\ at[p] \in Ids /\ copy[p].status = "queued" /\ rows[at[p]].status = "absent"
        /\ \A q \in Workers : at[q] # at[p]
    BY <2>1 DEF DurableInv, PendingUntouched
  <2>. QED
    BY <1>1, <1>2, <1>3, <2>1, <2>2 DEF ProducerMoves, Return
<1>6. CASE CancelUpdate(p)
  <2>1. /\ pc[p] = "cancel" /\ Return(p) /\ UNCHANGED <<now, late, runs>>
        /\ Upsert(at[p], Canceled(copy[p])) \/ UNCHANGED <<rows, lease>>
    BY <1>6 DEF CancelUpdate, Rejects
  <2>2. /\ at[p] \in Ids /\ Canceled(copy[p]).status = "canceled"
        /\ rows[at[p]].status # "absent"
    BY <2>1, Outcomes DEF DurableInv, OthersPresent
  <2>. QED
    BY <1>1, <1>2, <1>3, <2>1, <2>2 DEF ProducerMoves, Return
<1>. QED
  BY <1>4, <1>5, <1>6 DEF ProducerStep

-----------------------------------------------------------------------------
(* What the row says of a job that a worker has in hand: only a cancel makes  *)
(* them disagree.                                                            *)
RowsKnowHands ==
  \A p \in Workers :
    at[p] \notin late =>
      /\ pc[p] = "claimed" =>
           \/ rows[at[p]].status = "canceled"
           \/ rows[at[p]].status = "running" /\ lease[at[p]] # Null
      /\ pc[p] \in Started =>
           /\ lease[at[p]] = Null
           /\ rows[at[p]].status \in {"running", "canceled", "succeeded"}

LEMMA InitKnows == Init => RowsKnowHands
BY ProcsSplit DEF Init, RowsKnowHands, Started

LEMMA NextKnows == DurableInv /\ RowsKnowHands /\ [Next]_vars => RowsKnowHands'
<1>. SUFFICES ASSUME DurableInv, RowsKnowHands, [Next]_vars,
                     NEW q \in Workers, at'[q] \notin late',
                     pc'[q] \in {"claimed"} \cup Started
              PROVE  /\ pc'[q] = "claimed" =>
                          \/ rows'[at'[q]].status = "canceled"
                          \/ rows'[at'[q]].status = "running" /\ lease'[at'[q]] # Null
                     /\ pc'[q] \in Started =>
                          /\ lease'[at'[q]] = Null
                          /\ rows'[at'[q]].status \in {"running", "canceled", "succeeded"}
  BY DEF RowsKnowHands
<1>. USE ProcsSplit
<1>0. Typed
  BY DEF DurableInv
<1>. USE <1>0, TypesOf
<1>1. at[q] \notin late =>
        /\ pc[q] = "claimed" =>
             \/ rows[at[q]].status = "canceled"
             \/ rows[at[q]].status = "running" /\ lease[at[q]] # Null
        /\ pc[q] \in Started =>
             /\ lease[at[q]] = Null
             /\ rows[at[q]].status \in {"running", "canceled", "succeeded"}
  BY DEF RowsKnowHands
<1>2. ASSUME pc'[q] = pc[q] PROVE at[q] \in Ids
  BY <1>2 DEF Started
<1>3. CASE \E p \in Workers : WorkerStep(p)
  <2>1. PICK p \in Workers, i \in Ids : WorkerMoves(p, i)
    BY <1>3, WorkerActs
  <2>2. CASE q # p
    <3>1. pc'[q] = pc[q] /\ at'[q] = at[q] /\ at[q] \in Ids /\ at[q] \notin late
      BY <1>2, <2>1, <2>2 DEF WorkerMoves
    <3>2. at[q] # i
      BY <2>1, <2>2, <3>1 DEF WorkerMoves
    <3>3. rows'[at[q]] = rows[at[q]] /\ lease'[at[q]] = lease[at[q]]
      BY <2>1, <3>1, <3>2 DEF WorkerMoves, OnlyAt
    <3>. QED
      BY <1>1, <3>1, <3>3
  <2>3. CASE q = p
    <3>1. pc'[p] # "idle"
      BY <2>3 DEF Started
    <3>2. CASE Took(p, i)
      BY <2>3, <3>1, <3>2 DEF Took, Started
    <3>3. CASE Began(p, i)
      BY <2>3, <3>3 DEF Began, RowBecomes, Started
    <3>4. CASE WentOn(p, i)
      BY <1>1, <2>1, <2>3, <3>4
      DEF WentOn, WorkerMoves, RowBecomes, RowKept, Started
    <3>. QED
      BY <2>1, <3>1, <3>2, <3>3, <3>4 DEF WorkerMoves, LeftClaim, Ended
  <2>. QED
    BY <2>2, <2>3
<1>4. CASE \E p \in Producers : ProducerStep(p)
  <2>1. PICK i \in Ids : ProducerMoves(i)
    BY <1>4, ProducerActs
  <2>2. pc'[q] = pc[q] /\ at'[q] = at[q] /\ at[q] \in Ids /\ at[q] \notin late
    BY <1>2, <2>1 DEF ProducerMoves
  <2>3. CASE at[q] = i
    BY <1>1, <2>1, <2>2, <2>3 DEF ProducerMoves, RowBecomes, RowKept, Started
  <2>4. CASE at[q] # i
    BY <1>1, <2>1, <2>2, <2>4 DEF ProducerMoves, OnlyAt
  <2>. QED
    BY <2>3, <2>4
<1>5. CASE \E p \in Procs : Crash(p)
  <2>1. /\ UNCHANGED <<rows, lease, late>>
        /\ pc'[q] = "idle" \/ (pc'[q] = pc[q] /\ at'[q] = at[q])
    BY <1>5 DEF Crash, Return, Reach
  <2>. QED
    BY <1>1, <2>1 DEF Started
<1>6. CASE ReclaimExpired
  <2>1. /\ pc'[q] = pc[q] /\ at'[q] = at[q] /\ at[q] \in Ids
        /\ at[q] \notin late /\ ~Expired(at[q])
    BY <1>2, <1>6 DEF ReclaimExpired
  <2>2. rows'[at[q]] = rows[at[q]] /\ lease'[at[q]] = lease[at[q]]
    BY <1>6, <2>1 DEF ReclaimExpired
  <2>. QED
    BY <1>1, <2>1, <2>2
<1>7. CASE Tick \/ UNCHANGED vars
  BY <1>1, <1>7 DEF Tick, vars
<1>. QED
  BY <1>3, <1>4, <1>5, <1>6, <1>7 DEF Next

LEMMA AlwaysKnows == Spec => [](DurableInv /\ RowsKnowHands)
<1>1. Init => DurableInv /\ RowsKnowHands
  BY InitDurable, InitKnows
<1>2. DurableInv /\ RowsKnowHands /\ [Next]_vars => (DurableInv /\ RowsKnowHands)'
  BY NextDurable, NextKnows
<1>. QED
  BY <1>1, <1>2, PTL DEF Spec

-----------------------------------------------------------------------------
(* The refinement of JobRecovery.                                             *)
InClaim(i) == \E p \in Workers : at[p] = i /\ pc[p] = "claimed"

InHandler(i) == \E p \in Workers : at[p] = i /\ pc[p] \in Started

RowPhase(i) ==
  CASE rows[i].status = "absent"    -> "new"
    [] rows[i].status = "queued"    -> "waiting"
    [] rows[i].status = "succeeded" -> "done"
    [] rows[i].status = "dead"      -> "buried"
    [] rows[i].status = "running"   -> IF lease[i] = Null THEN "lost" ELSE "taken"
    [] OTHER                        -> "canceled"

LEMMA PhaseIs ==
  ASSUME NEW i \in Ids
  PROVE  RecoveryPhase(i) = IF i \in late THEN "disputed"
                            ELSE IF InClaim(i) THEN "taken"
                            ELSE IF InHandler(i) THEN "trying" ELSE RowPhase(i)
BY DEF RecoveryPhase, InClaim, InHandler, RowPhase

LEMMA PhaseWillBe ==
  ASSUME NEW i \in Ids
  PROVE  RecoveryPhase(i)' = IF i \in late' THEN "disputed"
                             ELSE IF InClaim(i)' THEN "taken"
                             ELSE IF InHandler(i)' THEN "trying" ELSE RowPhase(i)'
BY DEF RecoveryPhase, InClaim, InHandler, RowPhase

LEMMA PhaseKept ==
  ASSUME NEW k \in Ids, k \in late' <=> k \in late, RowKept(k),
         InClaim(k)' <=> InClaim(k), InHandler(k)' <=> InHandler(k)
  PROVE  RecoveryPhase(k)' = RecoveryPhase(k)
<1>1. RowPhase(k)' = RowPhase(k)
  BY DEF RowPhase, RowKept
<1>. QED
  BY <1>1, PhaseIs, PhaseWillBe

LEMMA RowPhaseIs ==
  ASSUME NEW i \in Ids
  PROVE  /\ rows[i].status = "absent" => RowPhase(i) = "new"
         /\ rows[i].status = "queued" => RowPhase(i) = "waiting"
         /\ rows[i].status = "succeeded" => RowPhase(i) = "done"
         /\ rows[i].status = "dead" => RowPhase(i) = "buried"
         /\ rows[i].status = "running" /\ lease[i] = Null => RowPhase(i) = "lost"
         /\ rows[i].status = "running" /\ lease[i] # Null => RowPhase(i) = "taken"
         /\ rows[i].status = "canceled" => RowPhase(i) = "canceled"
BY DEF RowPhase

LEMMA RowPhaseWillBe ==
  ASSUME NEW i \in Ids
  PROVE  /\ rows'[i].status = "queued" => RowPhase(i)' = "waiting"
         /\ rows'[i].status = "succeeded" => RowPhase(i)' = "done"
         /\ rows'[i].status = "dead" => RowPhase(i)' = "buried"
         /\ rows'[i].status = "running" /\ lease'[i] = Null => RowPhase(i)' = "lost"
         /\ rows'[i].status = "running" /\ lease'[i] # Null => RowPhase(i)' = "taken"
         /\ rows'[i].status = "canceled" => RowPhase(i)' = "canceled"
BY DEF RowPhase

LEMMA PhaseIsOne ==
  \A i \in Ids : RecoveryPhase(i) \in Recovery!Phases
BY PhaseIs, PhaseWillBe DEF RowPhase, Recovery!Phases

LEMMA MoveIs ==
  ASSUME NEW i \in Ids, \A k \in Ids \ {i} : RecoveryPhase(k)' = RecoveryPhase(k)
  PROVE  Recovery!Move(i, RecoveryPhase(i), RecoveryPhase(i)')
BY DEF Recovery!Move

(* A step that keeps a job's place, and nobody else's changes, is no step of  *)
(* the lifecycle.                                                           *)
LEMMA StutterIs ==
  ASSUME \A k \in Ids : RecoveryPhase(k)' = RecoveryPhase(k), runs' = runs
  PROVE  UNCHANGED Recovery!vars
BY DEF Recovery!vars

LEMMA WorkerRefines ==
  ASSUME DurableInv, RowsKnowHands, NEW p \in Workers, WorkerStep(p)
  PROVE  Recovery!RecoveryNext \/ UNCHANGED Recovery!vars
<1>0. /\ \A q \in Workers : at[q] = NoId <=> pc[q] = "idle"
      /\ \A q \in Procs : pc[q] # "idle" => at[q] \in Ids
      /\ NoId \notin Ids /\ pc \in [Procs -> PcValues] /\ Typed
      /\ at \in [Procs -> Ids \cup {NoId}] /\ \A k \in Ids : rows[k] \in Slot
  BY TypesOf, ProcsSplit, DurableAssumption DEF DurableInv
<1>. USE <1>0, ProcsSplit
<1>1. PICK i \in Ids : WorkerMoves(p, i)
  BY WorkerActs
<1>2. /\ OnlyAt(i) /\ late' = late
      /\ \A q \in Workers \ {p} : pc'[q] = pc[q] /\ at'[q] = at[q]
      /\ pc'[p] = "idle" <=> at'[p] = NoId
      /\ i \notin late => \A q \in Workers \ {p} : at[q] # i
      /\ Took(p, i) \/ LeftClaim(p, i) \/ Began(p, i) \/ WentOn(p, i) \/ Ended(p, i)
  BY <1>1 DEF WorkerMoves
<1>3. /\ pc[p] = "idle" \/ at[p] = i
      /\ pc'[p] = "idle" \/ at'[p] = i
  BY <1>2 DEF Took, LeftClaim, Began, WentOn, Ended
<1>4. \A k \in Ids \ {i} : RecoveryPhase(k)' = RecoveryPhase(k)
  <2>. TAKE k \in Ids \ {i}
  <2>1. /\ InClaim(k)' <=> InClaim(k)
        /\ InHandler(k)' <=> InHandler(k)
    <3>1. \A q \in Workers :
            at'[q] = k /\ pc'[q] # "idle" <=> at[q] = k /\ pc[q] # "idle"
      BY <1>2, <1>3
    <3>2. \A q \in Workers : at'[q] = k /\ pc'[q] # "idle" => pc'[q] = pc[q]
      BY <1>2, <1>3
    <3>. QED
      BY <3>1, <3>2 DEF InClaim, InHandler, Started
  <2>2. RowKept(k)
    BY <1>2 DEF OnlyAt, RowKept
  <2>. QED
    BY <1>2, <2>1, <2>2, PhaseKept
<1>5. CASE i \in late
  <2>1. RecoveryPhase(i) = "disputed" /\ RecoveryPhase(i)' = "disputed"
    BY <1>2, <1>5, PhaseIs, PhaseWillBe
  <2>2. \A k \in Ids : RecoveryPhase(k)' = RecoveryPhase(k)
    BY <1>4, <2>1
  <2>3. CASE Began(p, i)
    <3>1. runs' = [runs EXCEPT ![i] = @ + 1]
      BY <2>3 DEF Began
    <3>2. Recovery!TryDisputed(i)
      BY <2>1, <2>2, <3>1 DEF Recovery!TryDisputed
    <3>. QED
      BY <3>2 DEF Recovery!RecoveryNext
  <2>4. CASE ~Began(p, i)
    BY <1>2, <2>2, <2>4, StutterIs DEF Took, LeftClaim, WentOn, Ended
  <2>. QED
    BY <2>3, <2>4
<1>6. CASE i \notin late
  <2>1. /\ InClaim(i) <=> at[p] = i /\ pc[p] = "claimed"
        /\ InHandler(i) <=> at[p] = i /\ pc[p] \in Started
        /\ InClaim(i)' <=> at'[p] = i /\ pc'[p] = "claimed"
        /\ InHandler(i)' <=> at'[p] = i /\ pc'[p] \in Started
    BY <1>2, <1>6 DEF InClaim, InHandler
  <2>2. /\ pc[p] = "idle" => RecoveryPhase(i) = RowPhase(i)
        /\ pc[p] = "claimed" /\ at[p] = i => RecoveryPhase(i) = "taken"
        /\ pc[p] \in Started /\ at[p] = i => RecoveryPhase(i) = "trying"
    BY <1>6, <2>1, PhaseIs, PhaseWillBe DEF Started
  <2>3. /\ pc'[p] = "idle" => RecoveryPhase(i)' = RowPhase(i)'
        /\ pc'[p] = "claimed" /\ at'[p] = i => RecoveryPhase(i)' = "taken"
        /\ pc'[p] \in Started /\ at'[p] = i => RecoveryPhase(i)' = "trying"
    BY <1>2, <1>6, <2>1, PhaseIs, PhaseWillBe DEF Started
  <2>4. Recovery!Move(i, RecoveryPhase(i), RecoveryPhase(i)')
    BY <1>4, MoveIs
  <2>5. ASSUME RecoveryPhase(i)' = RecoveryPhase(i), runs' = runs
        PROVE  UNCHANGED Recovery!vars
    BY <1>4, <2>5, StutterIs
  <2>6. CASE Took(p, i)
    <3>1. RecoveryPhase(i) = "waiting" /\ RecoveryPhase(i)' = "taken" /\ runs' = runs
      BY <2>2, <2>3, <2>6, RowPhaseIs, RowPhaseWillBe DEF Took
    <3>2. Recovery!Take(i)
      BY <2>4, <3>1 DEF Recovery!Take
    <3>. QED
      BY <3>2 DEF Recovery!RecoveryNext, Recovery!Next
  <2>7. CASE LeftClaim(p, i)
    <3>1. RecoveryPhase(i) = "taken" /\ RecoveryPhase(i)' = RowPhase(i)' /\ runs' = runs
      BY <2>2, <2>3, <2>7 DEF LeftClaim
    <3>2. \/ rows[i].status = "canceled"
          \/ rows[i].status = "running" /\ lease[i] # Null
      BY <1>6, <2>7 DEF RowsKnowHands, LeftClaim
    <3>3. RecoveryPhase(i)' \in {"taken", "canceled", "buried", "lost"}
      BY <2>7, <3>1, <3>2, RowPhaseWillBe DEF LeftClaim, RowKept, RowBecomes
    <3>4. /\ RecoveryPhase(i)' = "canceled" => Recovery!Cancel(i)
          /\ RecoveryPhase(i)' = "buried" => Recovery!Refuse(i)
          /\ RecoveryPhase(i)' = "lost" => Recovery!Lose(i)
      BY <2>4, <3>1
      DEF Recovery!Cancel, Recovery!Refuse, Recovery!Lose, Recovery!Phases
    <3>. QED
      BY <2>5, <3>1, <3>3, <3>4 DEF Recovery!RecoveryNext, Recovery!Next
  <2>8. CASE Began(p, i)
    <3>1. /\ RecoveryPhase(i) = "taken" /\ RecoveryPhase(i)' = "trying"
          /\ runs[i] < MaxAttempts /\ runs' = [runs EXCEPT ![i] = @ + 1]
      BY <1>6, <2>2, <2>3, <2>8 DEF Began, Started
    <3>2. Recovery!Try(i)
      BY <2>4, <3>1 DEF Recovery!Try
    <3>. QED
      BY <3>2 DEF Recovery!RecoveryNext, Recovery!Next
  <2>9. CASE WentOn(p, i)
    <3>1. RecoveryPhase(i) = "trying" /\ RecoveryPhase(i)' = "trying" /\ runs' = runs
      BY <2>2, <2>3, <2>9 DEF WentOn, Started
    <3>. QED
      BY <2>5, <3>1
  <2>10. CASE Ended(p, i)
    <3>1. RecoveryPhase(i) = "trying" /\ RecoveryPhase(i)' = RowPhase(i)' /\ runs' = runs
      BY <2>2, <2>3, <2>10 DEF Ended
    <3>2. lease[i] = Null /\ rows[i].status \in {"running", "canceled", "succeeded"}
      BY <1>6, <2>10 DEF RowsKnowHands, Ended
    <3>3. /\ RecoveryPhase(i)' \in {"lost", "canceled", "done", "waiting", "buried"}
          /\ RecoveryPhase(i)' = "waiting" => runs[i] < MaxAttempts
          /\ RecoveryPhase(i)' = "buried" => runs[i] = MaxAttempts
      BY <1>6, <2>10, <3>1, <3>2, RowPhaseWillBe DEF Ended, RowKept, RowBecomes
    <3>4. /\ RecoveryPhase(i)' = "lost" => Recovery!Lose(i)
          /\ RecoveryPhase(i)' = "canceled" => Recovery!Cancel(i)
          /\ RecoveryPhase(i)' = "done" => Recovery!Finish(i)
          /\ RecoveryPhase(i)' = "waiting" => Recovery!GiveBack(i)
          /\ RecoveryPhase(i)' = "buried" => Recovery!Bury(i)
      BY <2>4, <3>1, <3>3
      DEF Recovery!Cancel, Recovery!Finish, Recovery!Lose, Recovery!GiveBack,
          Recovery!Bury, Recovery!Phases
    <3>. QED
      BY <3>3, <3>4 DEF Recovery!RecoveryNext, Recovery!Next
  <2>. QED
    BY <1>2, <2>6, <2>7, <2>8, <2>9, <2>10
<1>. QED
  BY <1>5, <1>6

LEMMA ProducerRefines ==
  ASSUME DurableInv, NEW p \in Producers, ProducerStep(p)
  PROVE  Recovery!RecoveryNext \/ UNCHANGED Recovery!vars
<1>1. PICK i \in Ids : ProducerMoves(i)
  BY ProducerActs
<1>2. \A k \in Ids : /\ InClaim(k)' <=> InClaim(k)
                     /\ InHandler(k)' <=> InHandler(k)
  BY <1>1 DEF ProducerMoves, InClaim, InHandler
<1>3. \A k \in Ids \ {i} : RecoveryPhase(k)' = RecoveryPhase(k)
  <2>. TAKE k \in Ids \ {i}
  <2>1. RowKept(k) /\ late' = late
    BY <1>1 DEF ProducerMoves, OnlyAt, RowKept
  <2>. QED
    BY <1>2, <2>1, PhaseKept
<1>4. ASSUME RecoveryPhase(i)' = RecoveryPhase(i)
      PROVE  UNCHANGED Recovery!vars
  BY <1>1, <1>3, <1>4, StutterIs DEF ProducerMoves
<1>5. Recovery!Move(i, RecoveryPhase(i), RecoveryPhase(i)')
  BY <1>3, MoveIs
<1>6. CASE RowKept(i)
  <2>1. RecoveryPhase(i)' = RecoveryPhase(i)
    BY <1>1, <1>2, <1>6, PhaseKept DEF ProducerMoves
  <2>. QED
    BY <1>4, <2>1
<1>7. CASE i \in late \/ InClaim(i) \/ InHandler(i)
  <2>1. RecoveryPhase(i)' = RecoveryPhase(i)
    BY <1>1, <1>2, <1>7, PhaseIs, PhaseWillBe DEF ProducerMoves
  <2>. QED
    BY <1>4, <2>1
<1>8. CASE i \notin late /\ ~InClaim(i) /\ ~InHandler(i) /\ ~RowKept(i)
  <2>1. RecoveryPhase(i) = RowPhase(i) /\ RecoveryPhase(i)' = RowPhase(i)'
    BY <1>1, <1>2, <1>8, PhaseIs, PhaseWillBe DEF ProducerMoves
  <2>2. CASE rows[i].status = "absent" /\ RowBecomes(i, "queued")
    <3>1. RecoveryPhase(i) = "new" /\ RecoveryPhase(i)' = "waiting"
      BY <2>1, <2>2, RowPhaseIs, RowPhaseWillBe DEF RowBecomes
    <3>2. Recovery!Submit(i)
      BY <1>1, <1>5, <3>1 DEF Recovery!Submit, ProducerMoves
    <3>. QED
      BY <3>2 DEF Recovery!RecoveryNext, Recovery!Next
  <2>3. CASE rows[i].status # "absent" /\ RowBecomes(i, "canceled")
    <3>1. /\ RecoveryPhase(i) \in Recovery!Phases \ {"new", "disputed"}
          /\ RecoveryPhase(i)' = "canceled"
      BY <2>1, <2>3, RowPhaseWillBe DEF RowBecomes, RowPhase, Recovery!Phases
    <3>2. Recovery!Cancel(i)
      BY <1>1, <1>5, <3>1 DEF Recovery!Cancel, ProducerMoves
    <3>. QED
      BY <3>2 DEF Recovery!RecoveryNext
  <2>. QED
    BY <1>1, <1>8, <2>2, <2>3 DEF ProducerMoves
<1>. QED
  BY <1>6, <1>7, <1>8

(* A crash only shows what the row says of the job the process had in hand.   *)
LEMMA CrashRefines ==
  ASSUME DurableInv, RowsKnowHands, NEW p \in Procs, Crash(p)
  PROVE  Recovery!RecoveryNext \/ UNCHANGED Recovery!vars
<1>0. /\ \A q \in Workers : at[q] = NoId <=> pc[q] = "idle"
      /\ \A q \in Procs : pc[q] # "idle" => at[q] \in Ids
      /\ NoId \notin Ids /\ pc \in [Procs -> PcValues] /\ Typed
      /\ at \in [Procs -> Ids \cup {NoId}] /\ \A k \in Ids : rows[k] \in Slot
  BY TypesOf, ProcsSplit, DurableAssumption DEF DurableInv
<1>. USE <1>0, ProcsSplit
<1>1. /\ pc[p] # "idle" /\ UNCHANGED <<rows, lease, late, runs>> /\ pc'[p] = "idle"
      /\ \A q \in Workers \ {p} : pc'[q] = pc[q] /\ at'[q] = at[q]
  BY DEF Crash, Return, Reach
<1>2. PICK i \in Ids : i = at[p]
  BY <1>1
<1>3. \A k \in Ids : RowKept(k)
  BY <1>1 DEF RowKept
<1>4. ASSUME NEW k \in Ids, p \notin Workers \/ k # i
      PROVE  RecoveryPhase(k)' = RecoveryPhase(k)
  <2>1. /\ InClaim(k)' <=> InClaim(k)
        /\ InHandler(k)' <=> InHandler(k)
    <3>1. \A q \in Workers :
            at'[q] = k /\ pc'[q] # "idle" <=> at[q] = k /\ pc[q] # "idle"
      BY <1>1, <1>2, <1>4
    <3>2. \A q \in Workers : at'[q] = k /\ pc'[q] # "idle" => pc'[q] = pc[q]
      BY <1>1, <1>2, <1>4
    <3>. QED
      BY <3>1, <3>2 DEF InClaim, InHandler, Started
  <2>. QED
    BY <1>1, <1>3, <2>1, PhaseKept
<1>5. CASE p \notin Workers \/ i \in late
  <2>1. RecoveryPhase(i)' = RecoveryPhase(i)
    BY <1>1, <1>2, <1>4, <1>5, PhaseIs, PhaseWillBe
  <2>2. \A k \in Ids : RecoveryPhase(k)' = RecoveryPhase(k)
    BY <1>4, <2>1
  <2>. QED
    BY <1>1, <2>2, StutterIs
<1>6. CASE p \in Workers /\ i \notin late
  <2>1. \A q \in Workers \ {p} : at[q] # i
    BY <1>1, <1>2, <1>6 DEF DurableInv, HeldCountsRuns
  <2>2. pc[p] \in {"claimed"} \cup Started
    BY <1>1, <1>6 DEF Typed, Shape, Held, Started
  <2>3. /\ pc[p] = "claimed" => RecoveryPhase(i) = "taken"
        /\ pc[p] \in Started => RecoveryPhase(i) = "trying"
    <3>1. /\ InClaim(i) <=> pc[p] = "claimed"
          /\ InHandler(i) <=> pc[p] \in Started
      BY <1>2, <1>6, <2>1 DEF InClaim, InHandler
    <3>. QED
      BY <1>6, <3>1, PhaseIs, PhaseWillBe DEF Started
  <2>4. RecoveryPhase(i)' = RowPhase(i)'
    <3>1. ~InClaim(i)' /\ ~InHandler(i)'
      BY <1>1, <2>1 DEF InClaim, InHandler, Started
    <3>. QED
      BY <1>1, <1>6, <3>1, PhaseIs, PhaseWillBe
  <2>5. /\ pc[p] = "claimed" =>
             \/ rows[i].status = "canceled"
             \/ rows[i].status = "running" /\ lease[i] # Null
        /\ pc[p] \in Started =>
             lease[i] = Null /\ rows[i].status \in {"running", "canceled", "succeeded"}
    BY <1>2, <1>6 DEF RowsKnowHands
  <2>6. /\ pc[p] = "claimed" => RecoveryPhase(i)' \in {"canceled", "taken"}
        /\ pc[p] \in Started => RecoveryPhase(i)' \in {"lost", "canceled", "done"}
    BY <1>1, <1>2, <2>4, <2>5, RowPhaseWillBe
  <2>7. Recovery!Move(i, RecoveryPhase(i), RecoveryPhase(i)')
    BY <1>2, <1>4, MoveIs
  <2>8. /\ RecoveryPhase(i)' = "canceled" => Recovery!Cancel(i)
        /\ pc[p] \in Started /\ RecoveryPhase(i)' = "lost" => Recovery!Lose(i)
        /\ pc[p] \in Started /\ RecoveryPhase(i)' = "done" => Recovery!Finish(i)
    BY <1>1, <2>2, <2>3, <2>7
    DEF Recovery!Cancel, Recovery!Lose, Recovery!Finish, Recovery!Phases
  <2>9. RecoveryPhase(i)' = RecoveryPhase(i) => UNCHANGED Recovery!vars
    <3>1. RecoveryPhase(i)' = RecoveryPhase(i) =>
            \A k \in Ids : RecoveryPhase(k)' = RecoveryPhase(k)
      BY <1>4
    <3>. QED
      BY <1>1, <3>1, StutterIs
  <2>. QED
    BY <1>2, <2>2, <2>3, <2>6, <2>8, <2>9 DEF Recovery!RecoveryNext, Recovery!Next
<1>. QED
  BY <1>5, <1>6

(* A reclaim is one sweep: a claim that ran out waits again if nobody has it  *)
(* in hand, and is disputed otherwise.                                       *)
LEMMA ReclaimRefines ==
  ASSUME DurableInv, RowsKnowHands, ReclaimExpired
  PROVE  Recovery!Sweep
<1>0. /\ \A q \in Workers : at[q] = NoId <=> pc[q] = "idle"
      /\ \A q \in Procs : pc[q] # "idle" => at[q] \in Ids
      /\ NoId \notin Ids /\ pc \in [Procs -> PcValues] /\ Typed
      /\ at \in [Procs -> Ids \cup {NoId}] /\ \A k \in Ids : rows[k] \in Slot
  BY TypesOf, ProcsSplit, DurableAssumption DEF DurableInv
<1>. USE <1>0, ProcsSplit
<1>1. /\ \A k \in Ids : /\ Expired(k) => rows'[k].status = "queued"
                        /\ ~Expired(k) => rows'[k] = rows[k] /\ lease'[k] = lease[k]
      /\ late' = late \cup {k \in Ids : Expired(k) /\ \E p \in Workers : at[p] = k}
      /\ UNCHANGED <<pc, at, runs>>
  <2>1. \A k \in Ids : rows[k] \in Slot
    OBVIOUS
  <2>. QED
    BY <2>1 DEF ReclaimExpired, Slot
<1>2. \A k \in Ids : /\ InClaim(k)' <=> InClaim(k)
                     /\ InHandler(k)' <=> InHandler(k)
  BY <1>1 DEF InClaim, InHandler
<1>3. ASSUME NEW k \in Ids, ~Expired(k) \/ k \in late
      PROVE  RecoveryPhase(k)' = RecoveryPhase(k)
  <2>1. CASE k \in late
    BY <1>1, <2>1, PhaseIs, PhaseWillBe
  <2>2. CASE ~Expired(k)
    <3>1. RowKept(k) /\ (k \in late' <=> k \in late)
      BY <1>1, <2>2 DEF RowKept
    <3>. QED
      BY <1>2, <3>1, PhaseKept
  <2>. QED
    BY <1>3, <2>1, <2>2
<1>4. ASSUME NEW k \in Ids, Expired(k), k \notin late
      PROVE  RecoveryPhase(k) = "taken" /\ RecoveryPhase(k)' \in {"waiting", "disputed"}
  <2>1. rows[k].status = "running" /\ lease[k] # Null
    BY <1>4 DEF Expired
  <2>2. ~InHandler(k)
    BY <1>4, <2>1 DEF InClaim, InHandler, RowsKnowHands
  <2>3. RecoveryPhase(k) = "taken"
    BY <1>4, <2>1, <2>2, RowPhaseIs, PhaseIs, PhaseWillBe
  <2>4. CASE k \in late'
    BY <2>3, <2>4, PhaseIs, PhaseWillBe
  <2>5. CASE k \notin late'
    <3>1. ~InClaim(k) /\ ~InHandler(k)
      BY <1>1, <1>4, <2>5 DEF InClaim, InHandler
    <3>2. RecoveryPhase(k)' = RowPhase(k)'
      BY <1>2, <2>5, <3>1, PhaseIs, PhaseWillBe
    <3>. QED
      BY <1>1, <1>4, <2>3, <3>2, RowPhaseWillBe
  <2>. QED
    BY <2>4, <2>5
<1>5. \A k \in Ids : RecoveryPhase(k)' \in Recovery!Phases
  BY <1>3, <1>4, PhaseIsOne DEF Recovery!Phases
<1>. QED
  BY <1>1, <1>3, <1>4, <1>5 DEF Recovery!Sweep

LEMMA StepRefines ==
  DurableInv /\ RowsKnowHands /\ [Next]_vars => [Recovery!RecoveryNext]_(Recovery!vars)
<1>. SUFFICES ASSUME DurableInv, RowsKnowHands, [Next]_vars
              PROVE  Recovery!RecoveryNext \/ UNCHANGED Recovery!vars
  OBVIOUS
<1>1. CASE \E p \in Producers : ProducerStep(p)
  BY <1>1, ProducerRefines
<1>2. CASE \E p \in Workers : WorkerStep(p)
  BY <1>2, WorkerRefines
<1>3. CASE \E p \in Procs : Crash(p)
  BY <1>3, CrashRefines
<1>4. CASE ReclaimExpired
  BY <1>4, ReclaimRefines DEF Recovery!RecoveryNext
<1>5. CASE Tick \/ UNCHANGED vars
  <2>1. UNCHANGED <<rows, lease, pc, at, late, runs>>
    BY <1>5 DEF Tick, vars
  <2>2. \A k \in Ids : RecoveryPhase(k)' = RecoveryPhase(k)
    BY <2>1, PhaseIs, PhaseWillBe DEF RowPhase, InClaim, InHandler
  <2>. QED
    BY <2>1, <2>2, StutterIs
<1>. QED
  BY <1>1, <1>2, <1>3, <1>4, <1>5 DEF Next

LEMMA InitRefines == Init => Recovery!Init
<1>. SUFFICES ASSUME Init PROVE Recovery!Init
  OBVIOUS
<1>1. \A k \in Ids : RecoveryPhase(k) = "new"
  <2>. TAKE k \in Ids
  <2>1. rows[k].status = "absent" /\ k \notin late
    BY DEF Init, Absent
  <2>2. ~InClaim(k) /\ ~InHandler(k)
    BY ProcsSplit DEF Init, InClaim, InHandler, Started
  <2>. QED
    BY <2>1, <2>2, RowPhaseIs, PhaseIs, PhaseWillBe
<1>. QED
  BY <1>1 DEF Init, Recovery!Init

-----------------------------------------------------------------------------
(* The lease column is set by claimNext and cleared by the first upsert, so a  *)
(* row that carries a lease has not begun the attempt it was claimed for:      *)
(* reclaimExpired, which queues it again, never takes a job from a handler     *)
(* that is under way and never costs the job an attempt.                       *)
THEOREM LeasesAreUnstarted == Spec => []LeaseMeansNotStarted
<1>1. DurableInv /\ RowsKnowHands => LeaseMeansNotStarted
  BY DEF DurableInv, RowsKnowHands, StartedHaveNoLease, LeaseMeansNotStarted
<1>. QED
  BY <1>1, AlwaysKnows, PTL

(* Crashes, lost answers, failed statements, cancels and reclaims do not give  *)
(* a job to two live workers, for any number of them; the one exception is a   *)
(* job reclaimed from a live worker that was slower than its lease.            *)
THEOREM ExclusiveHandling == Spec => []HandlersExclusive
<1>1. DurableInv => HandlersExclusive
  BY DEF DurableInv, HeldCountsRuns, HandlersExclusive, Holds, Started
<1>. QED
  BY <1>1, AlwaysDurable, PTL

(* In every state the table is sound: rows of their types, one row per         *)
(* idempotency key whatever producers race for it, and no job begun more often *)
(* than maxAttempts, under the same exception.                                 *)
THEOREM StoreStaysSound == Spec => []StoreIsSound
<1>1. DurableInv => StoreIsSound
  BY DEF DurableInv, Typed, RowsCountRuns, RunsWithinBudget, StoreIsSound
<1>. QED
  BY <1>1, AlwaysDurable, PTL

(* The durable queue keeps JobRecovery's promise through crashes between any   *)
(* two statements, statements that fail with or without effect, cancels and    *)
(* reclaims, for any number of jobs, producers and workers, any lease and any  *)
(* retry options: a started attempt is never given to a second worker, a lost  *)
(* job is never run again, a result is undone only by a cancel, and only a     *)
(* claim that ran out before its live worker started it escapes the lifecycle. *)
THEOREM DurableImplementsRecovery == Spec => ImplementsRecovery
<1>1. [](DurableInv /\ RowsKnowHands) /\ [][Next]_vars
        => [][Recovery!RecoveryNext]_(Recovery!vars)
  BY StepRefines, PTL
<1>. QED
  BY <1>1, InitRefines, AlwaysKnows, PTL DEF Spec, ImplementsRecovery, Recovery!RecoverySpec
=============================================================================
