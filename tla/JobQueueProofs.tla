--------------------------- MODULE JobQueueProofs ---------------------------
(***************************************************************************)
(* Theorems about JobQueue, for every set of ids, callers and workers and  *)
(* every value of the other constants.                                     *)
(***************************************************************************)
EXTENDS JobQueue, FiniteSetTheorems, TLAPS

-----------------------------------------------------------------------------
(* The pure functions keep records records. *)

LEMMA BackoffIsNat == ASSUME NEW n \in Nat PROVE CalculateBackoffMs(n) \in Nat
<1> DEFINE v == CASE Strategy = "fixed"       -> BackoffMs
                  [] Strategy = "linear"      -> BackoffMs * n
                  [] Strategy = "exponential" -> BackoffMs * 2 ^ (n - 1)
<1>1. v \in Int
  <2>1. CASE Strategy = "fixed"
    BY <2>1, RetryAssumption
  <2>2. CASE Strategy = "linear"
    BY <2>2, RetryAssumption
  <2>3. CASE Strategy = "exponential"
    <3>1. 2 ^ (n - 1) \in Int
      OBVIOUS
    <3>. QED
      BY <2>3, <3>1, RetryAssumption
  <2>. QED
    BY <2>1, <2>2, <2>3, RetryAssumption
<1>. HIDE DEF v
<1>2. AtLeastZero(IF v <= MaxBackoffMs THEN v ELSE MaxBackoffMs) \in Nat
  BY <1>1, RetryAssumption DEF AtLeastZero
<1>. QED
  BY <1>2 DEF CalculateBackoffMs, v

LEMMA AbsentIsSlot == Absent \in Slot
BY DEF Absent, Slot

LEMMA RecordsStaySlots ==
  ASSUME NEW job \in Slot, NEW t \in Nat, NEW r \in Nat
  PROVE  /\ CreateJobRecord(t, r) \in Slot
         /\ Claimed(job) \in Slot
         /\ Running(job) \in Slot
         /\ Succeeded(job) \in Slot
         /\ CreateFailedJobRecord(job, t) \in Slot
         /\ Unknown(job) \in Slot
         /\ Canceled(job) \in Slot
         /\ Requeued(job, t) \in Slot
<1>0. job.attempts \in Nat /\ job.attempts + 1 \in Nat /\ job.hist + 1 \in Nat
  BY DEF Slot
<1>1. CreateFailedJobRecord(job, t) \in Slot
  <2>1. t + CalculateBackoffMs(job.attempts) \in Nat
    BY <1>0, BackoffIsNat
  <2> DEFINE b == t + CalculateBackoffMs(job.attempts)
             h == job.hist + 1
  <2>2. b \in Nat /\ h \in Nat
    BY <1>0, <2>1
  <2>. HIDE DEF b, h
  <2>3. [job EXCEPT !.status = "queued", !.hist = h, !.runAt = b] \in Slot
    BY <2>2 DEF Slot, Statuses
  <2>4. [job EXCEPT !.status = "dead", !.hist = h] \in Slot
    BY <2>2 DEF Slot, Statuses
  <2>. QED
    BY <2>3, <2>4 DEF CreateFailedJobRecord, b, h
<1>2. CreateJobRecord(t, r) \in Slot
  BY DEF CreateJobRecord, Slot, Statuses
<1>3. Running(job) \in Slot /\ Succeeded(job) \in Slot
  BY <1>0 DEF Running, Succeeded, Slot, Statuses
<1>4. Claimed(job) \in Slot /\ Unknown(job) \in Slot /\ Canceled(job) \in Slot
  BY DEF Claimed, Unknown, Canceled, Slot, Statuses
<1>5. Requeued(job, t) \in Slot
  BY DEF Requeued, Slot, Statuses
<1>. QED
  BY <1>1, <1>2, <1>3, <1>4, <1>5

(* The eviction leaves a record alone or removes it. *)
LEMMA EvictionDropsOrKeeps ==
  ASSUME NEW s \in [Ids -> Slot], NEW m
  PROVE  /\ EvictOverflowJobs(s, m) \in [Ids -> Slot]
         /\ \A i \in Ids : EvictOverflowJobs(s, m)[i] \in {s[i], Absent}
BY AbsentIsSlot DEF EvictOverflowJobs

-----------------------------------------------------------------------------
(* evictOverflowJobs.  The eviction order is a strict total order, so the     *)
(* number of records that go before a record is different for each of them.   *)
EvictRank(s, i) == Cardinality({k \in Present(s) : EvictedBefore(s, k, i)})

LEMMA PresentFinite ==
  ASSUME NEW s
  PROVE  /\ Present(s) \subseteq Ids
         /\ IsFiniteSet(Present(s))
         /\ Cardinality(Present(s)) \in Nat
<1>1. Present(s) \in SUBSET Ids
  BY DEF Present
<1>. QED
  BY <1>1, FS_Subset, FS_CardinalityType, RetryAssumption

LEMMA EvictionOrder ==
  ASSUME NEW s \in [Ids -> Slot], NEW a \in Ids, NEW b \in Ids, NEW c \in Ids
  PROVE  /\ ~EvictedBefore(s, a, a)
         /\ a # b => EvictedBefore(s, a, b) \/ EvictedBefore(s, b, a)
         /\ EvictedBefore(s, a, b) /\ EvictedBefore(s, b, c) => EvictedBefore(s, a, c)
<1>1. /\ a \in Nat /\ b \in Nat /\ c \in Nat
      /\ s[a].createdAt \in Nat /\ s[b].createdAt \in Nat /\ s[c].createdAt \in Nat
  BY RetryAssumption DEF Slot
<1>2. /\ ~CreatedBefore(s, a, a)
      /\ a # b => CreatedBefore(s, a, b) \/ CreatedBefore(s, b, a)
      /\ CreatedBefore(s, a, b) /\ CreatedBefore(s, b, c) => CreatedBefore(s, a, c)
  BY <1>1 DEF CreatedBefore
<1> DEFINE t(x) == IsTerminalJobStatus(s[x].status)
<1>3. t(a) \in BOOLEAN /\ t(b) \in BOOLEAN /\ t(c) \in BOOLEAN
  BY DEF IsTerminalJobStatus
<1>4. ASSUME NEW x \in Ids, NEW y \in Ids
      PROVE EvictedBefore(s, x, y) <=> (t(x) /\ ~t(y)) \/ (t(x) = t(y) /\ CreatedBefore(s, x, y))
  BY DEF EvictedBefore
<1>. HIDE DEF t
<1>. QED
  BY <1>2, <1>3, <1>4, Zenon

LEMMA RankGrows ==
  ASSUME NEW s \in [Ids -> Slot], NEW a \in Present(s), NEW b \in Present(s),
         EvictedBefore(s, a, b)
  PROVE  EvictRank(s, a) < EvictRank(s, b)
<1> DEFINE A == {k \in Present(s) : EvictedBefore(s, k, a)}
           B == {k \in Present(s) : EvictedBefore(s, k, b)}
<1>1. A \in SUBSET B /\ a \in B /\ a \notin A
  BY PresentFinite, EvictionOrder
<1>2. IsFiniteSet(B) /\ B \in SUBSET Present(s)
  BY PresentFinite, FS_Subset
<1>3. Cardinality(A) <= Cardinality(B) /\ Cardinality(A) # Cardinality(B)
      /\ IsFiniteSet(A)
  BY <1>1, <1>2, FS_Subset
<1>4. Cardinality(A) \in Nat /\ Cardinality(B) \in Nat
  BY <1>2, <1>3, FS_CardinalityType
<1>. QED
  BY <1>3, <1>4 DEF EvictRank

LEMMA RankBounded ==
  ASSUME NEW s \in [Ids -> Slot], NEW a \in Present(s)
  PROVE  EvictRank(s, a) \in 0 .. (Cardinality(Present(s)) - 1)
<1> DEFINE A == {k \in Present(s) : EvictedBefore(s, k, a)}
<1>1. A \in SUBSET Present(s) /\ a \notin A
  BY PresentFinite, EvictionOrder
<1>2. Cardinality(A) <= Cardinality(Present(s)) /\ IsFiniteSet(A)
      /\ Cardinality(A) # Cardinality(Present(s))
  BY <1>1, PresentFinite, FS_Subset
<1>3. Cardinality(A) \in Nat /\ Cardinality(Present(s)) \in Nat
  BY <1>2, PresentFinite, FS_CardinalityType
<1>. QED
  BY <1>2, <1>3 DEF EvictRank

(* evictOverflowJobs leaves at most maxJobs records, whatever was stored. *)
LEMMA EvictionBounds ==
  ASSUME NEW s \in [Ids -> Slot], NEW m \in Nat
  PROVE  Cardinality(Present(EvictOverflowJobs(s, m))) <= m
<1> DEFINE K == Present(EvictOverflowJobs(s, m))
           n == Cardinality(Present(s))
<1>0. n \in Nat
  BY PresentFinite
<1>1. K \in SUBSET Present(s)
      /\ \A i \in K : EvictRank(s, i) >= n - m
  <2>1. \A i \in Ids : i \in K <=> i \in Present(s) /\ i \notin Overflow(s, m)
    BY DEF EvictOverflowJobs, Present, Absent
  <2>2. \A i \in Present(s) : i \notin Overflow(s, m) => ~(EvictRank(s, i) < n - m)
    BY PresentFinite DEF Overflow, EvictRank
  <2>3. \A i \in Present(s) : EvictRank(s, i) \in Int
    BY <1>0, RankBounded
  <2>4. K \subseteq Ids
    BY PresentFinite
  <2>. HIDE DEF K, n
  <2>5. K \subseteq Present(s)
    BY <2>1, <2>4
  <2>6. \A i \in K : EvictRank(s, i) >= n - m
    BY <1>0, <2>1, <2>2, <2>3, <2>4
  <2>. QED
    BY <2>5, <2>6
<1>2. CASE n <= m
  <2>1. Cardinality(K) <= n /\ IsFiniteSet(K)
    BY <1>1, PresentFinite, FS_Subset
  <2>2. Cardinality(K) \in Nat
    BY <2>1, FS_CardinalityType
  <2>. QED
    BY <1>0, <1>2, <2>1, <2>2
<1>3. CASE n > m
  <2> DEFINE T == (n - m) .. (n - 1)
             f == [i \in K |-> EvictRank(s, i)]
  <2>1. IsFiniteSet(T) /\ Cardinality(T) = m
    <3>1. n - m \in Int /\ n - 1 \in Int
      BY <1>0
    <3>2. /\ IsFiniteSet(T)
          /\ Cardinality(T) = IF n - m > n - 1 THEN 0 ELSE (n - 1) - (n - m) + 1
      BY <3>1, FS_Interval
    <3>. QED
      BY <1>0, <3>2
  <2>2. f \in [K -> T]
    BY <1>0, <1>1, RankBounded
  <2>3. \A i, j \in K : f[i] = f[j] => i = j
    <3>. SUFFICES ASSUME NEW i \in K, NEW j \in K, i # j
                  PROVE  EvictRank(s, i) # EvictRank(s, j)
      OBVIOUS
    <3>1. i \in Present(s) /\ j \in Present(s) /\ i \in Ids /\ j \in Ids
      BY <1>1, PresentFinite
    <3>2. EvictedBefore(s, i, j) \/ EvictedBefore(s, j, i)
      BY <3>1, EvictionOrder
    <3>3. EvictRank(s, i) < EvictRank(s, j) \/ EvictRank(s, j) < EvictRank(s, i)
      BY <3>1, <3>2, RankGrows
    <3>4. EvictRank(s, i) \in Int /\ EvictRank(s, j) \in Int
      BY <1>0, <3>1, RankBounded
    <3>. QED
      BY <3>3, <3>4
  <2>4. f \in Injection(K, T)
    BY <2>2, <2>3 DEF Injection, IsInjective
  <2>5. Cardinality(K) <= Cardinality(T)
    BY <2>1, <2>4, FS_Injection
  <2>. QED
    BY <2>1, <2>5
<1>. QED
  BY <1>0, <1>2, <1>3

(* When the store is within its limit nothing is evicted. *)
LEMMA NoOverflow ==
  ASSUME NEW s \in [Ids -> Slot], NEW m \in Nat, Cardinality(Present(s)) <= m
  PROVE  EvictOverflowJobs(s, m) = s
<1>1. \A i \in Present(s) : EvictRank(s, i) \in Nat
  BY PresentFinite, RankBounded
<1>2. Overflow(s, m) = {}
  BY <1>1, PresentFinite DEF Overflow, EvictRank
<1>. QED
  BY <1>2 DEF EvictOverflowJobs

(* A live record is evicted only together with every finished one. *)
LEMMA LiveGoLast ==
  ASSUME NEW s \in [Ids -> Slot], NEW m \in Nat, NEW i \in Ids, NEW k \in Ids,
         IsLive(s[i]), EvictOverflowJobs(s, m)[i] = Absent,
         IsTerminalJobStatus(s[k].status)
  PROVE  EvictOverflowJobs(s, m)[k] = Absent
<1>1. i \in Present(s) /\ k \in Present(s) /\ EvictedBefore(s, k, i)
  BY DEF IsLive, IsTerminalJobStatus, Present, EvictedBefore
<1>2. i \in Overflow(s, m)
  BY DEF EvictOverflowJobs, IsLive, Absent
<1>3. EvictRank(s, i) < Cardinality(Present(s)) - m
  BY <1>2 DEF Overflow, EvictRank
<1>4. EvictRank(s, k) < EvictRank(s, i)
  BY <1>1, RankGrows
<1>5. EvictRank(s, k) \in Int /\ EvictRank(s, i) \in Int /\ Cardinality(Present(s)) \in Int
  BY <1>1, PresentFinite, RankBounded
<1>6. EvictRank(s, k) < Cardinality(Present(s)) - m
  BY <1>3, <1>4, <1>5
<1>. QED
  BY <1>1, <1>6 DEF Overflow, EvictRank, EvictOverflowJobs

-----------------------------------------------------------------------------
(* What a store operation does to the Map. *)
LEMMA PutEffect ==
  ASSUME NEW i \in Ids, NEW job \in Slot, store \in [Ids -> Slot],
         older \in SUBSET (Ids \X Ids), Put(i, job)
  PROVE  /\ store' \in [Ids -> Slot]
         /\ older' \in SUBSET (Ids \X Ids)
         /\ store'[i] \in {job, Absent}
         /\ \A k \in Ids \ {i} : store'[k] \in {store[k], Absent}
<1>1. [store EXCEPT ![i] = job] \in [Ids -> Slot]
  OBVIOUS
<1>. QED
  BY <1>1, EvictionDropsOrKeeps DEF Put, Present

-----------------------------------------------------------------------------
(* Every call that stands at an await has a job in hand. *)
Shape ==
  /\ \A p \in Procs : pc[p] = "idle" <=> at[p] = NoId
  /\ \A p \in Workers : pc[p] \in {"idle", "claimed", "running"}
  /\ \A p \in Clients : pc[p] \in {"idle", "enqueue", "cancel", "retry"}
  /\ \A p \in Clients : pc[p] = "cancel" => "cancel" \in Ops
  /\ \A p \in Clients : pc[p] = "retry" => "retry" \in Ops

Typed == TypeOK /\ Shape

LEMMA ProcsSplit == /\ Clients \subseteq Procs /\ Workers \subseteq Procs
                    /\ Clients \cap Workers = {}
BY QueueAssumption DEF Procs

LEMMA InitTyped == Init => Typed
<1>. SUFFICES ASSUME Init PROVE Typed
  OBVIOUS
<1>1. store \in [Ids -> Slot]
  <2>1. CreateJobRecord(0, 0) \in Slot
    BY AbsentIsSlot, RecordsStaySlots
  <2>. QED
    BY <2>1, AbsentIsSlot DEF Init
<1>2. older \in SUBSET (Ids \X Ids)
  BY QueueAssumption DEF Init
<1>. QED
  BY <1>1, <1>2, AbsentIsSlot, ProcsSplit, QueueAssumption
  DEF Init, Typed, TypeOK, Shape, PcValues

LEMMA ReachTyped ==
  ASSUME Typed, NEW p \in Procs, NEW where \in PcValues,
         NEW i \in Ids \cup {NoId}, NEW job \in Slot, Reach(p, where, i, job)
  PROVE  /\ pc' \in [Procs -> PcValues]
         /\ at' \in [Procs -> Ids \cup {NoId}]
         /\ copy' \in [Procs -> Slot]
BY DEF Reach, Typed, TypeOK

LEMMA ClientTyped ==
  ASSUME Typed, NEW p \in Clients, ClientStep(p)
  PROVE  Typed'
<1>. USE ProcsSplit, QueueAssumption
<1>. p \in Procs
  OBVIOUS
<1>1. ASSUME NEW i \in Ids, NEW delay \in Delays, EnqueueUnkeyed(p, i, delay)
      PROVE  Typed'
  <2>0. now \in Nat /\ now + delay \in Nat
    BY DEF Typed, TypeOK
  <2>1. CreateJobRecord(now, now + delay) \in Slot
    BY <2>0, AbsentIsSlot, RecordsStaySlots
  <2>2. store' \in [Ids -> Slot] /\ older' \in SUBSET (Ids \X Ids)
    BY <1>1, <2>1, PutEffect DEF EnqueueUnkeyed, Typed, TypeOK
  <2>. QED
    BY <1>1, <2>2 DEF EnqueueUnkeyed, TakeId, Typed, TypeOK, Shape
<1>2. ASSUME NEW i \in Ids, EnqueueFind(p, i)
      PROVE  Typed'
  BY <1>2, AbsentIsSlot DEF EnqueueFind, TakeId, Reach, Typed, TypeOK, Shape, PcValues
<1>3. ASSUME NEW i \in Ids, CancelGet(p, i)
      PROVE  Typed'
  BY <1>3 DEF CancelGet, Reach, Typed, TypeOK, Shape, PcValues
<1>4. ASSUME NEW i \in Ids, RetryGet(p, i)
      PROVE  Typed'
  BY <1>4 DEF RetryGet, Reach, Typed, TypeOK, Shape, PcValues
<1>5. ASSUME NEW i \in Ids, Delete(p, i)
      PROVE  Typed'
  BY <1>5, AbsentIsSlot DEF Delete, Typed, TypeOK, Shape
<1>6. ASSUME pc[p] # "idle" PROVE at[p] \in Ids
  BY <1>6 DEF Typed, TypeOK, Shape
<1>7. ASSUME NEW delay \in Delays, EnqueueStore(p, delay)
      PROVE  Typed'
  <2>0. now \in Nat /\ now + delay \in Nat
    BY DEF Typed, TypeOK
  <2>1. CreateJobRecord(now, now + delay) \in Slot
    BY <2>0, AbsentIsSlot, RecordsStaySlots
  <2>2. at[p] \in Ids
    BY <1>6, <1>7 DEF EnqueueStore
  <2>3. store' \in [Ids -> Slot] /\ older' \in SUBSET (Ids \X Ids)
    BY <1>7, <2>1, <2>2, PutEffect DEF EnqueueStore, Typed, TypeOK
  <2>. QED
    BY <1>7, <2>3, AbsentIsSlot
    DEF EnqueueStore, Return, Reach, Typed, TypeOK, Shape, PcValues
<1>8. CASE CancelUpdate(p)
  <2>1. Canceled(copy[p]) \in Slot
    BY AbsentIsSlot, RecordsStaySlots DEF Typed, TypeOK
  <2>2. at[p] \in Ids
    BY <1>6, <1>8 DEF CancelUpdate
  <2>3. store' \in [Ids -> Slot] /\ older' \in SUBSET (Ids \X Ids)
    BY <1>8, <2>1, <2>2, PutEffect DEF CancelUpdate, Typed, TypeOK
  <2>. QED
    BY <1>8, <2>3, AbsentIsSlot
    DEF CancelUpdate, Return, Reach, Typed, TypeOK, Shape, PcValues
<1>9. CASE RetryUpdate(p)
  <2>1. Requeued(copy[p], now) \in Slot
    BY AbsentIsSlot, RecordsStaySlots DEF Typed, TypeOK
  <2>2. at[p] \in Ids
    BY <1>6, <1>9 DEF RetryUpdate
  <2>3. store' \in [Ids -> Slot] /\ older' \in SUBSET (Ids \X Ids)
    BY <1>9, <2>1, <2>2, PutEffect DEF RetryUpdate, Typed, TypeOK
  <2>. QED
    BY <1>9, <2>3, AbsentIsSlot
    DEF RetryUpdate, Return, Reach, Typed, TypeOK, Shape, PcValues
<1>. QED
  BY <1>1, <1>2, <1>3, <1>4, <1>5, <1>7, <1>8, <1>9 DEF ClientStep

LEMMA WorkerTyped ==
  ASSUME Typed, NEW p \in Workers, WorkerStep(p)
  PROVE  Typed'
<1>. USE ProcsSplit
<1>. p \in Procs
  OBVIOUS
<1>0. copy[p] \in Slot /\ now \in Nat
  BY DEF Typed, TypeOK
<1>1. CASE Claim(p)
  <2>1. PICK i \in Ids :
          /\ store' = [store EXCEPT ![i] = Claimed(@)]
          /\ Reach(p, "claimed", i, Claimed(store[i]))
    BY <1>1 DEF Claim, NextToClaim, Ready
  <2>2. Claimed(store[i]) \in Slot
    BY RecordsStaySlots DEF Typed, TypeOK
  <2>. QED
    BY <1>1, <2>1, <2>2, QueueAssumption
    DEF Claim, Reach, Typed, TypeOK, Shape, PcValues
<1>2. ASSUME pc[p] # "idle" PROVE at[p] \in Ids
  BY <1>2 DEF Typed, TypeOK, Shape
<1>3. CASE RejectUnknown(p)
  <2>1. at[p] \in Ids /\ Unknown(copy[p]) \in Slot
    BY <1>0, <1>2, <1>3, RecordsStaySlots DEF RejectUnknown
  <2>2. store' \in [Ids -> Slot] /\ older' \in SUBSET (Ids \X Ids)
    BY <1>3, <2>1, PutEffect DEF RejectUnknown, Typed, TypeOK
  <2>. QED
    BY <1>3, <2>2, AbsentIsSlot, QueueAssumption
    DEF RejectUnknown, Return, Reach, Typed, TypeOK, Shape, PcValues
<1>4. CASE StartHandler(p)
  <2>1. at[p] \in Ids /\ Running(copy[p]) \in Slot
    BY <1>0, <1>2, <1>4, RecordsStaySlots DEF StartHandler
  <2>2. store' \in [Ids -> Slot] /\ older' \in SUBSET (Ids \X Ids)
    BY <1>4, <2>1, PutEffect DEF StartHandler, Typed, TypeOK
  <2>3. runs' \in [Ids -> Nat]
    BY <1>4, <2>1 DEF StartHandler, Typed, TypeOK
  <2>. QED
    BY <1>4, <2>1, <2>2, <2>3, QueueAssumption
    DEF StartHandler, Reach, Typed, TypeOK, Shape, PcValues
<1>5. CASE FinishHandler(p)
  <2>1. at[p] \in Ids /\ Succeeded(copy[p]) \in Slot
        /\ CreateFailedJobRecord(copy[p], now) \in Slot
    BY <1>0, <1>2, <1>5, RecordsStaySlots
    DEF FinishHandler, HandlerSucceeds, HandlerFails
  <2>2. store' \in [Ids -> Slot] /\ older' \in SUBSET (Ids \X Ids)
    BY <1>5, <2>1, PutEffect
    DEF FinishHandler, HandlerSucceeds, HandlerFails, Typed, TypeOK
  <2>3. Return(p) /\ UNCHANGED <<now, used, revived, runs>>
    BY <1>5 DEF FinishHandler, HandlerSucceeds, HandlerFails
  <2>. QED
    BY <2>2, <2>3, AbsentIsSlot, QueueAssumption
    DEF Return, Reach, Typed, TypeOK, Shape, PcValues
<1>. QED
  BY <1>1, <1>3, <1>4, <1>5 DEF WorkerStep

LEMMA NextTyped == Typed /\ [Next]_vars => Typed'
<1>. SUFFICES ASSUME Typed, [Next]_vars PROVE Typed'
  OBVIOUS
<1>1. CASE \E p \in Clients : ClientStep(p)
  BY <1>1, ClientTyped
<1>2. CASE \E p \in Workers : WorkerStep(p)
  BY <1>2, WorkerTyped
<1>3. CASE Tick
  BY <1>3 DEF Tick, Typed, TypeOK, Shape
<1>4. CASE UNCHANGED vars
  BY <1>4 DEF vars, Typed, TypeOK, Shape
<1>. QED
  BY <1>1, <1>2, <1>3, <1>4 DEF Next

(* Every reachable state of the queue has the types its variables declare:  *)
(* no operation stores a record that normalizeJobRecord would refuse.       *)
THEOREM TypeCorrect == Spec => []TypeOK
<1>1. Typed => TypeOK
  BY DEF Typed
<1>. QED
  BY <1>1, InitTyped, NextTyped, PTL DEF Spec

LEMMA AlwaysTyped == Spec => []Typed
BY InitTyped, NextTyped, PTL DEF Spec

-----------------------------------------------------------------------------
(* Whoever writes "running" is still going to write an outcome over it.      *)

LEMMA InitOwned == Init => RunningHasOwner
BY DEF Init, RunningHasOwner, CreateJobRecord, Absent

LEMMA NextOwned == Typed /\ RunningHasOwner /\ [Next]_vars => RunningHasOwner'
<1>. SUFFICES ASSUME Typed, RunningHasOwner, [Next]_vars,
                     NEW k \in Ids, store'[k].status = "running"
              PROVE  \E p \in Workers : Holds(p, k)'
  BY DEF RunningHasOwner
<1>. USE ProcsSplit, QueueAssumption
<1>1. ASSUME store[k].status = "running" PROVE \E p \in Workers : Holds(p, k)
  BY <1>1 DEF RunningHasOwner
<1>2. CASE \E p \in Clients : ClientStep(p)
  <2>. PICK p \in Clients : ClientStep(p)
    BY <1>2
  <2>1. \A q \in Workers : pc'[q] = pc[q] /\ at'[q] = at[q]
    BY DEF ClientStep, EnqueueUnkeyed, EnqueueFind, EnqueueStore, CancelGet,
           CancelUpdate, RetryGet, RetryUpdate, Delete, Return, Reach, Typed, TypeOK
  <2>2. store[k].status = "running"
    <3>0. pc[p] # "idle" => at[p] \in Ids
      BY DEF Typed, TypeOK, Shape
    <3>1. ASSUME NEW i \in Ids, NEW job \in Slot, Put(i, job),
                 job.status # "running"
          PROVE  store[k].status = "running"
      <4>1. store'[i] \in {job, Absent}
            /\ \A j \in Ids \ {i} : store'[j] \in {store[j], Absent}
        BY <3>1, PutEffect DEF Typed, TypeOK
      <4>. QED
        BY <3>1, <4>1 DEF Absent
    <3>2. ASSUME NEW i \in Ids, NEW delay \in Delays,
                 Put(i, CreateJobRecord(now, now + delay))
          PROVE  store[k].status = "running"
      <4>0. now \in Nat /\ delay \in Nat
        BY DEF Typed, TypeOK
      <4>1. now + delay \in Nat
        BY <4>0
      <4>2. CreateJobRecord(now, now + delay) \in Slot
        BY <4>0, <4>1, AbsentIsSlot, RecordsStaySlots
      <4>3. CreateJobRecord(now, now + delay).status # "running"
        BY DEF CreateJobRecord
      <4>. QED
        BY <3>1, <3>2, <4>2, <4>3
    <3>3. /\ Canceled(copy[p]) \in Slot /\ Canceled(copy[p]).status # "running"
          /\ Requeued(copy[p], now) \in Slot
          /\ Requeued(copy[p], now).status # "running"
      <4>1. copy[p] \in Slot /\ now \in Nat
        BY DEF Typed, TypeOK
      <4>. QED
        BY <4>1, RecordsStaySlots DEF Canceled, Requeued, Slot
    <3>4. CASE \E i \in Ids, delay \in Delays : EnqueueUnkeyed(p, i, delay)
      BY <3>2, <3>4 DEF EnqueueUnkeyed
    <3>5. CASE \E delay \in Delays : EnqueueStore(p, delay)
      BY <3>0, <3>2, <3>5 DEF EnqueueStore
    <3>6. CASE CancelUpdate(p)
      BY <3>0, <3>1, <3>3, <3>6 DEF CancelUpdate
    <3>7. CASE RetryUpdate(p)
      BY <3>0, <3>1, <3>3, <3>7 DEF RetryUpdate
    <3>8. CASE \E i \in Ids : Delete(p, i)
      BY <3>8 DEF Delete, Absent, Typed, TypeOK
    <3>9. CASE \E i \in Ids : EnqueueFind(p, i) \/ CancelGet(p, i) \/ RetryGet(p, i)
      BY <3>9 DEF EnqueueFind, CancelGet, RetryGet
    <3>. QED
      BY <3>4, <3>5, <3>6, <3>7, <3>8, <3>9 DEF ClientStep
  <2>. QED
    BY <1>1, <2>1, <2>2 DEF Holds
<1>3. CASE \E p \in Workers : WorkerStep(p)
  <2>. PICK p \in Workers : WorkerStep(p)
    BY <1>3
  <2>0. (pc[p] # "idle" => at[p] \in Ids) /\ copy[p] \in Slot /\ now \in Nat
    BY DEF Typed, TypeOK, Shape
  <2>1. ASSUME NEW q \in Workers \ {p}
        PROVE  pc'[q] = pc[q] /\ at'[q] = at[q]
    BY DEF WorkerStep, Claim, RejectUnknown, StartHandler, FinishHandler,
           HandlerSucceeds, HandlerFails, Return, Reach, Typed, TypeOK
  <2>2. CASE Claim(p)
    <3>1. PICK i \in Ids : /\ store' = [store EXCEPT ![i] = Claimed(@)]
                           /\ Reach(p, "claimed", i, Claimed(store[i]))
      BY <2>2 DEF Claim, NextToClaim, Ready
    <3>2. CASE k = i
      BY <3>1, <3>2 DEF Reach, Holds, Typed, TypeOK
    <3>3. CASE k # i
      <4>1. PICK q \in Workers : Holds(q, k)
        BY <1>1, <3>1, <3>3 DEF Typed, TypeOK
      <4>2. q # p
        BY <2>2, <4>1 DEF Claim, Holds
      <4>. QED
        BY <2>1, <4>1, <4>2 DEF Holds
    <3>. QED
      BY <3>2, <3>3
  <2>3. CASE StartHandler(p)
    <3>1. CASE k = at[p]
      BY <2>3, <3>1 DEF StartHandler, Reach, Holds, Typed, TypeOK
    <3>2. CASE k # at[p]
      <4>1. Running(copy[p]) \in Slot /\ at[p] \in Ids
        BY <2>0, <2>3, RecordsStaySlots DEF StartHandler
      <4>2. store'[k] \in {store[k], Absent}
        BY <2>3, <3>2, <4>1, PutEffect DEF StartHandler, Typed, TypeOK
      <4>3. PICK q \in Workers : Holds(q, k)
        BY <1>1, <4>2 DEF Absent
      <4>4. q # p
        BY <3>2, <4>3 DEF Holds
      <4>. QED
        BY <2>1, <4>3, <4>4 DEF Holds
    <3>. QED
      BY <3>1, <3>2
  <2>4. ASSUME NEW job \in Slot, job.status # "running", pc[p] # "idle",
               Put(at[p], job)
        PROVE  \E q \in Workers : Holds(q, k)'
    <3>1. store'[at[p]] \in {job, Absent}
          /\ \A j \in Ids \ {at[p]} : store'[j] \in {store[j], Absent}
      BY <2>0, <2>4, PutEffect DEF Typed, TypeOK
    <3>2. k # at[p] /\ store[k].status = "running"
      BY <2>4, <3>1 DEF Absent
    <3>3. PICK q \in Workers : Holds(q, k)
      BY <1>1, <3>2
    <3>4. q # p
      BY <3>2, <3>3 DEF Holds
    <3>. QED
      BY <2>1, <3>3, <3>4 DEF Holds
  <2>5. CASE RejectUnknown(p)
    <3>1. Unknown(copy[p]) \in Slot /\ Unknown(copy[p]).status # "running"
      BY <2>0, RecordsStaySlots DEF Unknown, Slot
    <3>. QED
      BY <2>4, <2>5, <3>1 DEF RejectUnknown
  <2>6. CASE FinishHandler(p)
    <3>1. Succeeded(copy[p]) \in Slot /\ Succeeded(copy[p]).status # "running"
      BY <2>0, RecordsStaySlots DEF Succeeded, Slot
    <3>2. CreateFailedJobRecord(copy[p], now) \in Slot
          /\ CreateFailedJobRecord(copy[p], now).status # "running"
      <4>1. CreateFailedJobRecord(copy[p], now).status \in {"queued", "dead"}
        BY <2>0 DEF CreateFailedJobRecord, Slot
      <4>. QED
        BY <2>0, <4>1, RecordsStaySlots
    <3>. QED
      BY <2>4, <2>6, <3>1, <3>2 DEF FinishHandler, HandlerSucceeds, HandlerFails
  <2>. QED
    BY <2>2, <2>3, <2>5, <2>6 DEF WorkerStep
<1>4. CASE Tick \/ UNCHANGED vars
  BY <1>1, <1>4 DEF Tick, vars, Holds
<1>. QED
  BY <1>2, <1>3, <1>4 DEF Next

(* Whatever mix of enqueue, cancel, retry and delete calls runs beside the  *)
(* workers, a record says "running" only while some processNext call has   *)
(* the job in hand.                                                        *)
THEOREM NothingLeftRunning == Spec => []RunningHasOwner
BY AlwaysTyped, InitOwned, NextOwned, PTL DEF Spec

-----------------------------------------------------------------------------
(* A job that was enqueued once and not retried has one owner, and its       *)
(* attempt count is the number of attempts that were begun.                *)
UnusedUntouched ==
  \A i \in Ids \ used :
    /\ store[i].status = "absent"
    /\ runs[i] = 0
    /\ \A p \in Procs : at[p] # i

(* A job between findByIdempotencyKey and store.enqueue is nobody else's. *)
PendingUntouched ==
  \A c \in Clients :
    pc[c] = "enqueue" /\ at[c] \in Once =>
      /\ store[at[c]].status = "absent"
      /\ runs[at[c]] = 0
      /\ \A p \in Procs \ {c} : at[p] # at[c]

HeldNotQueued ==
  \A p \in Workers, i \in Once : Holds(p, i) => store[i].status # "queued"

QueuedCountsRuns ==
  \A i \in Once :
    /\ runs[i] <= MaxAttempts
    /\ store[i].status = "queued"
         => store[i].attempts = runs[i] /\ runs[i] < MaxAttempts

HeldCountsRuns ==
  \A p \in Workers :
    at[p] \in Once =>
      /\ pc[p] = "claimed" => copy[p].attempts = runs[at[p]] /\ runs[at[p]] < MaxAttempts
      /\ pc[p] = "running" => copy[p].attempts = runs[at[p]]

RetryMarked == \A c \in Clients : pc[c] = "retry" => at[c] \in revived

AttemptInv ==
  /\ Typed
  /\ UnusedUntouched
  /\ PendingUntouched
  /\ HandlersExclusive
  /\ HeldNotQueued
  /\ QueuedCountsRuns
  /\ HeldCountsRuns
  /\ RetryMarked

LEMMA InitAttempt == Init => AttemptInv
<1>. SUFFICES ASSUME Init PROVE AttemptInv
  OBVIOUS
<1>. USE QueueAssumption, RetryAssumption, ProcsSplit
<1>1. Typed
  BY InitTyped
<1>2. UnusedUntouched
  BY DEF Init, UnusedUntouched, Absent
<1>3. QueuedCountsRuns
  BY DEF Init, QueuedCountsRuns, Once, CreateJobRecord, Absent
<1>4. PendingUntouched /\ HandlersExclusive /\ HeldNotQueued /\ HeldCountsRuns /\ RetryMarked
  BY DEF Init, PendingUntouched, HandlersExclusive, HeldNotQueued, HeldCountsRuns,
         RetryMarked, Holds
<1>. QED
  BY <1>1, <1>2, <1>3, <1>4 DEF AttemptInv

(* A client's call that writes job i and returns: the write is harmless when *)
(* the job is marked as revived, or when it does not queue a job at work.    *)
LEMMA ClientWrites ==
  ASSUME AttemptInv, Typed', NEW c \in Clients, NEW i \in used',
         used \subseteq used', revived \subseteq revived', runs' = runs,
         \A k \in Ids \ {i} : store'[k] \in {store[k], Absent},
         pc'[c] = "idle",
         \A p \in Procs \ {c} :
           pc'[p] = pc[p] /\ at'[p] = at[p] /\ copy'[p] = copy[p],
         \/ i \in revived'
         \/ /\ \A d \in Clients \ {c} : pc[d] = "enqueue" => at[d] # i
            /\ store'[i].status = "queued" =>
                 /\ store'[i].attempts = 0 /\ runs[i] = 0
                 /\ \A p \in Workers : ~Holds(p, i)
  PROVE  AttemptInv'
<1>. USE ProcsSplit, QueueAssumption, RetryAssumption
<1>1. Typed /\ Absent.status = "absent"
  BY DEF AttemptInv, Absent
<1>2. at'[c] = NoId /\ i \in Ids /\ Once' \subseteq Once
  BY DEF Typed, TypeOK, Shape, Once
<1>3. UnusedUntouched'
  BY <1>1, <1>2 DEF AttemptInv, UnusedUntouched
<1>4. PendingUntouched'
  <2>. SUFFICES ASSUME NEW d \in Clients, pc'[d] = "enqueue", at'[d] \in Once'
                PROVE  /\ store'[at'[d]].status = "absent"
                       /\ runs'[at'[d]] = 0
                       /\ \A p \in Procs \ {d} : at'[p] # at'[d]
    BY DEF PendingUntouched
  <2>1. d # c /\ pc[d] = "enqueue" /\ at'[d] = at[d] /\ at[d] \in Once
    BY <1>2
  <2>2. /\ store[at[d]].status = "absent" /\ runs[at[d]] = 0
        /\ \A p \in Procs \ {d} : at[p] # at[d]
    BY <2>1 DEF AttemptInv, PendingUntouched
  <2>3. at[d] # i /\ at[d] \in Ids
    BY <2>1 DEF Once
  <2>4. \A p \in Procs \ {d} : at'[p] # at[d]
    BY <1>2, <2>2, <2>3
  <2>5. store'[at[d]] \in {store[at[d]], Absent}
    BY <2>3
  <2>6. store'[at[d]].status = "absent"
    BY <1>1, <2>2, <2>5
  <2>. QED
    BY <2>1, <2>2, <2>4, <2>6
<1>5. \A p \in Workers : /\ pc'[p] = pc[p] /\ at'[p] = at[p] /\ copy'[p] = copy[p]
                         /\ \A k \in Ids : Holds(p, k)' <=> Holds(p, k)
  BY DEF Holds
<1>6. HandlersExclusive' /\ HeldCountsRuns'
  BY <1>2, <1>5 DEF AttemptInv, HandlersExclusive, HeldCountsRuns, Once
<1>7. HeldNotQueued'
  BY <1>1, <1>2, <1>5 DEF AttemptInv, HeldNotQueued, Once
<1>8. QueuedCountsRuns'
  BY <1>1, <1>2 DEF AttemptInv, QueuedCountsRuns, Once
<1>9. RetryMarked'
  BY DEF AttemptInv, RetryMarked
<1>. QED
  BY <1>3, <1>4, <1>6, <1>7, <1>8, <1>9 DEF AttemptInv

(* A client's call that reads job i and goes to its await. *)
LEMMA ClientReads ==
  ASSUME AttemptInv, Typed', NEW c \in Clients, NEW i \in Ids, i \in used',
         used \subseteq used', revived \subseteq revived',
         store' = store, runs' = runs, at'[c] = i,
         \A p \in Procs \ {c} :
           pc'[p] = pc[p] /\ at'[p] = at[p] /\ copy'[p] = copy[p],
         pc'[c] = "enqueue" => i \in revived' \/ i \notin used,
         pc'[c] = "retry" => i \in revived',
         i \in revived' \/ \A d \in Clients \ {c} : pc[d] = "enqueue" => at[d] # i
  PROVE  AttemptInv'
<1>. USE ProcsSplit, QueueAssumption
<1>1. Once' \subseteq Once /\ Typed
  BY DEF Once, AttemptInv
<1>2. UnusedUntouched'
  BY DEF AttemptInv, UnusedUntouched
<1>3. PendingUntouched'
  <2>. SUFFICES ASSUME NEW d \in Clients, pc'[d] = "enqueue", at'[d] \in Once'
                PROVE  /\ store[at'[d]].status = "absent"
                       /\ runs[at'[d]] = 0
                       /\ \A p \in Procs \ {d} : at'[p] # at'[d]
    BY DEF PendingUntouched
  <2>1. CASE d = c
    <3>1. i \in Ids \ used
      BY <2>1 DEF Once
    <3>. QED
      BY <2>1, <3>1 DEF AttemptInv, UnusedUntouched
  <2>2. CASE d # c
    <3>1. pc[d] = "enqueue" /\ at'[d] = at[d] /\ at[d] \in Once /\ at[d] # i
      BY <1>1, <2>2 DEF Once
    <3>2. /\ store[at[d]].status = "absent" /\ runs[at[d]] = 0
          /\ \A p \in Procs \ {d} : at[p] # at[d]
      BY <3>1 DEF AttemptInv, PendingUntouched
    <3>. QED
      BY <2>2, <3>1, <3>2
  <2>. QED
    BY <2>1, <2>2
<1>4. \A p \in Workers : /\ pc'[p] = pc[p] /\ at'[p] = at[p] /\ copy'[p] = copy[p]
                         /\ \A k \in Ids : Holds(p, k)' <=> Holds(p, k)
  BY DEF Holds
<1>5. HandlersExclusive' /\ HeldCountsRuns' /\ HeldNotQueued'
  BY <1>1, <1>4 DEF AttemptInv, HandlersExclusive, HeldCountsRuns, HeldNotQueued, Once
<1>6. QueuedCountsRuns' /\ RetryMarked'
  BY <1>1 DEF AttemptInv, QueuedCountsRuns, RetryMarked
<1>. QED
  BY <1>2, <1>3, <1>5, <1>6 DEF AttemptInv

LEMMA ClientAttempt ==
  ASSUME AttemptInv, NEW c \in Clients, ClientStep(c)
  PROVE  AttemptInv'
<1>. USE ProcsSplit, QueueAssumption, RetryAssumption
<1>0. Typed'
  BY ClientTyped DEF AttemptInv
<1>1. /\ Typed /\ store \in [Ids -> Slot] /\ older \in SUBSET (Ids \X Ids)
      /\ used \in SUBSET Ids /\ copy[c] \in Slot /\ now \in Nat
      /\ \A delay \in Delays : now + delay \in Nat
      /\ pc[c] # "idle" => at[c] \in Ids
  BY DEF AttemptInv, Typed, TypeOK, Shape
<1>2. Absent.status = "absent"
  BY DEF Absent
<1>3. \A i \in Ids : store[i].status # "absent" =>
         /\ i \in used
         /\ i \in revived \/ \A d \in Clients : pc[d] = "enqueue" => at[d] # i
  <2>1. ASSUME NEW i \in Ids, store[i].status # "absent", i \notin revived,
               NEW d \in Clients, pc[d] = "enqueue"
        PROVE  at[d] # i
    BY <2>1 DEF AttemptInv, PendingUntouched, Once
  <2>2. \A i \in Ids : store[i].status # "absent" => i \in used
    BY DEF AttemptInv, UnusedUntouched
  <2>. QED
    BY <2>1, <2>2
<1>4. \A d \in Clients : pc[d] # "idle" => at[d] \in used
  <2>1. \A d \in Clients : pc[d] # "idle" => at[d] \in Ids
    BY DEF AttemptInv, Typed, TypeOK, Shape
  <2>2. \A i \in Ids \ used : \A d \in Clients : at[d] # i
    BY DEF AttemptInv, UnusedUntouched
  <2>. QED
    BY <2>1, <2>2
<1>5. ASSUME NEW i \in Ids, NEW delay \in Delays, EnqueueUnkeyed(c, i, delay)
      PROVE  AttemptInv'
  <2>1. /\ store'[i] \in {CreateJobRecord(now, now + delay), Absent}
        /\ \A k \in Ids \ {i} : store'[k] \in {store[k], Absent}
    BY <1>1, <1>5, AbsentIsSlot, RecordsStaySlots, PutEffect DEF EnqueueUnkeyed
  <2>2. store'[i].status = "queued" => store'[i].attempts = 0
    BY <1>2, <2>1 DEF CreateJobRecord
  <2>3. /\ pc[c] = "idle" /\ UNCHANGED <<pc, at, copy, runs>>
        /\ used' = used \cup {i} /\ revived' = revived \cup ({i} \cap used)
    BY <1>5 DEF EnqueueUnkeyed, TakeId
  <2>4. i \in revived' \/ (runs[i] = 0 /\ \A p \in Procs : at[p] # i)
    BY <2>3 DEF AttemptInv, UnusedUntouched
  <2>5. \/ i \in revived'
        \/ /\ \A d \in Clients \ {c} : pc[d] = "enqueue" => at[d] # i
           /\ store'[i].status = "queued" =>
                /\ store'[i].attempts = 0 /\ runs[i] = 0
                /\ \A p \in Workers : ~Holds(p, i)
    BY <2>2, <2>4 DEF Holds
  <2>. QED
    BY <1>0, <2>1, <2>3, <2>5, ClientWrites
<1>6. ASSUME NEW i \in Ids, EnqueueFind(c, i)
      PROVE  AttemptInv'
  <2>1. /\ pc' = [pc EXCEPT ![c] = "enqueue"] /\ at' = [at EXCEPT ![c] = i]
        /\ copy' = [copy EXCEPT ![c] = Absent]
        /\ used' = used \cup {i} /\ revived' = revived \cup ({i} \cap used)
        /\ UNCHANGED <<store, runs>>
    BY <1>6 DEF EnqueueFind, Reach, TakeId
  <2>2. /\ at'[c] = i /\ pc'[c] = "enqueue"
        /\ \A p \in Procs \ {c} :
             pc'[p] = pc[p] /\ at'[p] = at[p] /\ copy'[p] = copy[p]
    BY <1>1, <2>1 DEF Typed, TypeOK
  <2>3. i \in revived' \/ \A d \in Clients \ {c} : pc[d] = "enqueue" => at[d] # i
    BY <1>4, <2>1
  <2>. QED
    BY <1>0, <2>1, <2>2, <2>3, ClientReads
<1>7. ASSUME NEW i \in Ids, CancelGet(c, i)
      PROVE  AttemptInv'
  <2>1. /\ pc' = [pc EXCEPT ![c] = "cancel"] /\ at' = [at EXCEPT ![c] = i]
        /\ copy' = [copy EXCEPT ![c] = store[i]]
        /\ UNCHANGED <<store, used, revived, runs>> /\ store[i].status # "absent"
    BY <1>7 DEF CancelGet, Reach, IsLive
  <2>2. /\ at'[c] = i /\ pc'[c] = "cancel"
        /\ \A p \in Procs \ {c} :
             pc'[p] = pc[p] /\ at'[p] = at[p] /\ copy'[p] = copy[p]
    BY <1>1, <2>1 DEF Typed, TypeOK
  <2>3. i \in used'
        /\ (i \in revived' \/ \A d \in Clients \ {c} : pc[d] = "enqueue" => at[d] # i)
    BY <1>3, <2>1
  <2>. QED
    BY <1>0, <2>1, <2>2, <2>3, ClientReads
<1>8. ASSUME NEW i \in Ids, RetryGet(c, i)
      PROVE  AttemptInv'
  <2>1. /\ pc' = [pc EXCEPT ![c] = "retry"] /\ at' = [at EXCEPT ![c] = i]
        /\ copy' = [copy EXCEPT ![c] = store[i]] /\ revived' = revived \cup {i}
        /\ UNCHANGED <<store, used, runs>> /\ store[i].status # "absent"
    BY <1>8 DEF RetryGet, Reach, IsRetryableJobStatus
  <2>2. /\ at'[c] = i /\ pc'[c] = "retry"
        /\ \A p \in Procs \ {c} :
             pc'[p] = pc[p] /\ at'[p] = at[p] /\ copy'[p] = copy[p]
    BY <1>1, <2>1 DEF Typed, TypeOK
  <2>3. i \in used' /\ i \in revived'
    BY <1>3, <2>1
  <2>. QED
    BY <1>0, <2>1, <2>2, <2>3, ClientReads
<1>9. ASSUME NEW i \in Ids, Delete(c, i)
      PROVE  AttemptInv'
  <2>1. /\ store' = [store EXCEPT ![i] = Absent] /\ pc[c] = "idle"
        /\ store[i].status # "absent" /\ UNCHANGED <<pc, at, copy, used, revived, runs>>
    BY <1>9 DEF Delete, Present
  <2>2. store'[i].status = "absent" /\ \A k \in Ids \ {i} : store'[k] = store[k]
    BY <1>1, <1>2, <2>1
  <2>3. i \in used' /\ pc'[c] = "idle"
        /\ (i \in revived' \/ \A d \in Clients \ {c} : pc[d] = "enqueue" => at[d] # i)
    BY <1>3, <2>1
  <2>. QED
    BY <1>0, <2>1, <2>2, <2>3, ClientWrites
<1>10. ASSUME Return(c), UNCHANGED <<used, revived, runs>>, pc[c] # "idle",
              NEW job \in Slot, Put(at[c], job),
              \/ at[c] \in revived
              \/ /\ \A d \in Clients \ {c} : pc[d] = "enqueue" => at[d] # at[c]
                 /\ job.status = "queued" =>
                      /\ job.attempts = 0 /\ runs[at[c]] = 0
                      /\ \A p \in Workers : ~Holds(p, at[c])
       PROVE  AttemptInv'
  <2>1. at[c] \in Ids /\ at[c] \in used'
    BY <1>1, <1>4, <1>10
  <2>2. /\ store'[at[c]] \in {job, Absent}
        /\ \A k \in Ids \ {at[c]} : store'[k] \in {store[k], Absent}
    BY <1>1, <1>10, <2>1, PutEffect
  <2>3. /\ pc' = [pc EXCEPT ![c] = "idle"] /\ at' = [at EXCEPT ![c] = NoId]
        /\ copy' = [copy EXCEPT ![c] = Absent]
    BY <1>10 DEF Return, Reach
  <2>4. /\ pc'[c] = "idle"
        /\ \A p \in Procs \ {c} :
             pc'[p] = pc[p] /\ at'[p] = at[p] /\ copy'[p] = copy[p]
    BY <1>1, <2>3 DEF Typed, TypeOK
  <2> DEFINE i == at[c]
  <2>5. \/ i \in revived'
        \/ /\ \A d \in Clients \ {c} : pc[d] = "enqueue" => at[d] # i
           /\ store'[i].status = "queued" =>
                /\ store'[i].attempts = 0 /\ runs[i] = 0
                /\ \A p \in Workers : ~Holds(p, i)
    BY <1>2, <1>10, <2>2
  <2>6. i \in used' /\ \A k \in Ids \ {i} : store'[k] \in {store[k], Absent}
    BY <2>1, <2>2
  <2>. HIDE DEF i
  <2>. QED
    BY <1>0, <1>10, <2>4, <2>5, <2>6, ClientWrites
<1>11. ASSUME NEW delay \in Delays, EnqueueStore(c, delay)
       PROVE  AttemptInv'
  <2>1. /\ pc[c] = "enqueue" /\ Put(at[c], CreateJobRecord(now, now + delay))
        /\ Return(c) /\ UNCHANGED <<used, revived, runs>> /\ at[c] \in Ids
    BY <1>1, <1>11 DEF EnqueueStore
  <2>2. CreateJobRecord(now, now + delay) \in Slot
        /\ CreateJobRecord(now, now + delay).attempts = 0
    BY <1>1, AbsentIsSlot, RecordsStaySlots DEF CreateJobRecord
  <2>3. \/ at[c] \in revived
        \/ runs[at[c]] = 0 /\ \A p \in Procs \ {c} : at[p] # at[c]
    BY <2>1 DEF AttemptInv, PendingUntouched, Once
  <2>4. \/ at[c] \in revived
        \/ /\ runs[at[c]] = 0
           /\ \A p \in Workers : ~Holds(p, at[c])
           /\ \A d \in Clients \ {c} : at[d] # at[c]
    BY <2>3 DEF Holds
  <2>. QED
    BY <1>10, <2>1, <2>2, <2>4
<1>12. CASE CancelUpdate(c)
  <2>1. /\ pc[c] = "cancel" /\ Put(at[c], Canceled(copy[c]))
        /\ Return(c) /\ UNCHANGED <<used, revived, runs>> /\ at[c] \in Ids
    BY <1>1, <1>12 DEF CancelUpdate
  <2>2. Canceled(copy[c]) \in Slot /\ Canceled(copy[c]).status = "canceled"
    BY <1>1, RecordsStaySlots DEF Canceled, Slot
  <2>3. at[c] \in revived \/ \A d \in Clients \ {c} : pc[d] = "enqueue" => at[d] # at[c]
    BY <2>1 DEF AttemptInv, PendingUntouched, Once
  <2>. QED
    BY <1>10, <2>1, <2>2, <2>3
<1>13. CASE RetryUpdate(c)
  <2>1. /\ pc[c] = "retry" /\ Put(at[c], Requeued(copy[c], now))
        /\ Return(c) /\ UNCHANGED <<used, revived, runs>> /\ at[c] \in Ids
    BY <1>1, <1>13 DEF RetryUpdate
  <2>2. Requeued(copy[c], now) \in Slot /\ at[c] \in revived
    BY <1>1, <2>1, RecordsStaySlots DEF AttemptInv, RetryMarked
  <2>. QED
    BY <1>10, <2>1, <2>2
<1>. QED
  BY <1>5, <1>6, <1>7, <1>8, <1>9, <1>11, <1>12, <1>13 DEF ClientStep

(* A worker's step that writes job i: harmless when the job is marked as     *)
(* revived, or when the worker alone has it in hand and counts its runs.     *)
LEMMA WorkerWrites ==
  ASSUME AttemptInv, Typed', NEW p \in Workers, NEW i \in used,
         used' = used, revived' = revived, at'[p] \in {i, NoId},
         \A k \in Ids \ {i} : store'[k] \in {store[k], Absent} /\ runs'[k] = runs[k],
         \A q \in Procs \ {p} :
           pc'[q] = pc[q] /\ at'[q] = at[q] /\ copy'[q] = copy[q],
         \/ i \in revived
         \/ /\ \A q \in Workers \ {p} : ~Holds(q, i)
            /\ \A d \in Clients : pc[d] = "enqueue" => at[d] # i
            /\ runs'[i] <= MaxAttempts
            /\ store'[i].status = "queued" =>
                 pc'[p] = "idle" /\ store'[i].attempts = runs'[i] /\ runs'[i] < MaxAttempts
            /\ pc'[p] = "claimed" => copy'[p].attempts = runs'[i] /\ runs'[i] < MaxAttempts
            /\ pc'[p] = "running" => copy'[p].attempts = runs'[i]
  PROVE  AttemptInv'
<1>. USE ProcsSplit, QueueAssumption
<1>1. Typed /\ Absent.status = "absent" /\ i \in Ids /\ Once' = Once
  BY DEF AttemptInv, Typed, TypeOK, Absent, Once
<1>2. UnusedUntouched'
  BY <1>1 DEF AttemptInv, UnusedUntouched
<1>3. PendingUntouched'
  <2>. SUFFICES ASSUME NEW d \in Clients, pc'[d] = "enqueue", at'[d] \in Once
                PROVE  /\ store'[at'[d]].status = "absent"
                       /\ runs'[at'[d]] = 0
                       /\ \A q \in Procs \ {d} : at'[q] # at'[d]
    BY <1>1 DEF PendingUntouched
  <2>1. d # p /\ pc[d] = "enqueue" /\ at'[d] = at[d] /\ at[d] \in Once
    OBVIOUS
  <2>2. /\ store[at[d]].status = "absent" /\ runs[at[d]] = 0
        /\ \A q \in Procs \ {d} : at[q] # at[d]
    BY <2>1 DEF AttemptInv, PendingUntouched
  <2>3. at[d] # i /\ at[d] \in Ids
    BY <2>1 DEF Once
  <2>4. \A q \in Procs \ {d} : at'[q] # at[d]
    BY <1>1, <2>2, <2>3
  <2>. QED
    BY <1>1, <2>1, <2>2, <2>3, <2>4
<1>4. \A q \in Workers \ {p}, k \in Ids : Holds(q, k)' <=> Holds(q, k)
  BY DEF Holds
<1>5. \A k \in Ids : Holds(p, k)' => k = i
  BY DEF Holds
<1>6. HandlersExclusive'
  BY <1>1, <1>4, <1>5 DEF AttemptInv, HandlersExclusive, Once
<1>7. HeldNotQueued'
  <2>. SUFFICES ASSUME NEW q \in Workers, NEW k \in Once, Holds(q, k)'
                PROVE  store'[k].status # "queued"
    BY <1>1 DEF HeldNotQueued
  <2>1. CASE k = i
    <3>1. q = p /\ pc'[p] # "idle"
      BY <1>1, <1>4, <2>1 DEF Holds, Once
    <3>. QED
      BY <2>1, <3>1 DEF Once
  <2>2. CASE k # i
    <3>1. q # p /\ Holds(q, k)
      BY <1>4, <1>5, <2>2 DEF Once
    <3>. QED
      BY <1>1, <2>2, <3>1 DEF AttemptInv, HeldNotQueued, Once
  <2>. QED
    BY <2>1, <2>2
<1>8. QueuedCountsRuns'
  BY <1>1 DEF AttemptInv, QueuedCountsRuns, Once
<1>9. HeldCountsRuns'
  <2>. SUFFICES ASSUME NEW q \in Workers, at'[q] \in Once
                PROVE  /\ pc'[q] = "claimed" =>
                            copy'[q].attempts = runs'[at'[q]] /\ runs'[at'[q]] < MaxAttempts
                       /\ pc'[q] = "running" => copy'[q].attempts = runs'[at'[q]]
    BY <1>1 DEF HeldCountsRuns
  <2>1. CASE q = p
    BY <1>1, <2>1 DEF Once
  <2>2. CASE q # p /\ pc[q] \in {"claimed", "running"}
    <3>1. at'[q] = at[q] /\ pc'[q] = pc[q] /\ copy'[q] = copy[q] /\ at[q] \in Once
      BY <2>2
    <3>2. at[q] # i /\ at[q] \in Ids
      BY <1>1, <2>2, <3>1 DEF Holds, Once
    <3>3. runs'[at[q]] = runs[at[q]]
      BY <3>2
    <3>. QED
      BY <3>1, <3>3 DEF AttemptInv, HeldCountsRuns
  <2>3. CASE q # p /\ pc[q] \notin {"claimed", "running"}
    BY <2>3
  <2>. QED
    BY <2>1, <2>2, <2>3
<1>10. RetryMarked'
  BY DEF AttemptInv, RetryMarked
<1>. QED
  BY <1>2, <1>3, <1>6, <1>7, <1>8, <1>9, <1>10 DEF AttemptInv

(* A processNext call that writes an outcome gives up its job. *)
LEMMA OutcomeAttempt ==
  ASSUME AttemptInv, Typed', NEW p \in Workers, NEW job \in Slot,
         pc[p] \in {"claimed", "running"}, Put(at[p], job), Return(p),
         UNCHANGED <<now, used, revived, runs>>,
         job.status = "queued" /\ at[p] \in Once
           => job.attempts = runs[at[p]] /\ runs[at[p]] < MaxAttempts
  PROVE  AttemptInv'
<1>. USE ProcsSplit, QueueAssumption, RetryAssumption
<1> DEFINE i == at[p]
<1>1. /\ Typed /\ store \in [Ids -> Slot] /\ older \in SUBSET (Ids \X Ids)
      /\ i \in Ids /\ Holds(p, i) /\ Absent.status = "absent"
  BY DEF AttemptInv, Typed, TypeOK, Shape, Holds, Absent
<1>2. /\ store'[i] \in {job, Absent}
      /\ \A k \in Ids \ {i} : store'[k] \in {store[k], Absent}
  BY <1>1, PutEffect
<1>3. /\ pc' = [pc EXCEPT ![p] = "idle"] /\ at' = [at EXCEPT ![p] = NoId]
      /\ copy' = [copy EXCEPT ![p] = Absent]
  BY DEF Return, Reach
<1>4. /\ pc'[p] = "idle" /\ at'[p] = NoId
      /\ \A q \in Procs \ {p} : pc'[q] = pc[q] /\ at'[q] = at[q] /\ copy'[q] = copy[q]
  BY <1>1, <1>3 DEF Typed, TypeOK
<1>5. i \in used /\ \A k \in Ids : runs'[k] = runs[k]
  BY <1>1 DEF AttemptInv, UnusedUntouched
<1>6. i \in Once => /\ \A q \in Workers \ {p} : ~Holds(q, i)
                    /\ \A d \in Clients : pc[d] = "enqueue" => at[d] # i
  BY <1>1 DEF AttemptInv, HandlersExclusive, PendingUntouched
<1>7. i \in Once => /\ runs[i] <= MaxAttempts
                    /\ store'[i].status = "queued" =>
                         store'[i].attempts = runs[i] /\ runs[i] < MaxAttempts
  BY <1>1, <1>2 DEF AttemptInv, QueuedCountsRuns
<1>8. i \in revived \/ i \in Once
  BY <1>1 DEF Once
<1>. HIDE DEF i
<1>9. \/ i \in revived
      \/ /\ \A q \in Workers \ {p} : ~Holds(q, i)
         /\ \A d \in Clients : pc[d] = "enqueue" => at[d] # i
         /\ runs'[i] <= MaxAttempts
         /\ store'[i].status = "queued" =>
              pc'[p] = "idle" /\ store'[i].attempts = runs'[i] /\ runs'[i] < MaxAttempts
         /\ pc'[p] = "claimed" => copy'[p].attempts = runs'[i] /\ runs'[i] < MaxAttempts
         /\ pc'[p] = "running" => copy'[p].attempts = runs'[i]
  BY <1>1, <1>4, <1>5, <1>6, <1>7, <1>8
<1>. QED
  BY <1>2, <1>4, <1>5, <1>9, WorkerWrites

LEMMA WorkerAttempt ==
  ASSUME AttemptInv, NEW p \in Workers, WorkerStep(p)
  PROVE  AttemptInv'
<1>. USE ProcsSplit, QueueAssumption, RetryAssumption
<1>0. Typed'
  BY WorkerTyped DEF AttemptInv
<1>1. /\ Typed /\ store \in [Ids -> Slot] /\ older \in SUBSET (Ids \X Ids)
      /\ copy[p] \in Slot /\ now \in Nat /\ runs \in [Ids -> Nat]
      /\ pc[p] # "idle" => at[p] \in Ids
  BY DEF AttemptInv, Typed, TypeOK, Shape
<1>2. CASE Claim(p)
  <2>1. PICK i \in Ids :
          /\ IsJobReady(store[i], now)
          /\ store' = [store EXCEPT ![i] = Claimed(@)]
          /\ Reach(p, "claimed", i, Claimed(store[i]))
    BY <1>2 DEF Claim, NextToClaim, Ready
  <2>2. /\ pc' = [pc EXCEPT ![p] = "claimed"] /\ at' = [at EXCEPT ![p] = i]
        /\ copy' = [copy EXCEPT ![p] = Claimed(store[i])]
        /\ UNCHANGED <<older, now, used, revived, runs>>
    BY <1>2, <2>1 DEF Claim, Reach
  <2>3. store[i].status = "queued" /\ store[i] \in Slot
    BY <1>1, <2>1 DEF IsJobReady
  <2>4. Claimed(store[i]).status = "running"
        /\ Claimed(store[i]).attempts = store[i].attempts
    BY <2>3 DEF Claimed, Slot
  <2>5. /\ store'[i].status = "running"
        /\ \A k \in Ids \ {i} : store'[k] = store[k]
    BY <1>1, <2>1, <2>4
  <2>6. /\ pc'[p] = "claimed" /\ at'[p] = i /\ copy'[p] = Claimed(store[i])
        /\ \A q \in Procs \ {p} : pc'[q] = pc[q] /\ at'[q] = at[q] /\ copy'[q] = copy[q]
    BY <1>1, <2>2 DEF Typed, TypeOK
  <2>7. i \in used
    BY <2>3 DEF AttemptInv, UnusedUntouched
  <2>8. i \in Once => /\ \A q \in Workers : ~Holds(q, i)
                      /\ \A d \in Clients : pc[d] = "enqueue" => at[d] # i
                      /\ store[i].attempts = runs[i] /\ runs[i] < MaxAttempts
    BY <2>3 DEF AttemptInv, HeldNotQueued, PendingUntouched, QueuedCountsRuns
  <2>9. runs' = runs /\ runs[i] \in Nat /\ (i \in revived \/ i \in Once)
    BY <1>1, <2>2 DEF Once
  <2>10. \/ i \in revived
         \/ /\ \A q \in Workers \ {p} : ~Holds(q, i)
            /\ \A d \in Clients : pc[d] = "enqueue" => at[d] # i
            /\ runs'[i] <= MaxAttempts
            /\ store'[i].status = "queued" =>
                 pc'[p] = "idle" /\ store'[i].attempts = runs'[i] /\ runs'[i] < MaxAttempts
            /\ pc'[p] = "claimed" => copy'[p].attempts = runs'[i] /\ runs'[i] < MaxAttempts
            /\ pc'[p] = "running" => copy'[p].attempts = runs'[i]
    BY <2>4, <2>5, <2>6, <2>8, <2>9
  <2>. QED
    BY <1>0, <2>2, <2>5, <2>6, <2>7, <2>9, <2>10, WorkerWrites
<1>3. CASE RejectUnknown(p)
  <2>1. Unknown(copy[p]) \in Slot /\ Unknown(copy[p]).status = "dead"
    BY <1>1, RecordsStaySlots DEF Unknown, Slot
  <2>. QED
    BY <1>0, <1>3, <2>1, OutcomeAttempt DEF RejectUnknown
<1>4. CASE StartHandler(p)
  <2> DEFINE i == at[p]
  <2>0. pc[p] = "claimed" /\ i \in Ids /\ Holds(p, i)
    BY <1>1, <1>4 DEF StartHandler, Holds
  <2>1. Running(copy[p]) \in Slot /\ Running(copy[p]).status = "running"
        /\ Running(copy[p]).attempts = copy[p].attempts + 1
    BY <1>1, RecordsStaySlots DEF Running, Slot
  <2>2. /\ store'[i] \in {Running(copy[p]), Absent}
        /\ \A k \in Ids \ {i} : store'[k] \in {store[k], Absent}
    BY <1>1, <1>4, <2>0, <2>1, PutEffect DEF StartHandler
  <2>3. /\ pc' = [pc EXCEPT ![p] = "running"] /\ at' = [at EXCEPT ![p] = i]
        /\ copy' = [copy EXCEPT ![p] = Running(copy[p])]
        /\ runs' = [runs EXCEPT ![i] = @ + 1] /\ UNCHANGED <<now, used, revived>>
    BY <1>4 DEF StartHandler, Reach
  <2>4. /\ \A q \in Procs \ {p} : pc'[q] = pc[q] /\ at'[q] = at[q] /\ copy'[q] = copy[q]
        /\ pc'[p] = "running" /\ at'[p] = i /\ copy'[p] = Running(copy[p])
    BY <1>1, <2>3 DEF Typed, TypeOK
  <2>5. /\ runs'[i] = runs[i] + 1 /\ \A k \in Ids \ {i} : runs'[k] = runs[k]
        /\ runs[i] \in Nat
    BY <1>1, <2>0, <2>3
  <2>6. i \in Once => /\ copy[p].attempts = runs[i] /\ runs[i] < MaxAttempts
                      /\ \A q \in Workers \ {p} : ~Holds(q, i)
                      /\ \A d \in Clients : pc[d] = "enqueue" => at[d] # i
    BY <2>0 DEF AttemptInv, HeldCountsRuns, HandlersExclusive, PendingUntouched
  <2>7. i \in used /\ (i \in revived \/ i \in Once)
    BY <2>0 DEF AttemptInv, UnusedUntouched, Once
  <2>8. store'[i].status # "queued"
    BY <2>1, <2>2 DEF Absent
  <2>. HIDE DEF i
  <2>9. \/ i \in revived
        \/ /\ \A q \in Workers \ {p} : ~Holds(q, i)
           /\ \A d \in Clients : pc[d] = "enqueue" => at[d] # i
           /\ runs'[i] <= MaxAttempts
           /\ store'[i].status = "queued" =>
                pc'[p] = "idle" /\ store'[i].attempts = runs'[i] /\ runs'[i] < MaxAttempts
           /\ pc'[p] = "claimed" => copy'[p].attempts = runs'[i] /\ runs'[i] < MaxAttempts
           /\ pc'[p] = "running" => copy'[p].attempts = runs'[i]
    BY <2>1, <2>4, <2>5, <2>6, <2>7, <2>8
  <2>. QED
    BY <1>0, <2>2, <2>3, <2>4, <2>5, <2>7, <2>9, WorkerWrites
<1>5. CASE HandlerSucceeds(p)
  <2>1. Succeeded(copy[p]) \in Slot /\ Succeeded(copy[p]).status = "succeeded"
    BY <1>1, RecordsStaySlots DEF Succeeded, Slot
  <2>. QED
    BY <1>0, <1>5, <2>1, OutcomeAttempt DEF HandlerSucceeds
<1>6. CASE HandlerFails(p)
  <2> DEFINE job == CreateFailedJobRecord(copy[p], now)
  <2>1. job \in Slot
    BY <1>1, RecordsStaySlots
  <2>2. job.status = "queued"
          => job.attempts = copy[p].attempts /\ copy[p].attempts < MaxAttempts
    <3>1. CASE copy[p].attempts < MaxAttempts
      BY <1>1, <3>1 DEF CreateFailedJobRecord, Slot
    <3>2. CASE ~(copy[p].attempts < MaxAttempts)
      BY <1>1, <3>2 DEF CreateFailedJobRecord, Slot
    <3>. QED
      BY <3>1, <3>2
  <2>3. at[p] \in Once => copy[p].attempts = runs[at[p]]
    BY <1>6 DEF HandlerFails, AttemptInv, HeldCountsRuns
  <2>. HIDE DEF job
  <2>4. /\ Put(at[p], job) /\ Return(p) /\ UNCHANGED <<now, used, revived, runs>>
        /\ pc[p] = "running"
    BY <1>6 DEF HandlerFails, job
  <2>. QED
    BY <1>0, <2>1, <2>2, <2>3, <2>4, OutcomeAttempt
<1>. QED
  BY <1>2, <1>3, <1>4, <1>5, <1>6 DEF WorkerStep, FinishHandler

LEMMA NextAttempt == AttemptInv /\ [Next]_vars => AttemptInv'
<1>. SUFFICES ASSUME AttemptInv, [Next]_vars PROVE AttemptInv'
  OBVIOUS
<1>1. CASE \E c \in Clients : ClientStep(c)
  BY <1>1, ClientAttempt
<1>2. CASE \E p \in Workers : WorkerStep(p)
  BY <1>2, WorkerAttempt
<1>3. CASE Tick \/ UNCHANGED vars
  <2>1. UNCHANGED <<store, older, pc, at, copy, used, revived, runs>>
    BY <1>3 DEF Tick, vars
  <2>2. Typed'
    BY NextTyped DEF AttemptInv
  <2>. QED
    BY <2>1, <2>2
    DEF AttemptInv, UnusedUntouched, PendingUntouched, HandlersExclusive, Once,
        HeldNotQueued, QueuedCountsRuns, HeldCountsRuns, RetryMarked, Holds
<1>. QED
  BY <1>1, <1>2, <1>3 DEF Next

LEMMA AlwaysAttempt == Spec => []AttemptInv
BY InitAttempt, NextAttempt, PTL DEF Spec

(* Two processNext calls never work on the same job, although every write is *)
(* an unconditional upsert of a stale copy, jobs may be evicted and written  *)
(* back, and callers cancel, delete and retry: only a job that a caller      *)
(* itself enqueued again or retried can have two.                          *)
THEOREM ExclusiveHandling == Spec => []HandlersExclusive
<1>1. AttemptInv => HandlersExclusive
  BY DEF AttemptInv
<1>. QED
  BY <1>1, AlwaysAttempt, PTL

(* The handler of a job is started at most RetryOptions.attempts times,      *)
(* whatever its record says in between.                                    *)
THEOREM AttemptsWithinBudget == Spec => []RunsWithinBudget
<1>1. AttemptInv => RunsWithinBudget
  BY DEF AttemptInv, QueuedCountsRuns, RunsWithinBudget
<1>. QED
  BY <1>1, AlwaysAttempt, PTL

-----------------------------------------------------------------------------
(* What any step does to the Map: nothing, one write followed by the         *)
(* eviction, the mark of a claim, or an owner's delete.                      *)
Stores == \E i \in Ids, job \in Slot : job.status # "absent" /\ Put(i, job)

Marks ==
  /\ \E i \in Ids : /\ store[i].status = "queued"
                    /\ store' = [store EXCEPT ![i] = Claimed(@)]
  /\ UNCHANGED older

LEMMA StoreSteps ==
  ASSUME Typed, [Next]_vars
  PROVE  \/ UNCHANGED store
         \/ Stores
         \/ Marks
         \/ \E p \in Clients, i \in Ids : Delete(p, i)
<1>. USE ProcsSplit, QueueAssumption
<1>0. /\ now \in Nat /\ \A delay \in Delays : now + delay \in Nat
      /\ \A p \in Procs : copy[p] \in Slot /\ (pc[p] # "idle" => at[p] \in Ids)
  BY DEF Typed, TypeOK, Shape
<1>1. ASSUME NEW p \in Clients, ClientStep(p)
      PROVE  UNCHANGED store \/ Stores \/ \E i \in Ids : Delete(p, i)
  <2>1. ASSUME NEW delay \in Delays
        PROVE  /\ CreateJobRecord(now, now + delay) \in Slot
               /\ CreateJobRecord(now, now + delay).status # "absent"
    BY <1>0, AbsentIsSlot, RecordsStaySlots DEF CreateJobRecord
  <2>2. /\ Canceled(copy[p]) \in Slot /\ Canceled(copy[p]).status # "absent"
        /\ Requeued(copy[p], now) \in Slot /\ Requeued(copy[p], now).status # "absent"
    <3>1. copy[p] \in Slot
      BY <1>0
    <3>. QED
      BY <1>0, <3>1, RecordsStaySlots DEF Canceled, Requeued, Slot
  <2>3. CASE \E i \in Ids, delay \in Delays : EnqueueUnkeyed(p, i, delay)
    BY <2>1, <2>3 DEF EnqueueUnkeyed, Stores
  <2>4. CASE \E delay \in Delays : EnqueueStore(p, delay)
    BY <1>0, <2>1, <2>4 DEF EnqueueStore, Stores
  <2>5. CASE CancelUpdate(p) \/ RetryUpdate(p)
    BY <1>0, <2>2, <2>5 DEF CancelUpdate, RetryUpdate, Stores
  <2>6. CASE \E i \in Ids : EnqueueFind(p, i) \/ CancelGet(p, i) \/ RetryGet(p, i)
    BY <2>6 DEF EnqueueFind, CancelGet, RetryGet
  <2>. QED
    BY <1>1, <2>3, <2>4, <2>5, <2>6 DEF ClientStep
<1>2. ASSUME NEW p \in Workers, WorkerStep(p)
      PROVE  Stores \/ Marks
  <2>0. copy[p] \in Slot
    BY <1>0
  <2>1. /\ Unknown(copy[p]) \in Slot /\ Unknown(copy[p]).status # "absent"
        /\ Running(copy[p]) \in Slot /\ Running(copy[p]).status # "absent"
        /\ Succeeded(copy[p]) \in Slot /\ Succeeded(copy[p]).status # "absent"
    BY <1>0, <2>0, RecordsStaySlots DEF Unknown, Running, Succeeded, Slot
  <2>2. /\ CreateFailedJobRecord(copy[p], now) \in Slot
        /\ CreateFailedJobRecord(copy[p], now).status # "absent"
    <3>1. CreateFailedJobRecord(copy[p], now).status \in {"queued", "dead"}
      BY <2>0 DEF CreateFailedJobRecord, Slot
    <3>. QED
      BY <1>0, <2>0, <3>1, RecordsStaySlots
  <2>3. CASE Claim(p)
    BY <2>3 DEF Claim, NextToClaim, Ready, IsJobReady, Marks
  <2>4. CASE RejectUnknown(p)
    BY <1>0, <2>1, <2>4 DEF RejectUnknown, Stores
  <2>5. CASE StartHandler(p)
    BY <1>0, <2>1, <2>5 DEF StartHandler, Stores
  <2>6. CASE FinishHandler(p)
    BY <1>0, <2>1, <2>2, <2>6 DEF FinishHandler, HandlerSucceeds, HandlerFails, Stores
  <2>. QED
    BY <1>2, <2>3, <2>4, <2>5, <2>6 DEF WorkerStep
<1>3. CASE Tick \/ UNCHANGED vars
  BY <1>3 DEF Tick, vars
<1>. QED
  BY <1>1, <1>2, <1>3 DEF Next

(* The seeds are stored without looking at maxJobs, so the store may begin   *)
(* above it: but then nothing has been written yet, and nothing is finished. *)
CapacityInv ==
  CapacityRespected \/ \A i \in Ids : ~IsTerminalJobStatus(store[i].status)

LEMMA PutRespectsCapacity ==
  ASSUME NEW i \in Ids, NEW job \in Slot, store \in [Ids -> Slot], Put(i, job)
  PROVE  CapacityRespected'
<1> DEFINE s == [store EXCEPT ![i] = job]
<1>1. s \in [Ids -> Slot] /\ store' = EvictOverflowJobs(s, MaxJobs) /\ MaxJobs \in Nat
  BY QueueAssumption DEF Put
<1>. HIDE DEF s
<1>2. Cardinality(Present(EvictOverflowJobs(s, MaxJobs))) <= MaxJobs
  BY <1>1, EvictionBounds
<1>. QED
  BY <1>1, <1>2 DEF CapacityRespected

LEMMA FewerRespectCapacity ==
  ASSUME CapacityRespected, Present(store)' \subseteq Present(store)
  PROVE  CapacityRespected'
<1>1. Present(store)' \in SUBSET Present(store)
  OBVIOUS
<1>2. /\ IsFiniteSet(Present(store)) /\ Cardinality(Present(store)) \in Nat
      /\ MaxJobs \in Nat
  BY PresentFinite, QueueAssumption
<1>3. /\ IsFiniteSet(Present(store)')
      /\ Cardinality(Present(store)') <= Cardinality(Present(store))
  BY <1>1, <1>2, FS_Subset
<1>4. Cardinality(Present(store)') \in Nat
  BY <1>3, FS_CardinalityType
<1>. QED
  BY <1>2, <1>3, <1>4 DEF CapacityRespected

LEMMA NextCapacity ==
  ASSUME Typed, [Next]_vars
  PROVE  /\ CapacityRespected => CapacityRespected'
         /\ CapacityInv => CapacityInv'
<1>. USE ProcsSplit
<1>0. store \in [Ids -> Slot]
  BY DEF Typed, TypeOK
<1>1. CASE UNCHANGED store
  BY <1>1 DEF CapacityInv, CapacityRespected, Present
<1>2. CASE Stores
  BY <1>0, <1>2, PutRespectsCapacity DEF Stores, CapacityInv
<1>3. CASE Marks
  <2>. PICK i \in Ids : /\ store[i].status = "queued"
                        /\ store' = [store EXCEPT ![i] = Claimed(@)]
    BY <1>3 DEF Marks
  <2>1. store'[i].status = "running" /\ \A k \in Ids \ {i} : store'[k] = store[k]
    BY <1>0 DEF Claimed, Slot
  <2>2. Present(store)' \subseteq Present(store)
    BY <2>1 DEF Present
  <2>. QED
    BY <2>1, <2>2, FewerRespectCapacity DEF CapacityInv, IsTerminalJobStatus
<1>4. CASE \E p \in Clients, i \in Ids : Delete(p, i)
  <2>. PICK p \in Clients, i \in Ids : Delete(p, i)
    BY <1>4
  <2>1. store'[i].status = "absent" /\ \A k \in Ids \ {i} : store'[k] = store[k]
    BY <1>0 DEF Delete, Absent
  <2>2. Present(store)' \subseteq Present(store)
    BY <2>1 DEF Present
  <2>. QED
    BY <2>1, <2>2, FewerRespectCapacity DEF CapacityInv, IsTerminalJobStatus
<1>. QED
  BY <1>1, <1>2, <1>3, <1>4, StoreSteps

LEMMA InitCapacity ==
  ASSUME Init
  PROVE  /\ CapacityInv
         /\ Cardinality(Seed) <= MaxJobs => CapacityRespected
<1>1. \A i \in Ids : ~IsTerminalJobStatus(store[i].status)
  BY DEF Init, CreateJobRecord, Absent, IsTerminalJobStatus
<1>2. Present(store) = Seed
  BY QueueAssumption DEF Init, CreateJobRecord, Absent, Present
<1>. QED
  BY <1>1, <1>2 DEF CapacityInv, CapacityRespected

-----------------------------------------------------------------------------
(* The attempt count of a record and the length of its attempt history.      *)
Sane(job) ==
  /\ job.attempts - job.hist \in {0, 1}
  /\ job.status \in {"queued", "succeeded"} => job.attempts = job.hist

CopiesMatchHistory ==
  /\ \A p \in Workers : at[p] \in Once =>
       /\ pc[p] = "claimed" => copy[p].attempts = copy[p].hist
       /\ pc[p] = "running" => copy[p].attempts = copy[p].hist + 1
  /\ \A c \in Clients : at[c] \in Once /\ pc[c] = "cancel" =>
       copy[c].attempts - copy[c].hist \in {0, 1}

HistoryInv == AttemptsMatchHistory /\ CopiesMatchHistory

LEMMA InitHistory == Init => HistoryInv
BY ProcsSplit
DEF Init, HistoryInv, AttemptsMatchHistory, CopiesMatchHistory, Present,
    CreateJobRecord, Absent

(* A sane record, or any record of a revived job, may be written. *)
LEMMA PutKeepsHistory ==
  ASSUME Typed, AttemptsMatchHistory, revived \subseteq revived',
         NEW i \in Ids, NEW job \in Slot, Put(i, job), i \in Once' => Sane(job)
  PROVE  AttemptsMatchHistory'
<1>1. /\ store'[i] \in {job, Absent}
      /\ \A k \in Ids \ {i} : store'[k] \in {store[k], Absent}
  BY PutEffect DEF Typed, TypeOK
<1>. SUFFICES ASSUME NEW k \in Ids, k \in Once', store'[k].status # "absent"
              PROVE  /\ store'[k].attempts - store'[k].hist \in {0, 1}
                     /\ store'[k].status \in {"queued", "succeeded"}
                          => store'[k].attempts = store'[k].hist
  BY DEF AttemptsMatchHistory, Present
<1>2. CASE k = i
  BY <1>1, <1>2 DEF Sane, Absent
<1>3. CASE k # i
  BY <1>1, <1>3 DEF AttemptsMatchHistory, Present, Once, Absent
<1>. QED
  BY <1>2, <1>3

LEMMA ClientHistory ==
  ASSUME AttemptInv, HistoryInv, NEW c \in Clients, ClientStep(c)
  PROVE  HistoryInv'
<1>. USE ProcsSplit, QueueAssumption
<1>0. /\ Typed /\ now \in Nat /\ copy[c] \in Slot /\ (pc[c] # "idle" => at[c] \in Ids)
      /\ store \in [Ids -> Slot] /\ \A delay \in Delays : now + delay \in Nat
  BY DEF AttemptInv, Typed, TypeOK, Shape
<1>1. revived \subseteq revived' /\ Once' \subseteq Once
  BY DEF ClientStep, EnqueueUnkeyed, EnqueueFind, EnqueueStore, CancelGet,
         CancelUpdate, RetryGet, RetryUpdate, Delete, TakeId, Once
<1>2. ASSUME NEW where \in PcValues, NEW i, NEW job, Reach(c, where, i, job),
             where = "cancel" /\ i \in Once => job.attempts - job.hist \in {0, 1}
      PROVE  CopiesMatchHistory'
  BY <1>0, <1>1, <1>2 DEF Reach, HistoryInv, CopiesMatchHistory, Typed, TypeOK
<1>3. ASSUME Return(c) PROVE CopiesMatchHistory'
  BY <1>2, <1>3 DEF Return, PcValues
<1>4. ASSUME UNCHANGED <<pc, at, copy>> PROVE CopiesMatchHistory'
  BY <1>1, <1>4 DEF HistoryInv, CopiesMatchHistory
<1>5. ASSUME NEW delay \in Delays
      PROVE  LET job == CreateJobRecord(now, now + delay) IN job \in Slot /\ Sane(job)
  BY <1>0, AbsentIsSlot, RecordsStaySlots DEF CreateJobRecord, Sane
<1>6. CASE \E i \in Ids, delay \in Delays : EnqueueUnkeyed(c, i, delay)
  BY <1>0, <1>1, <1>4, <1>5, <1>6, PutKeepsHistory DEF EnqueueUnkeyed, HistoryInv
<1>7. CASE \E delay \in Delays : EnqueueStore(c, delay)
  BY <1>0, <1>1, <1>3, <1>5, <1>7, PutKeepsHistory DEF EnqueueStore, HistoryInv
<1>8. CASE CancelUpdate(c)
  <2>1. Canceled(copy[c]) \in Slot
    BY <1>0, RecordsStaySlots
  <2>2. at[c] \in Once => Sane(Canceled(copy[c]))
    BY <1>0, <1>8 DEF CancelUpdate, HistoryInv, CopiesMatchHistory, Canceled, Sane, Slot
  <2>. QED
    BY <1>0, <1>1, <1>3, <1>8, <2>1, <2>2, PutKeepsHistory DEF CancelUpdate, HistoryInv
<1>9. CASE RetryUpdate(c)
  <2>1. Requeued(copy[c], now) \in Slot
    BY <1>0, RecordsStaySlots
  <2>2. at[c] \notin Once'
    BY <1>1, <1>9 DEF RetryUpdate, AttemptInv, RetryMarked, Once
  <2>. QED
    BY <1>0, <1>1, <1>3, <1>9, <2>1, <2>2, PutKeepsHistory DEF RetryUpdate, HistoryInv
<1>10. ASSUME UNCHANGED store PROVE AttemptsMatchHistory'
  BY <1>1, <1>10 DEF HistoryInv, AttemptsMatchHistory, Present
<1>11. CASE \E i \in Ids : EnqueueFind(c, i)
  BY <1>2, <1>10, <1>11 DEF EnqueueFind, HistoryInv, PcValues
<1>12. CASE \E i \in Ids : CancelGet(c, i)
  <2>. PICK i \in Ids : CancelGet(c, i)
    BY <1>12
  <2>1. i \in Once => store[i].attempts - store[i].hist \in {0, 1}
    BY DEF CancelGet, IsLive, HistoryInv, AttemptsMatchHistory, Present
  <2>. QED
    BY <1>2, <1>10, <2>1 DEF CancelGet, HistoryInv, PcValues
<1>13. CASE \E i \in Ids : RetryGet(c, i)
  BY <1>2, <1>10, <1>13 DEF RetryGet, HistoryInv, PcValues
<1>14. CASE \E i \in Ids : Delete(c, i)
  <2>1. AttemptsMatchHistory'
    BY <1>0, <1>1, <1>14 DEF Delete, HistoryInv, AttemptsMatchHistory, Present, Absent
  <2>. QED
    BY <1>4, <1>14, <2>1 DEF Delete, HistoryInv
<1>. QED
  BY <1>6, <1>7, <1>8, <1>9, <1>11, <1>12, <1>13, <1>14 DEF ClientStep

LEMMA WorkerHistory ==
  ASSUME AttemptInv, HistoryInv, NEW p \in Workers, WorkerStep(p)
  PROVE  HistoryInv'
<1>. USE ProcsSplit, QueueAssumption
<1>0. /\ Typed /\ now \in Nat /\ copy[p] \in Slot /\ (pc[p] # "idle" => at[p] \in Ids)
      /\ store \in [Ids -> Slot]
  BY DEF AttemptInv, Typed, TypeOK, Shape
<1>1. revived' = revived /\ Once' = Once
  BY DEF WorkerStep, Claim, RejectUnknown, StartHandler, FinishHandler,
         HandlerSucceeds, HandlerFails, Once
<1>2. ASSUME NEW where \in PcValues, NEW i, NEW job, Reach(p, where, i, job),
             i \in Once => /\ where = "claimed" => job.attempts = job.hist
                           /\ where = "running" => job.attempts = job.hist + 1
      PROVE  CopiesMatchHistory'
  BY <1>0, <1>1, <1>2 DEF Reach, HistoryInv, CopiesMatchHistory, Typed, TypeOK
<1>3. ASSUME Return(p) PROVE CopiesMatchHistory'
  BY <1>2, <1>3 DEF Return, PcValues
<1>4. CASE Claim(p)
  <2>. PICK i \in Ids : /\ store[i].status = "queued"
                        /\ store' = [store EXCEPT ![i] = Claimed(@)]
                        /\ Reach(p, "claimed", i, Claimed(store[i]))
    BY <1>4 DEF Claim, NextToClaim, Ready, IsJobReady
  <2>1. i \in Once => store[i].attempts = store[i].hist
    BY DEF HistoryInv, AttemptsMatchHistory, Present
  <2>2. /\ Claimed(store[i]).status = "running"
        /\ Claimed(store[i]).attempts = store[i].attempts
        /\ Claimed(store[i]).hist = store[i].hist
        /\ store[i].attempts \in Nat /\ store[i].hist \in Nat
    BY <1>0 DEF Claimed, Slot
  <2>3. AttemptsMatchHistory'
    <3>1. store'[i] = Claimed(store[i]) /\ \A k \in Ids \ {i} : store'[k] = store[k]
      BY <1>0
    <3>2. i \in Once => /\ store'[i].attempts - store'[i].hist \in {0, 1}
                        /\ store'[i].status \notin {"queued", "succeeded"}
      BY <2>1, <2>2, <3>1
    <3>. QED
      BY <1>1, <3>1, <3>2 DEF HistoryInv, AttemptsMatchHistory, Present
  <2>. QED
    BY <1>2, <2>1, <2>2, <2>3 DEF HistoryInv, PcValues
<1>5. CASE RejectUnknown(p)
  <2>1. Unknown(copy[p]) \in Slot
    BY <1>0, RecordsStaySlots
  <2>2. at[p] \in Once => Sane(Unknown(copy[p]))
    BY <1>0, <1>5 DEF RejectUnknown, HistoryInv, CopiesMatchHistory, Unknown, Sane, Slot
  <2>. QED
    BY <1>0, <1>1, <1>3, <1>5, <2>1, <2>2, PutKeepsHistory DEF RejectUnknown, HistoryInv
<1>6. CASE StartHandler(p)
  <2>1. Running(copy[p]) \in Slot
    BY <1>0, RecordsStaySlots
  <2>2. at[p] \in Once => /\ Sane(Running(copy[p]))
                          /\ Running(copy[p]).attempts = Running(copy[p]).hist + 1
    BY <1>0, <1>6 DEF StartHandler, HistoryInv, CopiesMatchHistory, Running, Sane, Slot
  <2>3. CopiesMatchHistory'
    BY <1>2, <1>6, <2>2 DEF StartHandler, PcValues
  <2>. QED
    BY <1>0, <1>1, <1>6, <2>1, <2>2, <2>3, PutKeepsHistory DEF StartHandler, HistoryInv
<1>7. CASE HandlerSucceeds(p)
  <2>1. Succeeded(copy[p]) \in Slot
    BY <1>0, RecordsStaySlots
  <2>2. at[p] \in Once => Sane(Succeeded(copy[p]))
    BY <1>0, <1>7 DEF HandlerSucceeds, HistoryInv, CopiesMatchHistory, Succeeded, Sane, Slot
  <2>. QED
    BY <1>0, <1>1, <1>3, <1>7, <2>1, <2>2, PutKeepsHistory DEF HandlerSucceeds, HistoryInv
<1>8. CASE HandlerFails(p)
  <2>1. CreateFailedJobRecord(copy[p], now) \in Slot
    BY <1>0, RecordsStaySlots
  <2>2. at[p] \in Once => Sane(CreateFailedJobRecord(copy[p], now))
    BY <1>0, <1>8
    DEF HandlerFails, HistoryInv, CopiesMatchHistory, CreateFailedJobRecord, Sane, Slot
  <2>. QED
    BY <1>0, <1>1, <1>3, <1>8, <2>1, <2>2, PutKeepsHistory DEF HandlerFails, HistoryInv
<1>. QED
  BY <1>4, <1>5, <1>6, <1>7, <1>8 DEF WorkerStep, FinishHandler

LEMMA NextHistory == AttemptInv /\ HistoryInv /\ [Next]_vars => HistoryInv'
<1>. SUFFICES ASSUME AttemptInv, HistoryInv, [Next]_vars PROVE HistoryInv'
  OBVIOUS
<1>1. CASE Tick \/ UNCHANGED vars
  BY <1>1 DEF Tick, vars, HistoryInv, AttemptsMatchHistory, CopiesMatchHistory, Once, Present
<1>. QED
  BY <1>1, ClientHistory, WorkerHistory DEF Next

(* As long as the queue is not handed more jobs than it may keep, the store  *)
(* is sound in every state: its records have their types, there are at most  *)
(* maxJobs of them, the attempt count of a record and its attempt history    *)
(* agree, and no job runs more often than its retry options allow.  Every    *)
(* write is an upsert of a copy taken before an await; nothing is locked.    *)
THEOREM StoreStaysSound ==
  ASSUME Cardinality(Seed) <= MaxJobs
  PROVE  Spec => []StoreIsSound
<1>1. Init => CapacityRespected
  BY InitCapacity
<1>2. Typed /\ CapacityRespected /\ [Next]_vars => CapacityRespected'
  BY NextCapacity
<1>3. AttemptInv /\ HistoryInv /\ CapacityRespected => StoreIsSound
  BY DEF AttemptInv, Typed, HistoryInv, StoreIsSound, QueuedCountsRuns, RunsWithinBudget
<1>. QED
  BY <1>1, <1>2, <1>3, AlwaysTyped, AlwaysAttempt, InitHistory, NextHistory, PTL DEF Spec

LEMMA AlwaysCapacity == Spec => []CapacityInv
<1>1. Init => CapacityInv
  BY InitCapacity
<1>2. Typed /\ CapacityInv /\ [Next]_vars => CapacityInv'
  BY NextCapacity
<1>. QED
  BY <1>1, <1>2, AlwaysTyped, PTL DEF Spec

-----------------------------------------------------------------------------
LEMMA StepSparesLive ==
  ASSUME Typed, CapacityInv, [Next]_vars,
         NEW i \in Ids, IsLive(store[i]), store'[i] = Absent
  PROVE  \/ \A k \in Ids : ~IsTerminalJobStatus(store'[k].status)
         \/ \E p \in Clients : Delete(p, i)
<1>0. store \in [Ids -> Slot] /\ MaxJobs \in Nat
  BY QueueAssumption DEF Typed, TypeOK
<1>1. CASE UNCHANGED store
  BY <1>1 DEF IsLive, Absent
<1>2. CASE Stores
  <2>. PICK j \in Ids, job \in Slot : job.status # "absent" /\ Put(j, job)
    BY <1>2 DEF Stores
  <2> DEFINE s == [store EXCEPT ![j] = job]
  <2>1. s \in [Ids -> Slot] /\ store' = EvictOverflowJobs(s, MaxJobs)
    BY <1>0 DEF Put
  <2>2. s[j] = job /\ \A k \in Ids \ {j} : s[k] = store[k]
    BY <1>0
  <2>. HIDE DEF s
  <2>3. CASE IsLive(s[i])
    <3>. SUFFICES ASSUME NEW k \in Ids, IsTerminalJobStatus(store'[k].status)
                  PROVE  FALSE
      OBVIOUS
    <3>1. store'[k] \in {s[k], Absent}
      BY <2>1, EvictionDropsOrKeeps
    <3>2. IsTerminalJobStatus(s[k].status)
      BY <3>1 DEF IsTerminalJobStatus, Absent
    <3>3. store'[k] = Absent
      BY <1>0, <2>1, <2>3, <3>2, LiveGoLast
    <3>. QED
      BY <3>3 DEF IsTerminalJobStatus, Absent
  <2>4. CASE ~IsLive(s[i])
    <3>1. i = j /\ s[i] = job
      BY <2>2, <2>4
    <3>2. CASE CapacityRespected
      <4>1. Present(s) = Present(store)
        BY <2>2, <3>1 DEF Present, IsLive
      <4>2. store' = s
        BY <1>0, <2>1, <3>2, <4>1, NoOverflow DEF CapacityRespected
      <4>. QED
        BY <3>1, <4>2 DEF Absent
    <3>3. CASE \A k \in Ids : ~IsTerminalJobStatus(store[k].status)
      <4>. SUFFICES ASSUME NEW k \in Ids PROVE ~IsTerminalJobStatus(store'[k].status)
        OBVIOUS
      <4>1. store'[k] \in {s[k], Absent}
        BY <2>1, EvictionDropsOrKeeps
      <4>. QED
        BY <2>2, <3>1, <3>3, <4>1 DEF IsTerminalJobStatus, Absent
    <3>. QED
      BY <3>2, <3>3 DEF CapacityInv
  <2>. QED
    BY <2>3, <2>4
<1>3. CASE Marks
  BY <1>0, <1>3 DEF Marks, Claimed, Slot, IsLive, Absent
<1>4. CASE \E p \in Clients, k \in Ids : Delete(p, k)
  <2>. PICK p \in Clients, k \in Ids : Delete(p, k)
    BY <1>4
  <2>1. k = i
    BY <1>0 DEF Delete, IsLive, Absent
  <2>. QED
    BY <2>1
<1>. QED
  BY <1>1, <1>2, <1>3, <1>4, StoreSteps

(* No write, not even one of a record that was evicted or deleted meanwhile, *)
(* pushes a waiting or running job out of the store while a finished one     *)
(* stays; also when the queue was seeded with more jobs than it may keep.    *)
THEOREM LiveJobsSpared == Spec => EvictionSparesLiveJobs
<1>1. Typed /\ CapacityInv /\ [Next]_vars =>
        [\A i \in Ids :
           IsLive(store[i]) /\ store'[i] = Absent =>
             \/ \A k \in Ids : ~IsTerminalJobStatus(store'[k].status)
             \/ \E p \in Clients : Delete(p, i)]_vars
  BY StepSparesLive
<1>. QED
  BY <1>1, AlwaysTyped, AlwaysCapacity, PTL DEF Spec, EvictionSparesLiveJobs

-----------------------------------------------------------------------------
(* Who wrote a record that was neither there before nor dropped.             *)
LEMMA WhoWrites ==
  ASSUME Typed, [Next]_vars, NEW i \in Ids
  PROVE  \/ store'[i] = store[i] \/ store'[i] = Absent
         \/ \E c \in Clients, delay \in Delays :
              /\ EnqueueUnkeyed(c, i, delay) \/ (EnqueueStore(c, delay) /\ at[c] = i)
              /\ store'[i] = CreateJobRecord(now, now + delay)
         \/ \E c \in Clients :
              \/ CancelUpdate(c) /\ at[c] = i /\ store'[i] = Canceled(copy[c])
              \/ RetryUpdate(c) /\ at[c] = i
         \/ \E p \in Workers :
              /\ Claim(p) /\ at'[p] = i /\ pc'[p] = "claimed"
              /\ store[i].status = "queued" /\ store'[i] = Claimed(store[i])
         \/ \E p \in Workers :
              /\ Holds(p, i)
              /\ \/ RejectUnknown(p) /\ store'[i] = Unknown(copy[p])
                 \/ StartHandler(p) /\ store'[i] = Running(copy[p])
                 \/ HandlerSucceeds(p) /\ store'[i] = Succeeded(copy[p])
                 \/ HandlerFails(p) /\ store'[i] = CreateFailedJobRecord(copy[p], now)
<1>. USE ProcsSplit, QueueAssumption
<1>0. /\ now \in Nat /\ \A delay \in Delays : now + delay \in Nat
      /\ \A p \in Procs : copy[p] \in Slot /\ (pc[p] # "idle" => at[p] \in Ids)
      /\ store \in [Ids -> Slot] /\ older \in SUBSET (Ids \X Ids)
      /\ at \in [Procs -> Ids \cup {NoId}] /\ pc \in [Procs -> PcValues]
  BY DEF Typed, TypeOK, Shape
<1>1. ASSUME NEW j \in Ids, NEW job \in Slot, Put(j, job)
      PROVE  \/ store'[i] = store[i] \/ store'[i] = Absent
             \/ i = j /\ store'[i] = job
  BY <1>0, <1>1, PutEffect
<1>2. ASSUME NEW c \in Clients, ClientStep(c),
             store'[i] # store[i], store'[i] # Absent
      PROVE  \/ \E delay \in Delays :
                  /\ EnqueueUnkeyed(c, i, delay) \/ (EnqueueStore(c, delay) /\ at[c] = i)
                  /\ store'[i] = CreateJobRecord(now, now + delay)
             \/ CancelUpdate(c) /\ at[c] = i /\ store'[i] = Canceled(copy[c])
             \/ RetryUpdate(c) /\ at[c] = i
  <2>0. copy[c] \in Slot
    BY <1>0
  <2>1. /\ \A delay \in Delays : CreateJobRecord(now, now + delay) \in Slot
        /\ Canceled(copy[c]) \in Slot /\ Requeued(copy[c], now) \in Slot
    BY <1>0, <2>0, RecordsStaySlots
  <2>2. ASSUME NEW j \in Ids, NEW delay \in Delays, EnqueueUnkeyed(c, j, delay)
        PROVE  j = i /\ store'[i] = CreateJobRecord(now, now + delay)
    BY <1>1, <1>2, <2>1, <2>2 DEF EnqueueUnkeyed
  <2>3. ASSUME NEW delay \in Delays, EnqueueStore(c, delay)
        PROVE  at[c] = i /\ store'[i] = CreateJobRecord(now, now + delay)
    BY <1>0, <1>1, <1>2, <2>1, <2>3 DEF EnqueueStore
  <2>4. CancelUpdate(c) => at[c] = i /\ store'[i] = Canceled(copy[c])
    BY <1>0, <1>1, <1>2, <2>1 DEF CancelUpdate
  <2>5. RetryUpdate(c) => at[c] = i
    BY <1>0, <1>1, <1>2, <2>1 DEF RetryUpdate
  <2>6. ~ \E j \in Ids : EnqueueFind(c, j) \/ CancelGet(c, j) \/ RetryGet(c, j) \/ Delete(c, j)
    BY <1>0, <1>2 DEF EnqueueFind, CancelGet, RetryGet, Delete
  <2>. QED
    BY <1>2, <2>2, <2>3, <2>4, <2>5, <2>6 DEF ClientStep
<1>3. ASSUME NEW p \in Workers, WorkerStep(p), store'[i] # store[i], store'[i] # Absent
      PROVE  \/ /\ Claim(p) /\ at'[p] = i /\ pc'[p] = "claimed"
                /\ store[i].status = "queued" /\ store'[i] = Claimed(store[i])
             \/ /\ Holds(p, i)
                /\ \/ RejectUnknown(p) /\ store'[i] = Unknown(copy[p])
                   \/ StartHandler(p) /\ store'[i] = Running(copy[p])
                   \/ HandlerSucceeds(p) /\ store'[i] = Succeeded(copy[p])
                   \/ HandlerFails(p) /\ store'[i] = CreateFailedJobRecord(copy[p], now)
  <2>0. copy[p] \in Slot
    BY <1>0
  <2>1. /\ Unknown(copy[p]) \in Slot /\ Running(copy[p]) \in Slot
        /\ Succeeded(copy[p]) \in Slot /\ CreateFailedJobRecord(copy[p], now) \in Slot
    BY <1>0, <2>0, RecordsStaySlots
  <2>2. CASE Claim(p)
    <3>. PICK j \in Ids : /\ store[j].status = "queued"
                          /\ store' = [store EXCEPT ![j] = Claimed(@)]
                          /\ Reach(p, "claimed", j, Claimed(store[j]))
      BY <2>2 DEF Claim, NextToClaim, Ready, IsJobReady
    <3>1. j = i /\ store'[i] = Claimed(store[i])
      BY <1>0, <1>3
    <3>. QED
      BY <1>0, <2>2, <3>1 DEF Reach
  <2>3. CASE RejectUnknown(p)
    BY <1>0, <1>1, <1>3, <2>1, <2>3 DEF RejectUnknown, Holds
  <2>4. CASE StartHandler(p)
    BY <1>0, <1>1, <1>3, <2>1, <2>4 DEF StartHandler, Holds
  <2>5. CASE HandlerSucceeds(p)
    BY <1>0, <1>1, <1>3, <2>1, <2>5 DEF HandlerSucceeds, Holds
  <2>6. CASE HandlerFails(p)
    BY <1>0, <1>1, <1>3, <2>1, <2>6 DEF HandlerFails, Holds
  <2>. QED
    BY <1>3, <2>2, <2>3, <2>4, <2>5, <2>6 DEF WorkerStep, FinishHandler
<1>4. CASE Tick \/ UNCHANGED vars
  BY <1>4 DEF Tick, vars
<1>. QED
  BY <1>2, <1>3, <1>4 DEF Next

(* A job in some worker's hands has not succeeded: a success is written by    *)
(* the job's one holder, which lets go of it.                                *)
SuccessNotHeld ==
  \A p \in Workers, i \in Once : Holds(p, i) => store[i].status # "succeeded"

LEMMA InitSuccess == Init => SuccessNotHeld
BY ProcsSplit DEF Init, SuccessNotHeld, Holds

(* Who has a job in hand had it before, or has just claimed it.              *)
LEMMA WhoHolds ==
  ASSUME Typed, [Next]_vars, NEW p \in Workers, NEW i \in Ids, Holds(p, i)'
  PROVE  \/ Holds(p, i) /\ ~RejectUnknown(p) /\ ~FinishHandler(p)
         \/ Claim(p) /\ store'[i] = Claimed(store[i]) /\ store[i].status = "queued"
<1>. USE ProcsSplit, QueueAssumption
<1>0. pc \in [Procs -> PcValues] /\ at \in [Procs -> Ids \cup {NoId}]
      /\ store \in [Ids -> Slot]
  BY DEF Typed, TypeOK
<1>1. CASE ~Claim(p)
  <2>1. ~RejectUnknown(p) /\ ~FinishHandler(p)
    BY <1>0 DEF RejectUnknown, FinishHandler, HandlerSucceeds, HandlerFails,
                Return, Reach, Holds
  <2>2. CASE \E c \in Clients : ClientStep(c)
    <3>1. pc'[p] = pc[p] /\ at'[p] = at[p]
      BY <1>0, <2>2
      DEF ClientStep, EnqueueUnkeyed, EnqueueFind, EnqueueStore, CancelGet,
          CancelUpdate, RetryGet, RetryUpdate, Delete, Return, Reach
    <3>. QED
      BY <2>1, <3>1 DEF Holds
  <2>3. CASE \E q \in Workers : WorkerStep(q)
    <3>. PICK q \in Workers : WorkerStep(q)
      BY <2>3
    <3>1. CASE q = p
      BY <1>0, <1>1, <2>1, <3>1 DEF WorkerStep, StartHandler, Reach, Holds
    <3>2. CASE q # p
      <4>1. pc'[p] = pc[p] /\ at'[p] = at[p]
        BY <1>0, <3>2 DEF WorkerStep, Claim, RejectUnknown, StartHandler,
              FinishHandler, HandlerSucceeds, HandlerFails, Return, Reach
      <4>. QED
        BY <2>1, <4>1 DEF Holds
    <3>. QED
      BY <3>1, <3>2
  <2>4. CASE Tick \/ UNCHANGED vars
    BY <2>1, <2>4 DEF Tick, vars, Holds
  <2>. QED
    BY <2>2, <2>3, <2>4 DEF Next
<1>2. CASE Claim(p)
  <2>. PICK j \in Ids : /\ store[j].status = "queued"
                        /\ store' = [store EXCEPT ![j] = Claimed(@)]
                        /\ Reach(p, "claimed", j, Claimed(store[j]))
    BY <1>2 DEF Claim, NextToClaim, Ready, IsJobReady
  <2>1. j = i
    BY <1>0 DEF Reach, Holds
  <2>. QED
    BY <1>0, <1>2, <2>1
<1>. QED
  BY <1>1, <1>2

LEMMA StatusesWritten ==
  ASSUME NEW job \in Slot, NEW t
  PROVE  /\ Claimed(job).status = "running" /\ Running(job).status = "running"
         /\ Unknown(job).status = "dead" /\ Canceled(job).status = "canceled"
         /\ Succeeded(job).status = "succeeded" /\ Requeued(job, t).status = "queued"
         /\ CreateFailedJobRecord(job, t).status \in {"queued", "dead"}
         /\ CreateJobRecord(t, t).status = "queued"
BY DEF Slot, Claimed, Running, Unknown, Canceled, Succeeded, Requeued,
       CreateFailedJobRecord, CreateJobRecord

(* Only the handler's success of a job records one.                          *)
LEMMA WhoSucceeds ==
  ASSUME Typed, [Next]_vars, NEW i \in Ids, store'[i].status = "succeeded"
  PROVE  \/ store[i].status = "succeeded"
         \/ \E p \in Workers : HandlerSucceeds(p) /\ Holds(p, i)
         \/ \E c \in Clients : RetryUpdate(c) /\ at[c] = i
<1>1. \A p \in Procs : copy[p] \in Slot
  BY DEF Typed, TypeOK
<1>2. store[i] \in Slot
  BY DEF Typed, TypeOK
<1>3. \A p \in Procs :
        /\ Unknown(copy[p]).status = "dead" /\ Canceled(copy[p]).status = "canceled"
        /\ Running(copy[p]).status = "running"
        /\ CreateFailedJobRecord(copy[p], now).status \in {"queued", "dead"}
  BY <1>1, StatusesWritten
<1>4. Claimed(store[i]).status = "running" /\ Absent.status = "absent"
      /\ \A delay \in Delays : CreateJobRecord(now, now + delay).status = "queued"
  BY <1>2, StatusesWritten DEF Absent, CreateJobRecord
<1>. QED
  BY <1>3, <1>4, WhoWrites, ProcsSplit

LEMMA NextSuccess == AttemptInv /\ SuccessNotHeld /\ [Next]_vars => SuccessNotHeld'
<1>. SUFFICES ASSUME AttemptInv, SuccessNotHeld, [Next]_vars,
                     NEW p \in Workers, NEW i \in Ids, i \in Once', Holds(p, i)',
                     store'[i].status = "succeeded"
              PROVE  FALSE
  BY DEF SuccessNotHeld, Once
<1>1. Typed /\ i \in Once
  <2>1. revived \subseteq revived'
    BY DEF Next, ClientStep, EnqueueUnkeyed, EnqueueFind, EnqueueStore, CancelGet,
           CancelUpdate, RetryGet, RetryUpdate, Delete, TakeId, WorkerStep, Claim,
           RejectUnknown, StartHandler, FinishHandler, HandlerSucceeds, HandlerFails,
           Tick, vars
  <2>. QED
    BY <2>1 DEF Once, AttemptInv
<1>2. CASE Claim(p) /\ store'[i] = Claimed(store[i])
  BY <1>1, <1>2, StatusesWritten DEF Typed, TypeOK
<1>3. CASE Holds(p, i) /\ ~FinishHandler(p)
  <2>1. store[i].status # "succeeded"
    BY <1>1, <1>3 DEF SuccessNotHeld
  <2>2. ASSUME NEW q \in Workers, HandlerSucceeds(q), Holds(q, i) PROVE FALSE
    BY <1>1, <1>3, <2>2 DEF AttemptInv, HandlersExclusive, FinishHandler
  <2>3. ASSUME NEW c \in Clients, RetryUpdate(c), at[c] = i PROVE FALSE
    BY <1>1, <2>3 DEF RetryUpdate, AttemptInv, RetryMarked, Once
  <2>. QED
    BY <1>1, <2>1, <2>2, <2>3, WhoSucceeds
<1>. QED
  BY <1>1, <1>2, <1>3, WhoHolds

LEMMA StepKeepsSuccess ==
  ASSUME AttemptInv, SuccessNotHeld, [Next]_vars,
         NEW i \in Ids, i \notin revived', store[i].status = "succeeded"
  PROVE  store'[i].status \in {"succeeded", "canceled", "absent"}
<1>0. Typed /\ Absent.status = "absent" /\ \A p \in Procs : copy[p] \in Slot
  BY DEF AttemptInv, Typed, TypeOK, Absent
<1>1. i \in used
  BY DEF AttemptInv, UnusedUntouched
<1>2. ASSUME NEW c \in Clients, NEW delay \in Delays, EnqueueUnkeyed(c, i, delay)
      PROVE  FALSE
  BY <1>1, <1>2 DEF EnqueueUnkeyed, TakeId
<1>3. ASSUME NEW c \in Clients, NEW delay \in Delays, EnqueueStore(c, delay), at[c] = i
      PROVE  FALSE
  BY <1>3 DEF EnqueueStore, AttemptInv, PendingUntouched, Once
<1>4. ASSUME NEW c \in Clients, RetryUpdate(c), at[c] = i
      PROVE  FALSE
  BY <1>4 DEF RetryUpdate, AttemptInv, RetryMarked
<1>5. ASSUME NEW p \in Workers, Holds(p, i),
             RejectUnknown(p) \/ StartHandler(p) \/ FinishHandler(p)
      PROVE  FALSE
  <2>1. revived' = revived
    BY <1>5 DEF RejectUnknown, StartHandler, FinishHandler, HandlerSucceeds, HandlerFails
  <2>. QED
    BY <1>5, <2>1 DEF SuccessNotHeld, Once
<1>6. \A c \in Clients : Canceled(copy[c]).status = "canceled"
  BY <1>0, ProcsSplit, StatusesWritten
<1>. QED
  BY <1>0, <1>2, <1>3, <1>4, <1>5, <1>6, WhoWrites DEF FinishHandler

(* A success that was recorded stays recorded: no stale copy of the job, held  *)
(* by a worker or by a caller across an await, puts it back to work.  Only a   *)
(* cancel that read the job before it finished can still overwrite it.         *)
THEOREM SuccessIsFinal == Spec => SuccessNotUndone
<1>1. AttemptInv /\ SuccessNotHeld /\ [Next]_vars =>
        [\A i \in Ids \ revived' :
           store[i].status = "succeeded"
             => store'[i].status \in {"succeeded", "canceled", "absent"}]_vars
  BY StepKeepsSuccess
<1>. QED
  BY <1>1, AlwaysAttempt, InitSuccess, NextSuccess, PTL DEF Spec, SuccessNotUndone

-----------------------------------------------------------------------------
(* The refinement: callers only enqueue new jobs and there is room for all.   *)
Quiet == Ops = {} /\ Cardinality(Ids) <= MaxJobs

HeldIsRunning ==
  \A p \in Workers, i \in Ids : Holds(p, i) => store[i].status = "running"

QuietInv == revived = {} /\ HeldIsRunning

LEMMA QuietPut ==
  ASSUME Quiet, Typed, NEW i \in Ids, NEW job \in Slot, Put(i, job)
  PROVE  store' = [store EXCEPT ![i] = job]
<1> DEFINE s == [store EXCEPT ![i] = job]
<1>1. s \in [Ids -> Slot] /\ store' = EvictOverflowJobs(s, MaxJobs)
  BY DEF Put, Typed, TypeOK
<1>. HIDE DEF s
<1>2. Present(s) \in SUBSET Ids /\ IsFiniteSet(Ids) /\ MaxJobs \in Nat
  BY PresentFinite, RetryAssumption, QueueAssumption
<1>3. /\ Cardinality(Present(s)) <= Cardinality(Ids)
      /\ Cardinality(Present(s)) \in Nat /\ Cardinality(Ids) \in Nat
  BY <1>2, FS_Subset, FS_CardinalityType
<1>4. Cardinality(Present(s)) <= MaxJobs
  BY <1>2, <1>3 DEF Quiet
<1>. QED
  BY <1>1, <1>2, <1>4, NoOverflow DEF s

LEMMA QuietCalls ==
  ASSUME Quiet, Typed, QuietInv, [Next]_vars
  PROVE  /\ revived' = {}
         /\ \A c \in Clients, i \in Ids :
              ~CancelGet(c, i) /\ ~RetryGet(c, i) /\ ~Delete(c, i)
         /\ \A c \in Clients : ~CancelUpdate(c) /\ ~RetryUpdate(c)
<1>1. /\ \A c \in Clients, i \in Ids :
           ~CancelGet(c, i) /\ ~RetryGet(c, i) /\ ~Delete(c, i)
      /\ \A c \in Clients : ~CancelUpdate(c) /\ ~RetryUpdate(c)
  BY DEF Quiet, CancelGet, RetryGet, Delete, CancelUpdate, RetryUpdate, Typed, Shape
<1>2. revived' = revived
  BY <1>1
  DEF Quiet, Next, ClientStep, EnqueueUnkeyed, EnqueueFind, EnqueueStore, TakeId,
      WorkerStep, Claim, RejectUnknown, StartHandler, FinishHandler, HandlerSucceeds,
      HandlerFails, Tick, vars
<1>. QED
  BY <1>1, <1>2 DEF QuietInv

(* A caller's one effect is a new job.                                       *)
LEMMA QuietClient ==
  ASSUME Quiet, AttemptInv, QuietInv, NEW c \in Clients, ClientStep(c)
  PROVE  /\ runs' = runs
         /\ \A p \in Workers : pc'[p] = pc[p] /\ at'[p] = at[p]
         /\ \/ UNCHANGED store
            \/ \E i \in Ids, job \in Slot :
                 /\ store[i].status = "absent" /\ job.status = "queued"
                 /\ store' = [store EXCEPT ![i] = job]
<1>. USE ProcsSplit, QueueAssumption
<1>0. /\ Typed /\ now \in Nat /\ (pc[c] # "idle" => at[c] \in Ids)
      /\ \A delay \in Delays : now + delay \in Nat
  BY DEF AttemptInv, Typed, TypeOK, Shape
<1>1. ASSUME NEW delay \in Delays
      PROVE  LET job == CreateJobRecord(now, now + delay)
             IN  job \in Slot /\ job.status = "queued"
  BY <1>0, AbsentIsSlot, RecordsStaySlots DEF CreateJobRecord
<1>2. CASE \E i \in Ids, delay \in Delays : EnqueueUnkeyed(c, i, delay)
  <2>. PICK i \in Ids, delay \in Delays : EnqueueUnkeyed(c, i, delay)
    BY <1>2
  <2>1. store[i].status = "absent"
    BY DEF Quiet, EnqueueUnkeyed, TakeId, AttemptInv, UnusedUntouched
  <2>2. store' = [store EXCEPT ![i] = CreateJobRecord(now, now + delay)]
    BY <1>0, <1>1, QuietPut DEF EnqueueUnkeyed
  <2>. QED
    BY <1>1, <2>1, <2>2 DEF EnqueueUnkeyed
<1>3. CASE \E i \in Ids : EnqueueFind(c, i)
  BY <1>3 DEF EnqueueFind, Reach, AttemptInv, Typed, TypeOK
<1>4. CASE \E delay \in Delays : EnqueueStore(c, delay)
  <2>. PICK delay \in Delays : EnqueueStore(c, delay)
    BY <1>4
  <2>1. at[c] \in Ids /\ store[at[c]].status = "absent"
    BY <1>0 DEF EnqueueStore, AttemptInv, PendingUntouched, QuietInv, Once
  <2>2. store' = [store EXCEPT ![at[c]] = CreateJobRecord(now, now + delay)]
    BY <1>0, <1>1, <2>1, QuietPut DEF EnqueueStore
  <2>3. \A p \in Workers : pc'[p] = pc[p] /\ at'[p] = at[p]
    BY DEF EnqueueStore, Return, Reach, AttemptInv, Typed, TypeOK
  <2>. QED
    BY <1>1, <2>1, <2>2, <2>3 DEF EnqueueStore
<1>. QED
  BY <1>2, <1>3, <1>4
  DEF ClientStep, Quiet, CancelGet, RetryGet, Delete, CancelUpdate, RetryUpdate,
      AttemptInv, Typed, Shape

(* What a worker's step does to the one job it works on.                     *)
LEMMA QuietWorker ==
  ASSUME Quiet, AttemptInv, QuietInv, NEW p \in Workers, WorkerStep(p)
  PROVE  \E i \in Ids, job \in Slot :
           /\ store' = [store EXCEPT ![i] = job]
           /\ \A q \in Workers \ {p} : pc'[q] = pc[q] /\ at'[q] = at[q] /\ ~Holds(q, i)
           /\ \/ /\ pc[p] = "idle" /\ store[i].status = "queued"
                 /\ pc'[p] = "claimed" /\ at'[p] = i /\ job.status = "running"
                 /\ runs' = runs
              \/ /\ pc[p] = "claimed" /\ at[p] = i /\ pc'[p] = "idle"
                 /\ job.status = "dead" /\ runs' = runs
              \/ /\ pc[p] = "claimed" /\ at[p] = i
                 /\ pc'[p] = "running" /\ at'[p] = i /\ job.status = "running"
                 /\ runs[i] < MaxAttempts /\ runs' = [runs EXCEPT ![i] = @ + 1]
              \/ /\ pc[p] = "running" /\ at[p] = i /\ pc'[p] = "idle"
                 /\ runs' = runs
                 /\ \/ job.status = "succeeded"
                    \/ job.status = "queued" /\ runs[i] < MaxAttempts
                    \/ job.status = "dead" /\ runs[i] = MaxAttempts
<1>. USE ProcsSplit, QueueAssumption
<1>0. /\ Typed /\ now \in Nat /\ copy[p] \in Slot /\ (pc[p] # "idle" => at[p] \in Ids)
      /\ store \in [Ids -> Slot] /\ Once = Ids
      /\ pc \in [Procs -> PcValues] /\ at \in [Procs -> Ids \cup {NoId}]
      /\ \A i \in Ids : store[i] \in Slot
  BY DEF AttemptInv, Typed, TypeOK, Shape, Once, QuietInv
<1>1. \A q \in Workers \ {p} : pc'[q] = pc[q] /\ at'[q] = at[q]
  BY <1>0 DEF WorkerStep, Claim, RejectUnknown, StartHandler, FinishHandler,
              HandlerSucceeds, HandlerFails, Return, Reach
<1>2. ASSUME pc[p] # "idle" PROVE \A q \in Workers \ {p} : ~Holds(q, at[p])
  BY <1>0, <1>2 DEF AttemptInv, HandlersExclusive, Holds, Typed, Shape
<1>3. CASE Claim(p)
  <2>. PICK i \in Ids : /\ store[i].status = "queued"
                        /\ store' = [store EXCEPT ![i] = Claimed(@)]
                        /\ Reach(p, "claimed", i, Claimed(store[i]))
    BY <1>3 DEF Claim, NextToClaim, Ready, IsJobReady
  <2>1. Claimed(store[i]) \in Slot /\ Claimed(store[i]).status = "running"
    BY <1>0, RecordsStaySlots, StatusesWritten
  <2>2. \A q \in Workers : ~Holds(q, i)
    BY <1>0 DEF AttemptInv, HeldNotQueued
  <2>3. store' = [store EXCEPT ![i] = Claimed(store[i])]
    BY <1>0
  <2>4. /\ pc[p] = "idle" /\ pc'[p] = "claimed" /\ at'[p] = i /\ runs' = runs
    BY <1>0, <1>3 DEF Claim, Reach
  <2>. QED
    BY <1>1, <2>1, <2>2, <2>3, <2>4
<1>4. CASE RejectUnknown(p)
  <2>1. Unknown(copy[p]) \in Slot /\ Unknown(copy[p]).status = "dead"
    BY <1>0, RecordsStaySlots, StatusesWritten
  <2>2. pc[p] = "claimed" /\ at[p] \in Ids /\ pc'[p] = "idle" /\ runs' = runs
    BY <1>0, <1>4 DEF RejectUnknown, Return, Reach
  <2>3. store' = [store EXCEPT ![at[p]] = Unknown(copy[p])]
    BY <1>0, <1>4, <2>1, <2>2, QuietPut DEF RejectUnknown
  <2>. QED
    BY <1>1, <1>2, <2>1, <2>2, <2>3
<1>5. CASE StartHandler(p)
  <2>1. Running(copy[p]) \in Slot /\ Running(copy[p]).status = "running"
    BY <1>0, RecordsStaySlots, StatusesWritten
  <2>2. /\ pc[p] = "claimed" /\ at[p] \in Ids /\ pc'[p] = "running" /\ at'[p] = at[p]
        /\ runs' = [runs EXCEPT ![at[p]] = @ + 1]
    BY <1>0, <1>5 DEF StartHandler, Reach
  <2>3. store' = [store EXCEPT ![at[p]] = Running(copy[p])]
    BY <1>0, <1>5, <2>1, <2>2, QuietPut DEF StartHandler
  <2>4. runs[at[p]] < MaxAttempts
    BY <1>0, <2>2 DEF AttemptInv, HeldCountsRuns
  <2>. QED
    BY <1>1, <1>2, <2>1, <2>2, <2>3, <2>4
<1>6. CASE HandlerSucceeds(p)
  <2>1. Succeeded(copy[p]) \in Slot /\ Succeeded(copy[p]).status = "succeeded"
    BY <1>0, RecordsStaySlots, StatusesWritten
  <2>2. pc[p] = "running" /\ at[p] \in Ids /\ pc'[p] = "idle" /\ runs' = runs
    BY <1>0, <1>6 DEF HandlerSucceeds, Return, Reach
  <2>3. store' = [store EXCEPT ![at[p]] = Succeeded(copy[p])]
    BY <1>0, <1>6, <2>1, <2>2, QuietPut DEF HandlerSucceeds
  <2>. QED
    BY <1>1, <1>2, <2>1, <2>2, <2>3
<1>7. CASE HandlerFails(p)
  <2> DEFINE job == CreateFailedJobRecord(copy[p], now)
  <2>1. job \in Slot
    BY <1>0, RecordsStaySlots
  <2>2. pc[p] = "running" /\ at[p] \in Ids /\ pc'[p] = "idle" /\ runs' = runs
    BY <1>0, <1>7 DEF HandlerFails, Return, Reach
  <2>3. store' = [store EXCEPT ![at[p]] = job]
    BY <1>0, <1>7, <2>1, <2>2, QuietPut DEF HandlerFails
  <2>4. \/ job.status = "queued" /\ copy[p].attempts < MaxAttempts
        \/ job.status = "dead" /\ ~(copy[p].attempts < MaxAttempts)
    BY <1>0 DEF CreateFailedJobRecord, Slot
  <2>5. copy[p].attempts = runs[at[p]] /\ runs[at[p]] <= MaxAttempts
        /\ runs[at[p]] \in Nat /\ MaxAttempts \in Nat
    BY <1>0, <2>2, RetryAssumption
    DEF AttemptInv, HeldCountsRuns, QueuedCountsRuns, Typed, TypeOK
  <2>. HIDE DEF job
  <2>6. \/ job.status = "queued" /\ runs[at[p]] < MaxAttempts
        \/ job.status = "dead" /\ runs[at[p]] = MaxAttempts
    BY <2>4, <2>5
  <2>. QED
    BY <1>1, <1>2, <2>1, <2>2, <2>3, <2>6
<1>. QED
  BY <1>3, <1>4, <1>5, <1>6, <1>7 DEF WorkerStep, FinishHandler

LEMMA InitQuiet == Init => QuietInv
BY ProcsSplit DEF Init, QuietInv, HeldIsRunning, Holds

LEMMA NextQuiet ==
  ASSUME Quiet, AttemptInv, QuietInv, [Next]_vars
  PROVE  QuietInv'
<1>. USE ProcsSplit
<1>0. revived' = {} /\ store \in [Ids -> Slot]
  BY QuietCalls DEF AttemptInv, Typed, TypeOK
<1>. SUFFICES ASSUME NEW q \in Workers, NEW k \in Ids, Holds(q, k)'
              PROVE  store'[k].status = "running"
  BY <1>0 DEF QuietInv, HeldIsRunning
<1>1. CASE \E c \in Clients : ClientStep(c)
  <2>1. Holds(q, k)
    BY <1>1, QuietClient DEF Holds
  <2>2. store[k].status = "running"
    BY <2>1 DEF QuietInv, HeldIsRunning
  <2>. QED
    BY <1>0, <1>1, <2>2, QuietClient
<1>2. CASE \E p \in Workers : WorkerStep(p)
  <2>1. PICK p \in Workers, i \in Ids, job \in Slot :
           /\ store' = [store EXCEPT ![i] = job]
           /\ \A w \in Workers \ {p} : pc'[w] = pc[w] /\ at'[w] = at[w] /\ ~Holds(w, i)
           /\ \/ pc'[p] = "idle"
              \/ pc'[p] \in {"claimed", "running"} /\ at'[p] = i /\ job.status = "running"
    BY <1>2, QuietWorker
  <2>2. CASE q = p
    BY <1>0, <2>1, <2>2 DEF Holds
  <2>3. CASE q # p
    <3>1. Holds(q, k) /\ k # i
      BY <2>1, <2>3 DEF Holds
    <3>. QED
      BY <1>0, <2>1, <3>1 DEF QuietInv, HeldIsRunning
  <2>. QED
    BY <2>2, <2>3
<1>3. CASE Tick \/ UNCHANGED vars
  BY <1>3 DEF Tick, vars, Holds, QuietInv, HeldIsRunning
<1>. QED
  BY <1>1, <1>2, <1>3 DEF Next

Working(k) == \E p \in Workers : at[p] = k /\ pc[p] = "running"

(* The phase of a job is read off its status and off who works on it.        *)
LEMMA PhaseIs ==
  ASSUME NEW k \in Ids
  PROVE  /\ store[k].status = "absent" => PhaseOf(k) = "new"
         /\ store[k].status = "queued" => PhaseOf(k) = "waiting"
         /\ store[k].status = "succeeded" => PhaseOf(k) = "done"
         /\ store[k].status = "dead" => PhaseOf(k) = "buried"
         /\ store[k].status = "running" =>
              PhaseOf(k) = IF Working(k) THEN "trying" ELSE "taken"
BY DEF PhaseOf, Working

LEMMA PhaseKept ==
  ASSUME NEW k \in Ids, store'[k] = store[k], Working(k)' <=> Working(k)
  PROVE  PhaseOf(k)' = PhaseOf(k)
BY DEF PhaseOf, Working

LEMMA MoveIs ==
  ASSUME NEW i \in Ids, NEW from, NEW to, PhaseOf(i) = from, PhaseOf(i)' = to,
         \A k \in Ids \ {i} : PhaseOf(k)' = PhaseOf(k)
  PROVE  Lifecycle!Move(i, from, to)
BY DEF Lifecycle!Move

LEMMA StepRefines ==
  ASSUME Quiet, AttemptInv, QuietInv, [Next]_vars
  PROVE  [Lifecycle!Next]_(Lifecycle!vars)
<1>. USE ProcsSplit
<1>0. store \in [Ids -> Slot]
  BY DEF AttemptInv, Typed, TypeOK
<1>1. ASSUME NEW i \in Ids, NEW job \in Slot, store' = [store EXCEPT ![i] = job]
      PROVE  store'[i] = job /\ \A k \in Ids \ {i} : store'[k] = store[k]
  BY <1>0, <1>1
<1>2. CASE \E c \in Clients : ClientStep(c)
  <2>. PICK c \in Clients : ClientStep(c)
    BY <1>2
  <2>1. runs' = runs /\ \A k \in Ids : Working(k)' <=> Working(k)
    BY QuietClient DEF Working
  <2>2. CASE UNCHANGED store
    <3>1. \A k \in Ids : PhaseOf(k)' = PhaseOf(k)
      BY <2>1, <2>2, PhaseKept
    <3>. QED
      BY <2>1, <3>1 DEF Lifecycle!vars
  <2>3. ASSUME NEW i \in Ids, NEW job \in Slot,
               store[i].status = "absent", job.status = "queued",
               store' = [store EXCEPT ![i] = job]
        PROVE  Lifecycle!Next
    <3>1. \A k \in Ids \ {i} : PhaseOf(k)' = PhaseOf(k)
      BY <1>1, <2>1, <2>3, PhaseKept
    <3>2. store'[i] = job
      BY <1>1, <2>3
    <3>3. PhaseOf(i) = "new" /\ PhaseOf(i)' = "waiting"
      BY <2>3, <3>2 DEF PhaseOf
    <3>. QED
      BY <2>1, <3>1, <3>3, MoveIs DEF Lifecycle!Next, Lifecycle!Submit
  <2>. QED
    BY <2>2, <2>3, QuietClient
<1>3. CASE \E p \in Workers : WorkerStep(p)
  <2>1. PICK p \in Workers, i \in Ids, job \in Slot :
           /\ store' = [store EXCEPT ![i] = job]
           /\ \A q \in Workers \ {p} : pc'[q] = pc[q] /\ at'[q] = at[q] /\ ~Holds(q, i)
           /\ \/ /\ pc[p] = "idle" /\ store[i].status = "queued"
                 /\ pc'[p] = "claimed" /\ at'[p] = i /\ job.status = "running"
                 /\ runs' = runs
              \/ /\ pc[p] = "claimed" /\ at[p] = i /\ pc'[p] = "idle"
                 /\ job.status = "dead" /\ runs' = runs
              \/ /\ pc[p] = "claimed" /\ at[p] = i
                 /\ pc'[p] = "running" /\ at'[p] = i /\ job.status = "running"
                 /\ runs[i] < MaxAttempts /\ runs' = [runs EXCEPT ![i] = @ + 1]
              \/ /\ pc[p] = "running" /\ at[p] = i /\ pc'[p] = "idle"
                 /\ runs' = runs
                 /\ \/ job.status = "succeeded"
                    \/ job.status = "queued" /\ runs[i] < MaxAttempts
                    \/ job.status = "dead" /\ runs[i] = MaxAttempts
    BY <1>3, QuietWorker
  <2>2. store'[i] = job
    BY <1>1, <2>1
  <2>3. \A k \in Ids \ {i} : PhaseOf(k)' = PhaseOf(k)
    <3>. TAKE k \in Ids \ {i}
    <3>1. store'[k] = store[k]
      BY <1>1, <2>1
    <3>2. Working(k)' <=> Working(k)
      BY <2>1 DEF Working
    <3>. QED
      BY <3>1, <3>2, PhaseKept
  <2>4. Working(i) <=> at[p] = i /\ pc[p] = "running"
    BY <2>1 DEF Working, Holds
  <2>5. Working(i)' <=> at'[p] = i /\ pc'[p] = "running"
    BY <2>1 DEF Working, Holds
  <2>6. pc[p] \in {"claimed", "running"} /\ at[p] = i => store[i].status = "running"
    BY DEF QuietInv, HeldIsRunning, Holds
  <2>7. ASSUME job.status = "running"
        PROVE  PhaseOf(i)' = IF pc'[p] = "running" /\ at'[p] = i THEN "trying" ELSE "taken"
    BY <2>2, <2>5, <2>7 DEF PhaseOf, Working
  <2>8. /\ job.status = "dead" => PhaseOf(i)' = "buried"
        /\ job.status = "succeeded" => PhaseOf(i)' = "done"
        /\ job.status = "queued" => PhaseOf(i)' = "waiting"
    BY <2>2 DEF PhaseOf
  <2>9. ASSUME pc[p] = "idle", store[i].status = "queued", pc'[p] = "claimed",
               job.status = "running", runs' = runs
        PROVE  Lifecycle!Take(i)
    <3>1. PhaseOf(i) = "waiting" /\ PhaseOf(i)' = "taken"
      BY <2>7, <2>9, PhaseIs
    <3>. QED
      BY <2>3, <2>9, <3>1, MoveIs DEF Lifecycle!Take
  <2>10. ASSUME pc[p] = "claimed", at[p] = i PROVE PhaseOf(i) = "taken"
    BY <2>4, <2>6, <2>10, PhaseIs
  <2>11. ASSUME pc[p] = "running", at[p] = i PROVE PhaseOf(i) = "trying"
    BY <2>4, <2>6, <2>11, PhaseIs
  <2>12. ASSUME pc[p] = "claimed", at[p] = i, job.status = "dead", runs' = runs
         PROVE  Lifecycle!Refuse(i)
    BY <2>3, <2>8, <2>10, <2>12, MoveIs DEF Lifecycle!Refuse
  <2>13. ASSUME pc[p] = "claimed", at[p] = i, pc'[p] = "running", at'[p] = i,
                job.status = "running", runs[i] < MaxAttempts,
                runs' = [runs EXCEPT ![i] = @ + 1]
         PROVE  Lifecycle!Try(i)
    <3>1. PhaseOf(i) = "taken" /\ PhaseOf(i)' = "trying"
      BY <2>7, <2>10, <2>13
    <3>. QED
      BY <2>3, <2>13, <3>1, MoveIs DEF Lifecycle!Try
  <2>14. ASSUME pc[p] = "running", at[p] = i, runs' = runs
         PROVE  /\ job.status = "succeeded" => Lifecycle!Finish(i)
                /\ job.status = "queued" /\ runs[i] < MaxAttempts => Lifecycle!GiveBack(i)
                /\ job.status = "dead" /\ runs[i] = MaxAttempts => Lifecycle!Bury(i)
    BY <2>3, <2>8, <2>11, <2>14, MoveIs
    DEF Lifecycle!Finish, Lifecycle!GiveBack, Lifecycle!Bury
  <2>. QED
    BY <2>1, <2>9, <2>12, <2>13, <2>14 DEF Lifecycle!Next
<1>4. CASE Tick \/ UNCHANGED vars
  BY <1>4 DEF Tick, vars, Lifecycle!vars, PhaseOf
<1>. QED
  BY <1>2, <1>3, <1>4 DEF Next

LEMMA InitRefines == Init => Lifecycle!Init
<1>. SUFFICES ASSUME Init PROVE Lifecycle!Init
  OBVIOUS
<1>1. \A k \in Ids : store[k].status \in {"absent", "queued"}
  BY DEF Init, CreateJobRecord, Absent
<1>2. \A k \in Ids : PhaseOf(k) \in {"new", "waiting"}
  BY <1>1, PhaseIs
<1>. QED
  BY <1>2 DEF Init, Lifecycle!Init

(* The queue implements the lifecycle a caller is promised, for any number of  *)
(* jobs, callers and workers, any registry, any idempotency keys and any retry *)
(* options: a job is submitted once, is in one worker's hands at a time, is    *)
(* tried at most MaxAttempts times and ends done or buried for good.  It is    *)
(* stated, as the run checks it, for callers that only enqueue new jobs and a  *)
(* store with room for them: cancel, retry, delete and the eviction take a job *)
(* out of this lifecycle by intent.                                            *)
THEOREM QueueImplementsLifecycle ==
  ASSUME Ops = {}, Cardinality(Ids) <= MaxJobs
  PROVE  Spec => ImplementsLifecycle
<1>1. Quiet
  BY DEF Quiet
<1>2. AttemptInv /\ QuietInv /\ [Next]_vars => QuietInv'
  BY <1>1, NextQuiet
<1>3. AttemptInv /\ QuietInv /\ [Next]_vars => [Lifecycle!Next]_(Lifecycle!vars)
  BY <1>1, StepRefines
<1>. QED
  BY <1>2, <1>3, AlwaysAttempt, InitQuiet, InitRefines, PTL
  DEF Spec, ImplementsLifecycle, Lifecycle!Spec
=============================================================================
