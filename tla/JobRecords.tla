----------------------------- MODULE JobRecords -----------------------------
(***************************************************************************)
(* Job records of packages/async/jobs/mod.ts and the pure functions that   *)
(* compute the next record of a job.  Payloads, outputs, metadata and      *)
(* error texts are abstracted away; attemptHistory is kept as its length.  *)
(* Operators named Mut_... are wrong variants of the definition that        *)
(* follows them; the properties are tested against them.                   *)
(***************************************************************************)
EXTENDS Integers, FiniteSets

CONSTANTS
  Ids,            \* job ids, numbered in localeCompare order
  Prio,           \* Prio[i]: rank of the priority job i is enqueued with
  MaxAttempts,    \* RetryOptions.attempts
  BackoffMs,      \* RetryOptions.backoffMs
  MaxBackoffMs,   \* RetryOptions.maxBackoffMs
  Strategy        \* RetryOptions.backoffStrategy

(* normalizeRetryOptions and normalizePriority refuse anything else. *)
ASSUME RetryAssumption ==
  /\ Ids \subseteq Nat /\ IsFiniteSet(Ids)
  /\ Prio \in [Ids -> 1..4]
  /\ MaxAttempts \in Nat \ {0}
  /\ BackoffMs \in Nat
  /\ MaxBackoffMs \in Nat
  /\ BackoffMs <= MaxBackoffMs
  /\ Strategy \in {"fixed", "linear", "exponential"}

Statuses == {"queued", "running", "succeeded", "failed", "dead", "canceled"}

(* JobRecord, restricted to the fields the control flow reads.  An id with *)
(* no record in the store has status "absent".                             *)
Slot == [status: Statuses \cup {"absent"}, attempts: Nat, hist: Nat,
         runAt: Nat, createdAt: Nat]

Absent == [status |-> "absent", attempts |-> 0, hist |-> 0,
           runAt |-> 0, createdAt |-> 0]

IsTerminalJobStatus(s) == s \in {"succeeded", "dead", "canceled"}

IsRetryableJobStatus(s) == s \in {"failed", "dead", "canceled"}

IsLive(job) == job.status # "absent" /\ ~IsTerminalJobStatus(job.status)

Mut_ReadyWhileRunning(job, now) ==
  job.status \in {"queued", "running"} /\ job.runAt <= now

IsJobReady(job, now) == job.status = "queued" /\ job.runAt <= now

-----------------------------------------------------------------------------
AtLeastZero(n) == IF n < 0 THEN 0 ELSE n

(* calculateBackoffMs without jitter. *)
CalculateBackoffMs(attempt) ==
  LET value == CASE Strategy = "fixed"       -> BackoffMs
                 [] Strategy = "linear"      -> BackoffMs * attempt
                 [] Strategy = "exponential" -> BackoffMs * 2 ^ (attempt - 1)
  IN  AtLeastZero(IF value <= MaxBackoffMs THEN value ELSE MaxBackoffMs)

CreateJobRecord(now, runAt) ==
  [status |-> "queued", attempts |-> 0, hist |-> 0,
   runAt |-> runAt, createdAt |-> now]

Mut_ClaimLeavesQueued(job) == job

(* claimNext marks the record and leaves the attempt count alone. *)
Claimed(job) == [job EXCEPT !.status = "running"]

(* The record processNext stores before it calls the handler. *)
Running(job) == [job EXCEPT !.status = "running", !.attempts = @ + 1]

Succeeded(job) == [job EXCEPT !.status = "succeeded", !.hist = @ + 1]

Mut_OneAttemptTooMany(job, now) ==
  IF job.attempts <= MaxAttempts
  THEN [job EXCEPT !.status = "queued", !.hist = @ + 1,
                   !.runAt = now + CalculateBackoffMs(job.attempts)]
  ELSE [job EXCEPT !.status = "dead", !.hist = @ + 1]

Mut_OneAttemptTooFew(job, now) ==
  IF job.attempts + 1 < MaxAttempts
  THEN [job EXCEPT !.status = "queued", !.hist = @ + 1,
                   !.runAt = now + CalculateBackoffMs(job.attempts)]
  ELSE [job EXCEPT !.status = "dead", !.hist = @ + 1]

(* createFailedJobRecord: another attempt after the backoff, or dead. *)
CreateFailedJobRecord(job, now) ==
  IF job.attempts < MaxAttempts
  THEN [job EXCEPT !.status = "queued", !.hist = @ + 1,
                   !.runAt = now + CalculateBackoffMs(job.attempts)]
  ELSE [job EXCEPT !.status = "dead", !.hist = @ + 1]

(* The record stored for a claimed job whose name has no definition. *)
Unknown(job) == [job EXCEPT !.status = "dead"]

Mut_CancelKeepsOldStatus(job) == job

Canceled(job) == [job EXCEPT !.status = "canceled"]

(* retry() puts the job back without resetting its attempts. *)
Requeued(job, now) == [job EXCEPT !.status = "queued", !.runAt = now]

-----------------------------------------------------------------------------
(* compareJobsByCreatedAt, strictly before. *)
CreatedBefore(s, a, b) ==
  \/ s[a].createdAt < s[b].createdAt
  \/ s[a].createdAt = s[b].createdAt /\ a < b

(* compareJobsForClaim, strictly before. *)
ClaimedBefore(s, a, b) ==
  \/ Prio[a] > Prio[b]
  \/ /\ Prio[a] = Prio[b]
     /\ \/ s[a].runAt < s[b].runAt
        \/ s[a].runAt = s[b].runAt /\ CreatedBefore(s, a, b)

Present(s) == {i \in Ids : s[i].status # "absent"}

Ready(s, now) == {i \in Ids : IsJobReady(s[i], now)}

(* The job claimNext picks: the first ready one in claim order. *)
NextToClaim(s, now) ==
  {i \in Ready(s, now) : \A k \in Ready(s, now) \ {i} : ClaimedBefore(s, i, k)}

Mut_EvictOldestFirst(s, a, b) == CreatedBefore(s, a, b)

(* evictOverflowJobs: terminal jobs go first, then the oldest of the rest. *)
EvictedBefore(s, a, b) ==
  LET ta == IsTerminalJobStatus(s[a].status)
      tb == IsTerminalJobStatus(s[b].status)
  IN  (ta /\ ~tb) \/ (ta = tb /\ CreatedBefore(s, a, b))

Overflow(s, maxJobs) ==
  {i \in Present(s) :
     Cardinality({k \in Present(s) : EvictedBefore(s, k, i)})
       < Cardinality(Present(s)) - maxJobs}

EvictOverflowJobs(s, maxJobs) ==
  [i \in Ids |-> IF i \in Overflow(s, maxJobs) THEN Absent ELSE s[i]]
=============================================================================
