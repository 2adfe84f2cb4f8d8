------------------------------ MODULE JobInputs ------------------------------
(***************************************************************************)
(* What packages/async/jobs/mod.ts makes of what callers pass in: names,    *)
(* ids, keys, retry options and records, the job registry, and the handlers *)
(* built for webhooks and mail.                                             *)
(*                                                                          *)
(* A JavaScript number is a count of halves, so that 0.5 and 1.5 are there, *)
(* or NaN.  A string is its trimmed body and the padding around it.         *)
(***************************************************************************)
EXTENDS Integers, Sequences

Unset == -1000      \* undefined
NaN == -999         \* NaN, Infinity
Rejected == -998    \* JobError with code JOB_INVALID

Bodies == {"", "a", "b", "a b", "control"}
Strings == [body : Bodies, pad : {"", " ", "newline"}]
RejectedString == [body |-> "JOB_INVALID", pad |-> ""]
UnsetString == [body |-> "undefined", pad |-> ""]
NullString == [body |-> "null", pad |-> ""]   \* SQL's NULL
Trim(s) == [s EXCEPT !.pad = ""]

-----------------------------------------------------------------------------
(* normalizeName and normalizeJobId: one word, after trimming. *)
NormalizeName(s) == IF s.body \in {"a", "b"} THEN Trim(s) ELSE RejectedString

(* normalizeIdempotencyKey looks for control characters before it trims.    *)
NormalizeIdempotencyKey(s) ==
  IF s.body \in {"a", "b", "a b"} /\ s.pad # "newline" THEN Trim(s) ELSE RejectedString

NormalizePositiveInteger(n) == IF n = NaN \/ n < 2 THEN Rejected ELSE (n \div 2) * 2
NormalizeNonNegativeInteger(n) == IF n = NaN \/ n < 0 THEN Rejected ELSE (n \div 2) * 2

NormalizeBackoffStrategy(s) ==
  IF s \in {"fixed", "linear", "exponential"} THEN s ELSE "JOB_INVALID"
NormalizePriority(p) ==
  IF p \in {"low", "normal", "high", "critical"} THEN p ELSE "JOB_INVALID"
NormalizeJobStatus(s) ==
  IF s \in {"queued", "running", "succeeded", "failed", "dead", "canceled"} THEN s
  ELSE "JOB_INVALID"

-----------------------------------------------------------------------------
Or(value, default) == IF value = Unset THEN default ELSE value

(* The defaults, in halves of a unit; the real ones are 1, 1000 and 60000.  *)
Defaults == [attempts |-> 2, backoffMs |-> 4, maxBackoffMs |-> 8,
             strategy |-> "exponential"]

RejectedRetry == [attempts |-> Rejected, backoffMs |-> 0, maxBackoffMs |-> 0,
                  strategy |-> "fixed"]

(* normalizeRetryOptions compares the two delays after rounding them down.  *)
NormalizeRetryOptions(o) ==
  LET r == [attempts     |-> NormalizePositiveInteger(Or(o.attempts, Defaults.attempts)),
            backoffMs    |-> NormalizeNonNegativeInteger(Or(o.backoffMs, Defaults.backoffMs)),
            maxBackoffMs |-> NormalizeNonNegativeInteger(Or(o.maxBackoffMs, Defaults.maxBackoffMs)),
            strategy     |-> NormalizeBackoffStrategy(
                               IF o.strategy = "undefined" THEN Defaults.strategy ELSE o.strategy)]
  IN  IF \/ Rejected \in {r.attempts, r.backoffMs, r.maxBackoffMs}
         \/ r.strategy = "JOB_INVALID" \/ r.maxBackoffMs < r.backoffMs
      THEN RejectedRetry ELSE r

(* mergeRetryOptions: field by field, the caller's before the definition's. *)
MergeRetryOptions(defaults, overrides) ==
  NormalizeRetryOptions(
    [attempts     |-> Or(overrides.attempts, defaults.attempts),
     backoffMs    |-> Or(overrides.backoffMs, defaults.backoffMs),
     maxBackoffMs |-> Or(overrides.maxBackoffMs, defaults.maxBackoffMs),
     strategy     |-> IF overrides.strategy = "undefined" THEN defaults.strategy
                      ELSE overrides.strategy])

(* resolveRunAt *)
ResolveRunAt(o, now) ==
  IF o.runAt # Unset THEN o.runAt
  ELSE LET delay == NormalizeNonNegativeInteger(Or(o.delayMs, 0)) IN
         IF delay = Rejected THEN Rejected ELSE now + delay

(* createJobRecord *)
CreateJobRecord(name, o, now) ==
  [name |-> NormalizeName(name), id |-> NormalizeName(o.id),
   queue |-> NormalizeName(o.queue), status |-> "queued",
   priority |-> NormalizePriority(o.priority), attempts |-> 0,
   retry |-> NormalizeRetryOptions(o.retry),
   createdAt |-> now, updatedAt |-> now, runAt |-> ResolveRunAt(o, now),
   key |-> IF o.key = UnsetString THEN UnsetString ELSE NormalizeIdempotencyKey(o.key)]

Refused(job) ==
  \/ RejectedString \in {job.name, job.id, job.queue, job.key}
  \/ job.retry.attempts = Rejected \/ job.runAt = Rejected
  \/ "JOB_INVALID" \in {job.priority, job.status}

(* normalizeJobRecord: what a store makes of a record it is given.          *)
NormalizeJobRecord(job) ==
  [job EXCEPT !.name = NormalizeName(@), !.id = NormalizeName(@),
     !.queue = NormalizeName(@), !.status = NormalizeJobStatus(@),
     !.priority = NormalizePriority(@), !.attempts = NormalizeNonNegativeInteger(@),
     !.retry = [attempts     |-> NormalizePositiveInteger(@.attempts),
                backoffMs    |-> NormalizeNonNegativeInteger(@.backoffMs),
                maxBackoffMs |-> NormalizeNonNegativeInteger(@.maxBackoffMs),
                strategy     |-> NormalizeBackoffStrategy(@.strategy)],
     !.key = IF @ = UnsetString THEN @ ELSE NormalizeIdempotencyKey(@)]

(* jobToParams and rowToJobRecord: undefined fields travel as null.         *)
JobToParams(job) == [job EXCEPT !.key = IF @ = UnsetString THEN NullString ELSE @]
RowToJobRecord(row) == [row EXCEPT !.key = IF @ = NullString THEN UnsetString ELSE @]

-----------------------------------------------------------------------------
(* calculateBackoffMs with full jitter, rounded to a whole number; random   *)
(* is in halves, and need not be within [0, 1].                             *)
CalculateBackoffMs(attempt, retry, jitter, random) ==
  LET value == CASE retry.strategy = "fixed"  -> retry.backoffMs
                 [] retry.strategy = "linear" -> retry.backoffMs * attempt
                 [] OTHER                     -> retry.backoffMs * 2 ^ (attempt - 1)
      capped == IF value <= retry.maxBackoffMs THEN value ELSE retry.maxBackoffMs
      factor == CASE random < 0 -> 0 [] random > 2 -> 2 [] OTHER -> random
  IN  IF jitter THEN 2 * ((capped * factor + 2) \div 4) ELSE capped

-----------------------------------------------------------------------------
(* defineJobs: the first of two equal names, after trimming, is refused.    *)
DefineJobs(names) ==
  LET normalized == [i \in DOMAIN names |-> NormalizeName(names[i])] IN
    IF \E i, j \in DOMAIN names :
         normalized[i] = RejectedString \/ (i # j /\ normalized[i] = normalized[j])
    THEN <<>> ELSE normalized

RegistryGet(registry, name) ==
  {i \in DOMAIN registry : registry[i] = NormalizeName(name)}

(* defineWebhookJob: an answer that is not ok makes the job fail, so that   *)
(* the queue tries it again; GET and HEAD, in any case, carry no body.      *)
Upper(method) == CASE method = "get" -> "GET" [] method = "head" -> "HEAD" [] OTHER -> method

MethodHasBody(method) == Upper(method) \notin {"GET", "HEAD"}

(* fetch refuses a body on GET and HEAD, whose names it normalises.         *)
Fetch(method, body, status) ==
  IF body /\ Upper(method) \in {"GET", "HEAD"} THEN "TypeError"
  ELSE IF status \in 200 .. 299 THEN "ok" ELSE "not ok"

WebhookRun(method, expectOk, status) ==
  LET answer == Fetch(method, MethodHasBody(method), status) IN
    IF answer = "TypeError" \/ (expectOk /\ answer # "ok") THEN "JOB_EXECUTE_FAILED"
    ELSE "succeeded"

(* serializeJobError and deserializeJobError: the kind of what was thrown.  *)
SerializeJobError(thrown) ==
  CASE thrown.kind = "RootwareError" -> [name |-> thrown.name, message |-> thrown.message, code |-> thrown.code]
    [] thrown.kind = "Error"         -> [name |-> thrown.name, message |-> thrown.message, code |-> "none"]
    [] thrown.kind = "string"        -> [name |-> "Error", message |-> thrown.message, code |-> "none"]
    [] OTHER                         -> [name |-> "Error", message |-> "Unknown job error", code |-> "none"]

DeserializeJobError(value) == [kind |-> "Error", name |-> value.name,
                               message |-> value.message, code |-> "none"]

-----------------------------------------------------------------------------
(* A record createJobRecord made is one both stores give back unchanged, and*)
(* it may run at the earliest when it was asked to.                         *)
RecordsSurviveStores(name, o, now) ==
  LET job == CreateJobRecord(name, o, now) IN
    ~Refused(job) =>
      /\ NormalizeJobRecord(job) = job
      /\ RowToJobRecord(JobToParams(job)) = job
      /\ job.runAt >= IF o.runAt = Unset THEN now ELSE o.runAt

(* A retry waits at least nothing and at most maxBackoffMs, jitter or not,  *)
(* and without jitter no less than the attempt before it.                   *)
BackoffBounded(attempt, o, random) ==
  LET retry == NormalizeRetryOptions(o) IN
    retry.attempts # Rejected =>
      /\ \A jitter \in BOOLEAN :
           CalculateBackoffMs(attempt, retry, jitter, random) \in 0 .. retry.maxBackoffMs
      /\ CalculateBackoffMs(attempt, retry, FALSE, random)
           <= CalculateBackoffMs(attempt + 1, retry, FALSE, random)

(* An option a caller gives for one job goes before the definition's, and   *)
(* what neither gives is the default: merged or taken apart, field by field.*)
CallersRetryWins(definition, o) ==
  LET merged == MergeRetryOptions(definition, o) IN
    merged.attempts # Rejected =>
      /\ \A f \in {"attempts", "backoffMs", "maxBackoffMs"} :
           merged[f] = 2 * (Or(o[f], Or(definition[f], Defaults[f])) \div 2)
      /\ o.strategy # "undefined" => merged.strategy = o.strategy
      /\ merged.backoffMs <= merged.maxBackoffMs

(* Every name of a registry finds one definition, however it is padded.     *)
NamesFindOneJob(names) ==
  \A i \in DOMAIN DefineJobs(names) : \A pad \in {"", " ", "newline"} :
    RegistryGet(DefineJobs(names), [names[i] EXCEPT !.pad = pad]) = {i}

(* A webhook job fails exactly when its delivery was answered with an error *)
(* the job minds, whatever the method.                                      *)
WebhookFailsOnItsAnswer(method, expectOk, status) ==
  WebhookRun(method, expectOk, status) = "JOB_EXECUTE_FAILED"
    <=> expectOk /\ status \notin 200 .. 299

(* What a failed attempt leaves in the record names the error it came from. *)
ErrorsKeepTheirMessage(thrown) ==
  thrown.kind \in {"RootwareError", "Error", "string"} =>
    DeserializeJobError(SerializeJobError(thrown)).message = thrown.message
=============================================================================
