--------------------------- MODULE AlgorithmProofs ---------------------------
(***************************************************************************)
(* Theorems about the algorithms that MCSafetySuite tries on small inputs,   *)
(* for every input: cron schedules, job records and their retries, the job  *)
(* registry, uploads, signed requests, CSRF tokens, schema snapshots and     *)
(* environments.                                                             *)
(***************************************************************************)
EXTENDS JobInputs, SequenceTheorems, WellFoundedInduction, TLAPS

CONSTANTS Star, HoursPerDay, MinutesPerHour   \* of JobSchedules

Cron == INSTANCE JobSchedules
OR == INSTANCE ObjectRequests
SC == INSTANCE SessionCookies
SS == INSTANCE SchemaSnapshots
Env == INSTANCE EnvValues

-----------------------------------------------------------------------------
(* Cron expressions.  The steps from lo land on v exactly when v - lo is a    *)
(* multiple of the step, and a value within max takes at most max of them.   *)
LEMMA MultiplesOf ==
  ASSUME NEW step \in Int, step >= 1, NEW d \in Int
  PROVE  d % step = 0 <=> \E n \in Int : d = n * step
<1>1. d = step * (d \div step) + (d % step) /\ d % step \in 0..(step - 1) /\ d \div step \in Int
  OBVIOUS
<1>2. ASSUME NEW n \in Int, d = n * step PROVE d % step = 0
  <2>. DEFINE k == n - d \div step
  <2>1. k \in Int /\ d % step = step * k
    BY <1>1, <1>2
  <2>2. CASE k >= 1
    BY <1>1, <2>1, <2>2
  <2>3. CASE k <= -1
    BY <1>1, <2>1, <2>3
  <2>. QED
    BY <2>1, <2>2, <2>3
<1>3. d % step = 0 => d = (d \div step) * step
  BY <1>1
<1>. QED
  BY <1>1, <1>2, <1>3

Tokens == [lo: Int \cup {Star}, hi: Int, step: Int, stepped: BOOLEAN]
Fields == Seq(Tokens)
Expressions == [minute: Fields, hour: Fields, dom: Fields, month: Fields, dow: Fields]

(* parseCronField gives a field it accepts the values the field means.       *)
LEMMA FieldsMeanTheirValues ==
  ASSUME NEW field \in Fields, NEW min \in Nat, NEW max \in Int, NEW v \in Int,
         Cron!ParseCronField(field, min, max) # {}
  PROVE  v \in Cron!ParseCronField(field, min, max) <=> Cron!Meant(field, min, max, v)
<1>1. /\ \A i \in DOMAIN field : Cron!ValidToken(field[i], min, max)
      /\ v \in Cron!ParseCronField(field, min, max)
           <=> \E i \in DOMAIN field : v \in Cron!TokenValues(field[i], min, max)
  BY DEF Cron!ParseCronField
<1>2. ASSUME NEW i \in DOMAIN field
      PROVE  v \in Cron!TokenValues(field[i], min, max) <=>
               LET token == field[i]
                   lo == IF token.lo = Star THEN min ELSE token.lo
                   hi == IF token.lo = Star THEN max ELSE token.hi
               IN  \E n \in 0 .. max : v = lo + n * token.step /\ v <= hi
  <2>. DEFINE token == field[i]
              lo == IF token.lo = Star THEN min ELSE token.lo
              hi == IF token.lo = Star THEN max ELSE token.hi
  <2>1. token \in Tokens /\ Cron!ValidToken(token, min, max)
    BY <1>1, <1>2 DEF Fields
  <2>2. /\ token.step \in Int /\ token.step >= 1 /\ lo \in Nat /\ hi \in Int /\ hi <= max
    BY <2>1 DEF Tokens, Cron!ValidToken
  <2>3. v \in Cron!TokenValues(token, min, max)
          <=> lo <= v /\ v <= hi /\ (v - lo) % token.step = 0
    BY <2>1, <2>2 DEF Cron!TokenValues, Cron!TokenRange, Tokens
  <2>4. (v - lo) % token.step = 0 <=> \E n \in Int : v - lo = n * token.step
    <3>1. v - lo \in Int
      BY <2>2
    <3>. QED
      BY <3>1, <2>2, MultiplesOf
  <2>5. ASSUME NEW n \in Int, v - lo = n * token.step, lo <= v, v <= hi
        PROVE  n \in 0..max /\ v = lo + n * token.step
    <3>1. n >= 0
      BY <2>2, <2>5
    <3>2. n <= n * token.step
      BY <2>2, <3>1
    <3>. QED
      BY <2>2, <2>5, <3>1, <3>2
  <2>6. ASSUME NEW n \in 0..max, v = lo + n * token.step
        PROVE  v - lo = n * token.step /\ lo <= v
    <3>1. n * token.step \in Nat
      BY <2>2
    <3>. QED
      BY <2>2, <2>6, <3>1
  <2>. HIDE DEF lo, hi, token
  <2>7. v \in Cron!TokenValues(token, min, max)
          <=> \E n \in 0 .. max : v = lo + n * token.step /\ v <= hi
    BY <2>2, <2>3, <2>4, <2>5, <2>6
  <2>. QED
    BY <2>7 DEF lo, hi, token
<1>. QED
  BY <1>1, <1>2 DEF Cron!Meant

LEMMA LeastIsMin ==
  ASSUME NEW T \in SUBSET Nat, T # {}
  PROVE  Cron!Min(T) \in T /\ \A t \in T : Cron!Min(T) <= t
<1>. DEFINE Less == {ss \in Nat \X Nat : ss[1] < ss[2]}
<1>1. IsWellFoundedOn(Less, Nat)
  BY NatLessThanWellFounded DEF OpToRel
<1>2. PICK x \in T : \A y \in T : ~(<<y, x>> \in Less)
  <2>. HIDE DEF Less
  <2>1. \E x \in T : \A y \in T : ~(<<y, x>> \in Less)
    BY <1>1, WFMin
  <2>. QED
    BY <2>1
<1>3. ASSUME NEW y \in T, y < x PROVE FALSE
  <2>1. <<y, x>> \in Nat \X Nat /\ <<y, x>>[1] < <<y, x>>[2]
    BY <1>3
  <2>. QED
    BY <1>2, <2>1
<1>4. \A y \in T : x <= y
  BY <1>3
<1>. QED
  BY <1>4 DEF Cron!Min

(* An instant matches the sets an accepted expression is parsed into exactly *)
(* when it is due.                                                          *)
LEMMA MatchesWhenDue ==
  ASSUME NEW e \in Expressions, NEW t \in Nat, HoursPerDay \in Nat \ {0},
         MinutesPerHour \in Nat \ {0},
         ~Cron!Refused(Cron!ParseCronExpression(e))
  PROVE  Cron!CronMatches(Cron!ParseCronExpression(e), Cron!At(t)) <=> Cron!Due(e, Cron!At(t))
<1>. DEFINE s == Cron!ParseCronExpression(e)
            at == Cron!At(t)
<1>1. at.minute \in Int /\ at.hour \in Int
  BY DEF Cron!At, Cron!InstantsPerDay
<1>2. at.date.month \in Int /\ at.date.dom \in Int /\ at.date.dow \in Int
  <2>1. at.date = Cron!DateOf(t \div Cron!InstantsPerDay) /\ t \div Cron!InstantsPerDay \in Int
    BY DEF Cron!At, Cron!InstantsPerDay
  <2>2. ASSUME NEW day \in Int
        PROVE  /\ Cron!DateOf(day).month \in Int
               /\ Cron!DateOf(day).dom \in Int
               /\ Cron!DateOf(day).dow \in Int
    BY DEF Cron!DateOf
  <2>. QED
    BY <2>1, <2>2
<1>3. /\ s.minutes # {} /\ s.hours # {} /\ s.daysOfMonth # {} /\ s.months # {}
      /\ s.daysOfWeek # {}
  BY DEF Cron!Refused
<1>4. /\ s.minutes = Cron!ParseCronField(e.minute, 0, MinutesPerHour - 1)
      /\ s.hours = Cron!ParseCronField(e.hour, 0, HoursPerDay - 1)
      /\ s.daysOfMonth = Cron!ParseCronField(e.dom, 1, 31)
      /\ s.months = Cron!ParseCronField(e.month, 1, 12)
      /\ s.daysOfWeek = Cron!ParseCronField(e.dow, 0, 6)
      /\ s.domRestricted = ~Cron!IsStar(e.dom) /\ s.dowRestricted = ~Cron!IsStar(e.dow)
  BY DEF Cron!ParseCronExpression
<1>5. /\ e.minute \in Fields /\ e.hour \in Fields /\ e.dom \in Fields
      /\ e.month \in Fields /\ e.dow \in Fields
  BY DEF Expressions
<1>. HIDE DEF s, at
<1>6. /\ at.minute \in s.minutes <=> Cron!Meant(e.minute, 0, MinutesPerHour - 1, at.minute)
      /\ at.hour \in s.hours <=> Cron!Meant(e.hour, 0, HoursPerDay - 1, at.hour)
  BY <1>1, <1>3, <1>4, <1>5, FieldsMeanTheirValues
<1>7. /\ at.date.month \in s.months <=> Cron!Meant(e.month, 1, 12, at.date.month)
      /\ at.date.dom \in s.daysOfMonth <=> Cron!Meant(e.dom, 1, 31, at.date.dom)
      /\ at.date.dow \in s.daysOfWeek <=> Cron!Meant(e.dow, 0, 6, at.date.dow)
  BY <1>2, <1>3, <1>4, <1>5, FieldsMeanTheirValues
<1>8. Cron!CronMatches(s, at) <=> Cron!Due(e, at)
  BY <1>4, <1>6, <1>7 DEF Cron!CronMatches, Cron!DayMatches, Cron!Due
<1>. QED
  BY <1>8 DEF s, at

(* nextCronRun, for every calendar, every expression and every instant: the *)
(* run it finds is due and later, none that is due was passed over, and it  *)
(* finds none only if none is due in the four years it searches.             *)
THEOREM CronFindsTheNextRun ==
  ASSUME NEW e \in Expressions, NEW after \in Nat,
         HoursPerDay \in Nat \ {0}, MinutesPerHour \in Nat \ {0}
  PROVE  Cron!NextRunIsNext(e, after)
<1>. DEFINE s == Cron!ParseCronExpression(e)
            last == after + Cron!CronSearchMinutes
            matches == {t \in after + 1 .. last : Cron!CronMatches(s, Cron!At(t))}
            next == Cron!NextRecurrenceAt([kind |-> "cron", expression |-> e], after)
<1>1. next = Cron!NextCronRun(e, after)
  BY DEF Cron!NextRecurrenceAt
<1>2. next = IF Cron!Refused(s) THEN Cron!Rejected
             ELSE IF matches = {} THEN Cron!None ELSE Cron!Min(matches)
  BY <1>1 DEF Cron!NextCronRun
<1>3. Cron!CronSearchMinutes \in Nat /\ matches \in SUBSET Nat
  BY DEF Cron!CronSearchMinutes, Cron!InstantsPerDay
<1>4. SUFFICES ASSUME ~Cron!Refused(s)
               PROVE  Cron!NextRunIsNext(e, after)
  BY <1>2 DEF Cron!NextRunIsNext
<1>5. \A t \in Nat : Cron!CronMatches(s, Cron!At(t)) <=> Cron!Due(e, Cron!At(t))
  BY <1>4, MatchesWhenDue
<1>6. CASE matches = {}
  <2>1. next = Cron!None
    BY <1>2, <1>4, <1>6
  <2>2. ASSUME NEW d \in 1..Cron!CronSearchMinutes PROVE ~Cron!Due(e, Cron!At(after + d))
    <3>1. after + d \in after + 1 .. last /\ after + d \in Nat
      BY <1>3
    <3>. QED
      BY <1>5, <1>6, <3>1
  <2>. QED
    BY <2>1, <2>2 DEF Cron!NextRunIsNext
<1>7. CASE matches # {}
  <2>1. next \in matches /\ \A t \in matches : next <= t
    <3>1. next = Cron!Min(matches)
      BY <1>2, <1>4, <1>7
    <3>. HIDE DEF matches, next
    <3>. QED
      BY <1>3, <1>7, <3>1, LeastIsMin
  <2>2. next \in after + 1 .. last /\ next > after /\ Cron!Due(e, Cron!At(next)) /\ next # Cron!None
    BY <1>3, <1>5, <2>1 DEF Cron!None
  <2>3. ASSUME NEW t \in after + 1 .. next - 1 PROVE ~Cron!Due(e, Cron!At(t))
    <3>1. t \in after + 1 .. last /\ t \in Nat /\ ~(next <= t)
      BY <1>3, <2>2
    <3>. QED
      BY <1>5, <2>1, <3>1
  <2>. QED
    BY <2>2, <2>3 DEF Cron!NextRunIsNext
<1>. QED
  BY <1>6, <1>7

-----------------------------------------------------------------------------
(* Job records.  A number is a count of halves, NaN or undefined; a string is *)
(* one of the kinds JobInputs tells apart.                                   *)
RetryOptions ==
  [attempts: Int, backoffMs: Int, maxBackoffMs: Int, strategy: STRING]
JobOptions ==
  [id: Strings, queue: Strings, priority: STRING, retry: RetryOptions,
   runAt: Int, delayMs: Int, key: Strings \cup {UnsetString}]

(* To normalise a number again changes nothing.                              *)
LEMMA NormalIsNormal ==
  ASSUME NEW n \in Int
  PROVE  /\ LET m == NormalizeNonNegativeInteger(n) IN
              m # Rejected => m \in Nat /\ NormalizeNonNegativeInteger(m) = m
         /\ LET m == NormalizePositiveInteger(n) IN
              m # Rejected => m \in Nat /\ NormalizePositiveInteger(m) = m
BY DEF NormalizeNonNegativeInteger, NormalizePositiveInteger, Rejected, NaN

(* Retry options that are accepted, field by field.                          *)
LEMMA RetriesAreNormal ==
  ASSUME NEW o \in RetryOptions, NormalizeRetryOptions(o).attempts # Rejected
  PROVE  LET r == NormalizeRetryOptions(o) IN
           /\ r.attempts = NormalizePositiveInteger(Or(o.attempts, Defaults.attempts))
           /\ r.backoffMs = NormalizeNonNegativeInteger(Or(o.backoffMs, Defaults.backoffMs))
           /\ r.maxBackoffMs
                = NormalizeNonNegativeInteger(Or(o.maxBackoffMs, Defaults.maxBackoffMs))
           /\ r.strategy = NormalizeBackoffStrategy(
                IF o.strategy = "undefined" THEN Defaults.strategy ELSE o.strategy)
           /\ Rejected \notin {r.attempts, r.backoffMs, r.maxBackoffMs}
           /\ r.strategy # "JOB_INVALID" /\ r.backoffMs <= r.maxBackoffMs
           /\ r = [attempts |-> r.attempts, backoffMs |-> r.backoffMs,
                   maxBackoffMs |-> r.maxBackoffMs, strategy |-> r.strategy]
<1>. DEFINE r == [attempts     |-> NormalizePositiveInteger(Or(o.attempts, Defaults.attempts)),
            backoffMs    |-> NormalizeNonNegativeInteger(Or(o.backoffMs, Defaults.backoffMs)),
            maxBackoffMs |-> NormalizeNonNegativeInteger(Or(o.maxBackoffMs, Defaults.maxBackoffMs)),
            strategy     |-> NormalizeBackoffStrategy(
                               IF o.strategy = "undefined" THEN Defaults.strategy ELSE o.strategy)]
<1>1. NormalizeRetryOptions(o) =
        IF \/ Rejected \in {r.attempts, r.backoffMs, r.maxBackoffMs}
           \/ r.strategy = "JOB_INVALID" \/ r.maxBackoffMs < r.backoffMs
        THEN RejectedRetry ELSE r
  BY DEF NormalizeRetryOptions
<1>2. r.backoffMs \in Int /\ r.maxBackoffMs \in Int
  BY DEF RetryOptions, Or, Defaults, NormalizeNonNegativeInteger, Rejected
<1>3. RejectedRetry.attempts = Rejected
  BY DEF RejectedRetry
<1>4. /\ NormalizeRetryOptions(o) = r /\ Rejected \notin {r.attempts, r.backoffMs, r.maxBackoffMs}
      /\ r.strategy # "JOB_INVALID" /\ r.backoffMs <= r.maxBackoffMs
  BY <1>1, <1>2, <1>3
<1>. QED
  BY <1>4

(* createJobRecord and the stores, for every name, number and option: a      *)
(* record that is made at all comes back unchanged from normalizeJobRecord   *)
(* and from the columns of PostgreSQL, and runs no earlier than asked.      *)
THEOREM RecordsSurviveTheStores ==
  ASSUME NEW name \in Strings, NEW o \in JobOptions, NEW now \in Int
  PROVE  RecordsSurviveStores(name, o, now)
<1>. DEFINE job == CreateJobRecord(name, o, now)
<1>. SUFFICES ASSUME ~Refused(job)
              PROVE  /\ NormalizeJobRecord(job) = job
                     /\ RowToJobRecord(JobToParams(job)) = job
                     /\ job.runAt >= IF o.runAt = Unset THEN now ELSE o.runAt
  BY DEF RecordsSurviveStores
<1>1. job = [name |-> NormalizeName(name), id |-> NormalizeName(o.id),
             queue |-> NormalizeName(o.queue), status |-> "queued",
             priority |-> NormalizePriority(o.priority), attempts |-> 0,
             retry |-> NormalizeRetryOptions(o.retry),
             createdAt |-> now, updatedAt |-> now, runAt |-> ResolveRunAt(o, now),
             key |-> IF o.key = UnsetString THEN UnsetString
                     ELSE NormalizeIdempotencyKey(o.key)]
  BY DEF CreateJobRecord
<1>. HIDE DEF job
<1>2. /\ job.name # RejectedString /\ job.id # RejectedString
      /\ job.queue # RejectedString /\ job.key # RejectedString
      /\ job.retry.attempts # Rejected /\ job.runAt # Rejected
      /\ job.priority # "JOB_INVALID"
  BY DEF Refused
<1>3. ASSUME NEW s \in Strings, NormalizeName(s) # RejectedString
      PROVE  NormalizeName(NormalizeName(s)) = NormalizeName(s)
  BY <1>3 DEF NormalizeName, Strings, Trim
<1>4. /\ NormalizeName(job.name) = job.name /\ NormalizeName(job.id) = job.id
      /\ NormalizeName(job.queue) = job.queue
  BY <1>1, <1>2, <1>3 DEF JobOptions
<1>5. NormalizeJobStatus(job.status) = job.status /\ NormalizePriority(job.priority) = job.priority
  BY <1>1, <1>2 DEF NormalizeJobStatus, NormalizePriority
<1>6. NormalizeNonNegativeInteger(job.attempts) = job.attempts
  BY <1>1 DEF NormalizeNonNegativeInteger, NaN
<1>7. [attempts     |-> NormalizePositiveInteger(job.retry.attempts),
       backoffMs    |-> NormalizeNonNegativeInteger(job.retry.backoffMs),
       maxBackoffMs |-> NormalizeNonNegativeInteger(job.retry.maxBackoffMs),
       strategy     |-> NormalizeBackoffStrategy(job.retry.strategy)] = job.retry
  <2>1. o.retry \in RetryOptions /\ job.retry = NormalizeRetryOptions(o.retry)
    BY <1>1 DEF JobOptions
  <2>2. \A value, default \in Int : Or(value, default) \in Int
    BY DEF Or
  <2>3. /\ NormalizePositiveInteger(job.retry.attempts) = job.retry.attempts
        /\ NormalizeNonNegativeInteger(job.retry.backoffMs) = job.retry.backoffMs
        /\ NormalizeNonNegativeInteger(job.retry.maxBackoffMs) = job.retry.maxBackoffMs
    BY <1>2, <2>1, <2>2, RetriesAreNormal, NormalIsNormal DEF RetryOptions, Defaults
  <2>4. NormalizeBackoffStrategy(job.retry.strategy) = job.retry.strategy
    <3>1. PICK t : job.retry.strategy = NormalizeBackoffStrategy(t)
      BY <1>2, <2>1, RetriesAreNormal
    <3>2. job.retry.strategy # "JOB_INVALID"
      BY <1>2, <2>1, RetriesAreNormal
    <3>. QED
      BY <3>1, <3>2 DEF NormalizeBackoffStrategy
  <2>5. job.retry = [attempts |-> job.retry.attempts, backoffMs |-> job.retry.backoffMs,
                     maxBackoffMs |-> job.retry.maxBackoffMs, strategy |-> job.retry.strategy]
    BY <1>2, <2>1, RetriesAreNormal
  <2>. QED
    BY <2>3, <2>4, <2>5
<1>8. (IF job.key = UnsetString THEN job.key ELSE NormalizeIdempotencyKey(job.key)) = job.key
  BY <1>1, <1>2 DEF NormalizeIdempotencyKey, Strings, Trim, JobOptions
<1>9. job.key # NullString
  BY <1>1 DEF NormalizeIdempotencyKey, Strings, Trim, JobOptions, NullString,
     UnsetString, RejectedString
<1>10. NormalizeJobRecord(job) = job
  <2>1. job = [name |-> job.name, id |-> job.id, queue |-> job.queue, status |-> job.status,
               priority |-> job.priority, attempts |-> job.attempts, retry |-> job.retry,
               createdAt |-> job.createdAt, updatedAt |-> job.updatedAt, runAt |-> job.runAt,
               key |-> job.key]
    BY <1>1
  <2>2. NormalizeJobRecord(job) =
          [job EXCEPT !.name = job.name, !.id = job.id, !.queue = job.queue,
             !.status = job.status, !.priority = job.priority, !.attempts = job.attempts,
             !.retry = job.retry, !.key = job.key]
    BY <1>4, <1>5, <1>6, <1>7, <1>8 DEF NormalizeJobRecord
  <2>. QED
    BY <2>1, <2>2
<1>11. RowToJobRecord(JobToParams(job)) = job
  BY <1>1, <1>9 DEF RowToJobRecord, JobToParams
<1>12. job.runAt >= IF o.runAt = Unset THEN now ELSE o.runAt
  <2>1. job.runAt = ResolveRunAt(o, now) /\ o.runAt \in Int /\ Or(o.delayMs, 0) \in Int
    BY <1>1 DEF JobOptions, Or
  <2>. QED
    BY <1>2, <2>1, NormalIsNormal DEF ResolveRunAt
<1>. QED
  BY <1>10, <1>11, <1>12

(* mergeRetryOptions, for all numbers: what the caller gives goes before the *)
(* definition, the definition before the default, field by field.            *)
THEOREM CallersRetryGoesFirst ==
  ASSUME NEW definition \in RetryOptions, NEW o \in RetryOptions
  PROVE  CallersRetryWins(definition, o)
<1>. DEFINE given == [attempts     |-> Or(o.attempts, definition.attempts),
                      backoffMs    |-> Or(o.backoffMs, definition.backoffMs),
                      maxBackoffMs |-> Or(o.maxBackoffMs, definition.maxBackoffMs),
                      strategy     |-> IF o.strategy = "undefined" THEN definition.strategy
                                       ELSE o.strategy]
            merged == NormalizeRetryOptions(given)
<1>1. MergeRetryOptions(definition, o) = merged
  BY DEF MergeRetryOptions
<1>. SUFFICES ASSUME merged.attempts # Rejected
              PROVE  /\ \A f \in {"attempts", "backoffMs", "maxBackoffMs"} :
                          merged[f] = 2 * (Or(o[f], Or(definition[f], Defaults[f])) \div 2)
                     /\ o.strategy # "undefined" => merged.strategy = o.strategy
                     /\ merged.backoffMs <= merged.maxBackoffMs
  BY <1>1 DEF CallersRetryWins
<1>2. given \in RetryOptions
  BY DEF RetryOptions, Or
<1>. HIDE DEF merged
<1>3. /\ merged.attempts = NormalizePositiveInteger(Or(given.attempts, Defaults.attempts))
      /\ merged.backoffMs = NormalizeNonNegativeInteger(Or(given.backoffMs, Defaults.backoffMs))
      /\ merged.maxBackoffMs
           = NormalizeNonNegativeInteger(Or(given.maxBackoffMs, Defaults.maxBackoffMs))
      /\ merged.strategy = NormalizeBackoffStrategy(
           IF given.strategy = "undefined" THEN Defaults.strategy ELSE given.strategy)
      /\ Rejected \notin {merged.attempts, merged.backoffMs, merged.maxBackoffMs}
      /\ merged.strategy # "JOB_INVALID" /\ merged.backoffMs <= merged.maxBackoffMs
  BY <1>2, RetriesAreNormal DEF merged
<1>4. \A a, b, c \in Int : Or(Or(a, b), c) = Or(a, Or(b, c))
  BY DEF Or
<1>5. \A n \in Int : /\ NormalizePositiveInteger(n) \in {Rejected, 2 * (n \div 2)}
                     /\ NormalizeNonNegativeInteger(n) \in {Rejected, 2 * (n \div 2)}
  BY DEF NormalizePositiveInteger, NormalizeNonNegativeInteger
<1>6. \A a, b \in Int : Or(a, b) \in Int
  BY DEF Or
<1>7. /\ merged.attempts
           = 2 * (Or(o.attempts, Or(definition.attempts, Defaults.attempts)) \div 2)
      /\ merged.backoffMs
           = 2 * (Or(o.backoffMs, Or(definition.backoffMs, Defaults.backoffMs)) \div 2)
      /\ merged.maxBackoffMs
           = 2 * (Or(o.maxBackoffMs, Or(definition.maxBackoffMs, Defaults.maxBackoffMs)) \div 2)
  <2>1. /\ o.attempts \in Int /\ o.backoffMs \in Int /\ o.maxBackoffMs \in Int
        /\ definition.attempts \in Int /\ definition.backoffMs \in Int
        /\ definition.maxBackoffMs \in Int
        /\ Defaults.attempts \in Int /\ Defaults.backoffMs \in Int
        /\ Defaults.maxBackoffMs \in Int
    BY DEF RetryOptions, Defaults
  <2>2. /\ Or(given.attempts, Defaults.attempts)
             = Or(o.attempts, Or(definition.attempts, Defaults.attempts))
        /\ Or(given.backoffMs, Defaults.backoffMs)
             = Or(o.backoffMs, Or(definition.backoffMs, Defaults.backoffMs))
        /\ Or(given.maxBackoffMs, Defaults.maxBackoffMs)
             = Or(o.maxBackoffMs, Or(definition.maxBackoffMs, Defaults.maxBackoffMs))
    BY <1>4, <2>1
  <2>3. /\ Or(given.attempts, Defaults.attempts) \in Int
        /\ Or(given.backoffMs, Defaults.backoffMs) \in Int
        /\ Or(given.maxBackoffMs, Defaults.maxBackoffMs) \in Int
    BY <1>6, <2>1
  <2>4. /\ merged.attempts = 2 * (Or(given.attempts, Defaults.attempts) \div 2)
        /\ merged.backoffMs = 2 * (Or(given.backoffMs, Defaults.backoffMs) \div 2)
        /\ merged.maxBackoffMs = 2 * (Or(given.maxBackoffMs, Defaults.maxBackoffMs) \div 2)
    <3>. HIDE DEF given
    <3>. QED
      BY <1>3, <1>5, <2>3
  <2>. QED
    BY <2>2, <2>4
<1>8. o.strategy # "undefined" => merged.strategy = o.strategy
  BY <1>3 DEF NormalizeBackoffStrategy
<1>. QED
  BY <1>3, <1>7, <1>8

(* defineJobs, for any number of definitions: each is found under its name,  *)
(* however it is padded, and no other is.                                    *)
THEOREM RegistryFindsOneJob ==
  ASSUME NEW names \in Seq(Strings)
  PROVE  NamesFindOneJob(names)
<1>. DEFINE normalized == [i \in DOMAIN names |-> NormalizeName(names[i])]
            registry == DefineJobs(names)
            Pads == {"", " ", "newline"}
<1>1. registry = IF \E i, j \in DOMAIN names :
                      \/ normalized[i] = RejectedString
                      \/ i # j /\ normalized[i] = normalized[j]
                 THEN <<>> ELSE normalized
  BY DEF DefineJobs
<1>. HIDE DEF registry, Pads
<1>2. SUFFICES ASSUME NEW i \in DOMAIN registry, NEW pad \in Pads
               PROVE  RegistryGet(registry, [names[i] EXCEPT !.pad = pad]) = {i}
  BY DEF NamesFindOneJob, registry, Pads
<1>3. /\ registry = normalized /\ i \in DOMAIN names
      /\ \A j \in DOMAIN names : normalized[j] = normalized[i] => j = i
  <2>1. registry # <<>>
    BY <1>2
  <2>2. ~\E k, j \in DOMAIN names :
            \/ normalized[k] = RejectedString
            \/ k # j /\ normalized[k] = normalized[j]
    BY <1>1, <2>1
  <2>3. registry = normalized
    BY <1>1, <2>2
  <2>4. i \in DOMAIN names
    BY <1>2, <2>3
  <2>. QED
    BY <2>2, <2>3, <2>4
<1>4. NormalizeName([names[i] EXCEPT !.pad = pad]) = NormalizeName(names[i])
  <2>1. names[i] \in Strings
    BY <1>3
  <2>. QED
    BY <2>1 DEF Strings, NormalizeName, Trim
<1>5. RegistryGet(registry, [names[i] EXCEPT !.pad = pad])
        = {j \in DOMAIN registry : registry[j] = normalized[i]}
  BY <1>3, <1>4 DEF RegistryGet
<1>. QED
  BY <1>3, <1>5

(* A wait is a whole number, so an even count of halves.                     *)
Waits == {2 * n : n \in Nat}

(* calculateBackoffMs, fixed or linear, for every attempt, jitter and random *)
(* number: a wait lies between nothing and maxBackoffMs and, without jitter, *)
(* never gets shorter.                                                      *)
THEOREM SteadyBackoffIsBounded ==
  ASSUME NEW attempt \in Nat \ {0}, NEW o \in RetryOptions, NEW random \in Int,
         o.strategy \in {"fixed", "linear"}
  PROVE  BackoffBounded(attempt, o, random)
<1>. DEFINE retry == NormalizeRetryOptions(o)
            Value(n) == IF retry.strategy = "fixed" THEN retry.backoffMs ELSE retry.backoffMs * n
            Capped(n) == IF Value(n) <= retry.maxBackoffMs THEN Value(n) ELSE retry.maxBackoffMs
            factor == IF random < 0 THEN 0 ELSE IF random > 2 THEN 2 ELSE random
<1>. SUFFICES ASSUME retry.attempts # Rejected
              PROVE  /\ \A jitter \in BOOLEAN :
                          CalculateBackoffMs(attempt, retry, jitter, random)
                            \in 0 .. retry.maxBackoffMs
                     /\ CalculateBackoffMs(attempt, retry, FALSE, random)
                          <= CalculateBackoffMs(attempt + 1, retry, FALSE, random)
  BY DEF BackoffBounded
<1>. HIDE DEF retry
<1>1. /\ retry.backoffMs \in Waits /\ retry.maxBackoffMs \in Waits
      /\ retry.backoffMs <= retry.maxBackoffMs
      /\ retry.strategy \in {"fixed", "linear"}
  <2>1. \A n \in Int : NormalizeNonNegativeInteger(n) # Rejected
                         => NormalizeNonNegativeInteger(n) \in Waits
    <3>1. \A n \in Int : n >= 0 => n \div 2 \in Nat /\ (n \div 2) * 2 = 2 * (n \div 2)
      OBVIOUS
    <3>. QED
      BY <3>1 DEF NormalizeNonNegativeInteger, Waits
  <2>2. \A a, b \in Int : Or(a, b) \in Int
    BY DEF Or
  <2>3. o.backoffMs \in Int /\ o.maxBackoffMs \in Int
    BY DEF RetryOptions
  <2>4. Defaults.backoffMs \in Int /\ Defaults.maxBackoffMs \in Int
    BY DEF Defaults
  <2>5. /\ retry.backoffMs = NormalizeNonNegativeInteger(Or(o.backoffMs, Defaults.backoffMs))
        /\ retry.maxBackoffMs
             = NormalizeNonNegativeInteger(Or(o.maxBackoffMs, Defaults.maxBackoffMs))
        /\ retry.strategy = NormalizeBackoffStrategy(
             IF o.strategy = "undefined" THEN Defaults.strategy ELSE o.strategy)
        /\ Rejected \notin {retry.attempts, retry.backoffMs, retry.maxBackoffMs}
        /\ retry.backoffMs <= retry.maxBackoffMs
    BY RetriesAreNormal DEF retry
  <2>6. retry.strategy = o.strategy
    BY <2>5 DEF NormalizeBackoffStrategy
  <2>. QED
    BY <2>1, <2>2, <2>3, <2>4, <2>5, <2>6
<1>2. ASSUME NEW n \in Nat \ {0}
      PROVE  /\ CalculateBackoffMs(n, retry, FALSE, random) = Capped(n)
             /\ CalculateBackoffMs(n, retry, TRUE, random)
                  = 2 * ((Capped(n) * factor + 2) \div 4)
  BY <1>1 DEF CalculateBackoffMs
<1>3. ASSUME NEW n \in Nat \ {0}
      PROVE  Value(n) \in Waits /\ Value(n) <= Value(n + 1)
  <2>1. PICK b \in Nat : retry.backoffMs = 2 * b
    BY <1>1 DEF Waits
  <2>2. b * n \in Nat /\ retry.backoffMs * n = 2 * (b * n)
    BY <2>1
  <2>3. retry.backoffMs * n <= retry.backoffMs * (n + 1)
    BY <2>1
  <2>. QED
    BY <1>1, <2>2, <2>3 DEF Waits
<1>. HIDE DEF Value
<1>4. ASSUME NEW n \in Nat \ {0}
      PROVE  /\ Capped(n) \in Waits /\ Capped(n) <= retry.maxBackoffMs
             /\ Capped(n) <= Capped(n + 1)
  <2>1. \A w \in Waits : w \in Nat
    BY DEF Waits
  <2>2. n + 1 \in Nat \ {0}
    OBVIOUS
  <2>. QED
    BY <1>1, <1>3, <2>1, <2>2
<1>5. ASSUME NEW c \in Waits
      PROVE  2 * ((c * factor + 2) \div 4) \in 0 .. c
  <2>1. PICK k \in Nat : c = 2 * k
    BY DEF Waits
  <2>2. CASE factor = 0
    BY <2>1, <2>2
  <2>3. CASE factor = 1
    BY <2>1, <2>3
  <2>4. CASE factor = 2
    BY <2>1, <2>4
  <2>5. factor \in 0..2
    OBVIOUS
  <2>. HIDE DEF factor
  <2>. QED
    BY <2>2, <2>3, <2>4, <2>5
<1>6. /\ Capped(attempt) \in Waits /\ Capped(attempt) <= retry.maxBackoffMs
      /\ Capped(attempt) <= Capped(attempt + 1)
  BY <1>4
<1>7. /\ CalculateBackoffMs(attempt, retry, FALSE, random) = Capped(attempt)
      /\ CalculateBackoffMs(attempt, retry, TRUE, random)
           = 2 * ((Capped(attempt) * factor + 2) \div 4)
      /\ CalculateBackoffMs(attempt + 1, retry, FALSE, random) = Capped(attempt + 1)
  <2>1. attempt + 1 \in Nat \ {0}
    OBVIOUS
  <2>. HIDE DEF Capped, factor
  <2>. QED
    BY <1>2, <2>1
<1>8. 2 * ((Capped(attempt) * factor + 2) \div 4) \in 0 .. Capped(attempt)
  <2>. HIDE DEF Capped, factor
  <2>. QED
    BY <1>5, <1>6
<1>9. /\ Capped(attempt) \in 0 .. retry.maxBackoffMs
      /\ 2 * ((Capped(attempt) * factor + 2) \div 4) \in 0 .. retry.maxBackoffMs
  <2>. HIDE DEF Capped, factor
  <2>1. Capped(attempt) \in Nat /\ retry.maxBackoffMs \in Nat
    BY <1>1, <1>6 DEF Waits
  <2>. QED
    BY <1>6, <1>8, <2>1
<1>10. \A jitter \in BOOLEAN :
         CalculateBackoffMs(attempt, retry, jitter, random) \in 0 .. retry.maxBackoffMs
  <2>1. /\ CalculateBackoffMs(attempt, retry, FALSE, random) \in 0 .. retry.maxBackoffMs
        /\ CalculateBackoffMs(attempt, retry, TRUE, random) \in 0 .. retry.maxBackoffMs
    BY <1>7, <1>9
  <2>2. BOOLEAN = {TRUE, FALSE}
    OBVIOUS
  <2>. QED
    BY <2>1, <2>2
<1>. QED
  BY <1>6, <1>7, <1>10

-----------------------------------------------------------------------------
(* Object requests.                                                          *)
Types == [type: STRING, subtype: STRING]
UploadRules ==
  [maxSizeBytes: Int, contentTypes: SUBSET Types, extensions: SUBSET STRING,
   required: SUBSET STRING, maxMetadataKeys: Nat]

(* createUploadValidator, for every set of rules and every candidate with a  *)
(* finite number of metadata keys, as an object has: it passes exactly when  *)
(* it breaks none of the rules taken one by one.                             *)
THEOREM UploadsBreakNoRule ==
  ASSUME NEW rules \in UploadRules, NEW candidate,
         OR!Cardinality(DOMAIN candidate.metadata) \in Nat
  PROVE  OR!UploadBreaksNoRule(rules, candidate)
<1>. DEFINE keys == OR!Cardinality(DOMAIN candidate.metadata)
            any == [maxSizeBytes |-> OR!Unlimited, contentTypes |-> {}, extensions |-> {},
                    required |-> {}, maxMetadataKeys |-> keys]
            only(field) == [any EXCEPT ![field] = rules[field]]
            KeyFits == OR!NormalizeStorageKey(candidate.key) # OR!InvalidKey
            SizeFits == OR!FitsSize(candidate.size, rules.maxSizeBytes)
            TypeFits == rules.contentTypes # {} =>
                          /\ candidate.contentType # OR!AbsentType
                          /\ OR!MatchesContentType(candidate.contentType, rules.contentTypes)
            ExtensionFits == rules.extensions # {} => candidate.extension \in rules.extensions
            RequiredThere == rules.required \subseteq DOMAIN candidate.metadata
            FewKeys == keys <= rules.maxMetadataKeys
<1>1. OR!ValidateUpload(rules, candidate) = "ok" <=>
        KeyFits /\ SizeFits /\ TypeFits /\ ExtensionFits /\ RequiredThere /\ FewKeys
  <2>1. FewKeys <=> ~(keys > rules.maxMetadataKeys)
    BY DEF UploadRules
  <2>2. OR!ValidateUpload(rules, candidate) =
          IF ~KeyFits THEN "STORAGE_INVALID_KEY"
          ELSE IF ~SizeFits THEN "STORAGE_MAX_SIZE_EXCEEDED"
          ELSE IF ~TypeFits THEN "STORAGE_INVALID_CONTENT_TYPE"
          ELSE IF ~ExtensionFits THEN "STORAGE_INVALID_EXTENSION"
          ELSE IF ~RequiredThere \/ keys > rules.maxMetadataKeys THEN "STORAGE_INVALID_METADATA"
          ELSE "ok"
    <3>1. TypeFits <=> ~(/\ rules.contentTypes # {}
                         /\ \/ candidate.contentType = OR!AbsentType
                            \/ ~OR!MatchesContentType(candidate.contentType, rules.contentTypes))
      OBVIOUS
    <3>2. ExtensionFits <=> ~(rules.extensions # {} /\ candidate.extension \notin rules.extensions)
      OBVIOUS
    <3>. HIDE DEF TypeFits, ExtensionFits
    <3>. QED
      BY <3>1, <3>2 DEF OR!ValidateUpload
  <2>. HIDE DEF KeyFits, SizeFits, TypeFits, ExtensionFits, RequiredThere, FewKeys, keys
  <2>. QED
    BY <2>1, <2>2
<1>2. DOMAIN rules = {"maxSizeBytes", "contentTypes", "extensions", "required", "maxMetadataKeys"}
  BY DEF UploadRules
<1>3. /\ only("maxSizeBytes") = [any EXCEPT !.maxSizeBytes = rules.maxSizeBytes]
      /\ only("contentTypes") = [any EXCEPT !.contentTypes = rules.contentTypes]
      /\ only("extensions") = [any EXCEPT !.extensions = rules.extensions]
      /\ only("required") = [any EXCEPT !.required = rules.required]
      /\ only("maxMetadataKeys") = [any EXCEPT !.maxMetadataKeys = rules.maxMetadataKeys]
  OBVIOUS
<1>4. /\ OR!ValidateUpload(only("maxSizeBytes"), candidate) = "ok" <=> KeyFits /\ SizeFits
      /\ OR!ValidateUpload(only("contentTypes"), candidate) = "ok" <=> KeyFits /\ TypeFits
      /\ OR!ValidateUpload(only("extensions"), candidate) = "ok" <=> KeyFits /\ ExtensionFits
      /\ OR!ValidateUpload(only("required"), candidate) = "ok" <=> KeyFits /\ RequiredThere
      /\ OR!ValidateUpload(only("maxMetadataKeys"), candidate) = "ok" <=> KeyFits /\ FewKeys
  BY DEF OR!ValidateUpload, OR!FitsSize, OR!Unlimited, UploadRules
<1>5. TypeFits /\ rules.contentTypes # {} =>
        \E p \in rules.contentTypes : p.type \in {"*", candidate.contentType.type}
  BY DEF OR!MatchesContentType
<1>6. OR!ValidateUpload(rules, candidate) = "ok"
        <=> \A field \in DOMAIN rules : OR!ValidateUpload(only(field), candidate) = "ok"
  BY <1>1, <1>2, <1>4
<1>. QED
  BY <1>1, <1>5, <1>6 DEF OR!UploadBreaksNoRule

(* put, for every client, key, body and option: what is accepted keeps to    *)
(* the limit of the client, or the call brought its own, and each store      *)
(* gives it back with its key, size and type.                                *)
THEOREM AcceptedObjectsComeBack ==
  ASSUME NEW client, NEW key, NEW body, NEW o
  PROVE  OR!AcceptedComesBack(client, key, body, o)
<1>. DEFINE object == OR!Put(client, key, body, o)
            made == OR!CreateStorageObject(OR!ClientKey(client.namespace, key), body, o)
            max == IF o.maxSizeBytes # OR!Unlimited THEN o.maxSizeBytes ELSE client.maxSizeBytes
<1>1. SUFFICES ASSUME ~OR!IsError(object)
      PROVE  /\ OR!FitsSize(object.size, client.maxSizeBytes) \/ o.maxSizeBytes # OR!Unlimited
             /\ \A store \in {"memory", "local", "s3"} :
                  LET back == OR!GivenBack(store, object) IN
                    /\ [back EXCEPT !.metadata = object.metadata] = object
                    /\ store # "s3" => back = object
  BY DEF OR!AcceptedComesBack
<1>2. object = made /\ OR!FitsSize(made.size, max)
  <2>1. \A code : OR!IsError(OR!Error(code))
    BY DEF OR!IsError, OR!Error
  <2>2. object = OR!Accepted(made, max, client.allowedContentTypes)
    BY DEF OR!Put
  <2>. HIDE DEF object, made, max
  <2>. QED
    BY <1>1, <2>1, <2>2 DEF OR!Accepted
<1>3. \E k, s, t, m : object = [key |-> k, size |-> s, contentType |-> t, metadata |-> m]
  BY <1>2 DEF OR!CreateStorageObject
<1>4. OR!FitsSize(object.size, client.maxSizeBytes) \/ o.maxSizeBytes # OR!Unlimited
  BY <1>2
<1>. HIDE DEF object
<1>5. \A m : [[object EXCEPT !.metadata = m] EXCEPT !.metadata = object.metadata] = object
  BY <1>3
<1>6. ASSUME NEW store \in {"memory", "local", "s3"}
      PROVE  /\ [OR!GivenBack(store, object) EXCEPT !.metadata = object.metadata] = object
             /\ store # "s3" => OR!GivenBack(store, object) = object
  <2>1. CASE store = "s3"
    BY <1>5, <2>1 DEF OR!GivenBack, OR!ReadAmzMetadata
  <2>2. CASE store # "s3"
    BY <1>3, <2>2 DEF OR!GivenBack
  <2>. QED
    BY <2>1, <2>2
<1>. QED
  BY <1>4, <1>6

(* signS3Request, for every bucket, endpoint and key: whatever S3 insists on *)
(* is signed, and two keys are never one place.                              *)
THEOREM SignaturesCover ==
  ASSUME NEW config \in [pathStyle: BOOLEAN, sessionToken: BOOLEAN,
                         bucket: STRING, endpoint: STRING],
         NEW input, NEW other, input.key \in Seq(STRING), other.key \in Seq(STRING)
  PROVE  OR!SignatureCovers(config, input, other)
<1>. DEFINE r == OR!SignS3Request(config, input)
            s == OR!SignS3Request(config, other)
<1>1. r.sent \cap OR!MustBeSigned \subseteq r.signed
  BY DEF OR!SignS3Request, OR!MustBeSigned
<1>2. ASSUME r.target = s.target PROVE input.key = other.key
  <2>1. OR!S3Target(config, input.key) = OR!S3Target(config, other.key)
    BY <1>2 DEF OR!SignS3Request
  <2>2. CASE config.pathStyle
    <3>1. <<config.bucket>> \o input.key = <<config.bucket>> \o other.key
      BY <2>1, <2>2 DEF OR!S3Target
    <3>2. config.bucket \in STRING
      OBVIOUS
    <3>3. Len(input.key) = Len(other.key)
      BY <3>1, <3>2
    <3>4. ASSUME NEW i \in 1..Len(input.key) PROVE input.key[i] = other.key[i]
      <4>1. /\ (<<config.bucket>> \o input.key)[i + 1] = input.key[i]
            /\ (<<config.bucket>> \o other.key)[i + 1] = other.key[i]
        BY <3>2, <3>3
      <4>. QED
        BY <3>1, <4>1
    <3>. QED
      BY <3>3, <3>4, SeqEqual
  <2>3. CASE ~config.pathStyle
    BY <2>1, <2>3 DEF OR!S3Target
  <2>. QED
    BY <2>2, <2>3
<1>. QED
  BY <1>1, <1>2 DEF OR!SignatureCovers

-----------------------------------------------------------------------------
(* Session cookies.                                                          *)
(* verifyCsrf, for every request and every option: an unsafe request that   *)
(* passes echoes the token of its own cookie and, if it names an origin,     *)
(* comes from one that is allowed.                                           *)
THEOREM UnsafeRequestsEchoTheToken ==
  ASSUME NEW request, NEW o
  PROVE  SC!CsrfNeedsTheToken(request, o)
<1>. DEFINE token == SC!ParseCookieHeader(request.cookies, SC!Or(o.cookieName, "csrf"))
            Safe == request.method \in {"GET", "HEAD", "OPTIONS"}
            Elsewhere == \/ o.requireOrigin /\ request.origin = SC!Absent
                              /\ request.secFetchSite = SC!Absent
                         \/ ~SC!IsSameOriginRequest(request, o.allowedOrigins)
<1>1. ASSUME SC!VerifyCsrf(request, o) = "ok", ~Safe
      PROVE  ~Elsewhere /\ {token, request.token} \cap {SC!Absent, ""} = {} /\ token = request.token
  BY <1>1 DEF SC!VerifyCsrf
<1>2. ~Elsewhere => request.origin \in o.allowedOrigins \cup {request.urlOrigin, SC!Absent}
  BY DEF SC!IsSameOriginRequest
<1>. QED
  BY <1>1, <1>2 DEF SC!CsrfNeedsTheToken, SC!GetCookie

-----------------------------------------------------------------------------
(* Schema snapshots.                                                         *)
(* Tables as validateSchemaSnapshot is given them: lists where it wants lists *)
Tables(Columns, Constraints) ==
  [schema: STRING, name: STRING, columns: Seq(Columns), primaryKey: Seq(STRING),
   indexes: Seq(Constraints), uniqueConstraints: Seq(Constraints), foreignKeys: Seq(Constraints),
   checks: Seq(Constraints)]

(* validateSchemaSnapshot, for any number of tables, columns and            *)
(* constraints: no two tables share a key, an index names columns of its     *)
(* table and a foreign key columns of its target.                            *)
THEOREM ValidNamesAreThere ==
  ASSUME NEW Columns, NEW Constraints, NEW snapshot,
         snapshot.tables \in Seq(Tables(Columns, Constraints)),
         \A t \in SS!ToSet(snapshot.tables) : \A k \in DOMAIN t.indexes :
            t.indexes[k].columns # SS!NoColumns
  PROVE  SS!ValidSnapshotsHangTogether(snapshot)
<1>. DEFINE tables == snapshot.tables
<1>1. SUFFICES ASSUME SS!ValidateSchemaSnapshot(snapshot) = {},
                      NEW i \in DOMAIN tables, NEW j \in DOMAIN tables
      PROVE  LET t == snapshot.tables[i]
                 u == snapshot.tables[j]
             IN  /\ SS!TableSnapshotKey(t) = SS!TableSnapshotKey(u) => i = j
                 /\ \A k \in DOMAIN t.indexes :
                      SS!ToSet(t.indexes[k].columns) \subseteq SS!ColumnNames(t)
                 /\ \A f \in SS!ToSet(t.foreignKeys) : f.references.table = SS!TableSnapshotKey(u) =>
                      SS!ToSet(f.references.columns) \subseteq SS!ColumnNames(u)
  BY DEF SS!ValidSnapshotsHangTogether
<1>2. SS!Named(tables) = tables
  BY <1>1 DEF SS!ValidateSchemaSnapshot
<1>3. /\ ~SS!Repeated(tables, SS!TableSnapshotKey)
      /\ SS!ValidateTable(tables[i]) = {}
      /\ SS!ValidateForeignKeyTargets(tables[i], SS!LastOfKeys(tables)) = {}
  <2>. DEFINE named == SS!Named(tables)
              version == IF snapshot.version = 1 THEN {} ELSE {"SCHEMA_INVALID_VERSION"}
              dialect == IF snapshot.dialect \in
                              {SS!Unset, "generic", "postgres", "sqlite", "mysql"}
                         THEN {} ELSE {"SCHEMA_INVALID_DIALECT"}
              unnamed == IF named = tables THEN {} ELSE {"SCHEMA_INVALID_TABLE"}
              twice == IF SS!Repeated(named, SS!TableSnapshotKey) THEN {"SCHEMA_DUPLICATE_TABLE"}
                       ELSE {}
              within == UNION {SS!ValidateTable(named[k]) : k \in DOMAIN named}
              across == UNION {SS!ValidateForeignKeyTargets(tables[k], SS!LastOfKeys(named)) :
                                 k \in DOMAIN tables}
  <2>1. twice = {} /\ within = {} /\ across = {}
    <3>1. version \cup dialect \cup unnamed \cup twice \cup within \cup across = {}
      BY <1>1 DEF SS!ValidateSchemaSnapshot
    <3>. HIDE DEF version, dialect, unnamed, twice, within, across
    <3>. QED
      BY <3>1
  <2>2. named = tables
    BY <1>2
  <2>. HIDE DEF named
  <2>3. ~SS!Repeated(tables, SS!TableSnapshotKey)
    BY <2>1, <2>2
  <2>4. SS!ValidateTable(tables[i]) = {}
    BY <2>1, <2>2
  <2>5. SS!ValidateForeignKeyTargets(tables[i], SS!LastOfKeys(tables)) = {}
    BY <2>1, <2>2
  <2>. QED
    BY <2>3, <2>4, <2>5
<1>4. \A k, l \in DOMAIN tables :
        SS!TableSnapshotKey(tables[k]) = SS!TableSnapshotKey(tables[l]) => k = l
  BY <1>3 DEF SS!Repeated
<1>5. tables[i] \in Tables(Columns, Constraints)
  OBVIOUS
<1>6. ASSUME NEW k \in DOMAIN tables[i].indexes
      PROVE  SS!ToSet(tables[i].indexes[k].columns) \subseteq SS!ColumnNames(tables[i])
  <2>. DEFINE t == tables[i]
              lists == t.indexes \o t.uniqueConstraints \o t.foreignKeys
  <2>1. SS!Named(t.columns) = t.columns
    BY <1>3 DEF SS!ValidateTable
  <2>2. \A l \in DOMAIN lists : SS!ValidateColumnList(lists[l].columns, SS!ColumnNames(t)) = {}
    BY <1>3, <2>1 DEF SS!ValidateTable, SS!ColumnNames
  <2>3. k \in DOMAIN lists /\ lists[k] = t.indexes[k]
    <3>1. /\ t.indexes \in Seq(Constraints) /\ t.uniqueConstraints \in Seq(Constraints)
          /\ t.foreignKeys \in Seq(Constraints)
      BY <1>5 DEF Tables
    <3>. HIDE DEF t
    <3>2. ASSUME NEW a \in Seq(Constraints), NEW b \in Seq(Constraints), NEW c \in Seq(Constraints),
                 NEW n \in DOMAIN a
          PROVE  n \in DOMAIN (a \o b \o c) /\ (a \o b \o c)[n] = a[n]
      OBVIOUS
    <3>3. k \in DOMAIN t.indexes
      BY DEF t
    <3>. QED
      BY <3>1, <3>2, <3>3
  <2>4. SS!ValidateColumnList(t.indexes[k].columns, SS!ColumnNames(t)) = {}
    BY <2>2, <2>3
  <2>5. t.indexes[k].columns # SS!NoColumns
    BY DEF SS!ToSet
  <2>. HIDE DEF t
  <2>. QED
    BY <2>4, <2>5 DEF SS!ValidateColumnList, t
<1>7. ASSUME NEW f \in SS!ToSet(tables[i].foreignKeys),
             f.references.table = SS!TableSnapshotKey(tables[j])
      PROVE  SS!ToSet(f.references.columns) \subseteq SS!ColumnNames(tables[j])
  <2>1. tables[j] \in SS!LastOfKeys(tables)
    <3>1. \A k \in j + 1 .. Len(tables) :
            SS!TableSnapshotKey(tables[k]) # SS!TableSnapshotKey(tables[j])
      BY <1>4
    <3>. QED
      BY <3>1 DEF SS!LastOfKeys
  <2>2. [table |-> f.references.table, columns |-> f.references.columns] \in SS!Targets(tables[i])
    BY DEF SS!Targets
  <2>. QED
    BY <1>3, <1>7, <2>1, <2>2 DEF SS!ValidateForeignKeyTargets
<1>. QED
  BY <1>4, <1>6, <1>7

-----------------------------------------------------------------------------
(* Environments.                                                             *)
Keys == [rest: STRING, word: STRING]

(* defineEnv, for every schema, source, mode, prefix and default: in a strict *)
(* mode a secret comes from what was set and from nothing else, what was set *)
(* badly fails, and neither the redacted nor the example output shows one.   *)
THEOREM SecretsComeFromTheSource ==
  ASSUME NEW schema, DOMAIN schema \subseteq Keys,
         NEW explicit \in BOOLEAN, NEW source, NEW o
  PROVE  Env!SecretsAreExplicit(schema, explicit, source, o)
<1>. DEFINE values == Env!DefineEnv(schema, explicit, source, o)
            key(k) == Env!SourceKey(k, o.prefix)
            set(k) == key(k) \in DOMAIN source
            sensitive(k) == schema[k].isSecret \/ Env!IsSecretKey(k)
            guarded(k) == sensitive(k) \/ Env!IsSecretKey(key(k))
            Forbidden == ~explicit /\ o.mode = "test"
            Parsed(k) == Env!Parse(schema[k], source[key(k)], o.allowEmpty)
            Missing(k) == Env!MissingValue(schema[k], key(k), o.mode)
<1>. SUFFICES ASSUME NEW k \in DOMAIN schema
              PROVE  /\ Forbidden => Env!IsFailure(values[k])
                     /\ sensitive(k) => /\ Env!RedactEnv(values, schema)[k] = "[REDACTED]"
                                        /\ Env!GenerateEnvExample(schema, TRUE)[k] = ""
                     /\ ~sensitive(k) => Env!RedactEnv(values, schema)[k] = values[k]
                     /\ guarded(k) /\ o.mode \in {"test", "production"} /\ ~Env!IsFailure(values[k]) =>
                          set(k) \/ (values[k] = Env!Unset /\ ~schema[k].isRequired)
                     /\ set(k) /\ ~Env!IsFailure(values[k]) => values[k] = Parsed(k)
  BY DEF Env!SecretsAreExplicit
<1>1. Env!IsSecretKey(k) => Env!IsSecretKey(key(k))
  BY DEF Env!IsSecretKey, Env!SourceKey, Env!Key, Keys
<1>2. k \in DOMAIN values
  BY DEF Env!DefineEnv, Env!ValidateEnv
<1>3. sensitive(k) => /\ Env!RedactEnv(values, schema)[k] = "[REDACTED]"
                      /\ Env!GenerateEnvExample(schema, TRUE)[k] = ""
  <2>. HIDE DEF values
  <2>. QED
    BY <1>2 DEF Env!RedactEnv, Env!GenerateEnvExample
<1>4. ~sensitive(k) => Env!RedactEnv(values, schema)[k] = values[k]
  <2>. HIDE DEF values
  <2>. QED
    BY <1>2 DEF Env!RedactEnv
<1>5. Forbidden => Env!IsFailure(values[k])
  BY DEF Env!DefineEnv, Env!IsFailure, Env!Failures
<1>6. ~Forbidden => values[k] = Env!ValueOf(schema[k], key(k), source, o)
  BY DEF Env!DefineEnv, Env!ValidateEnv
<1>7. ~Forbidden /\ set(k) /\ ~Env!IsFailure(values[k]) => values[k] = Parsed(k)
  <2>. HIDE DEF values, key
  <2>. QED
    BY <1>6 DEF Env!ValueOf, Env!IsFailure, Env!Failures
<1>8. ~Forbidden /\ ~set(k) => values[k] = Missing(k)
  <2>. HIDE DEF values, key
  <2>. QED
    BY <1>6 DEF Env!ValueOf
<1>9. guarded(k) /\ o.mode \in {"test", "production"} /\ ~Env!IsFailure(Missing(k)) =>
        Missing(k) = Env!Unset /\ ~schema[k].isRequired
  <2>. HIDE DEF key
  <2>. QED
    BY <1>1 DEF Env!MissingValue, Env!IsFailure, Env!Failures
<1>. HIDE DEF values, key, Missing, Parsed
<1>. QED
  BY <1>3, <1>4, <1>5, <1>7, <1>8, <1>9
=============================================================================
