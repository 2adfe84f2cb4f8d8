------------------------------ MODULE JobCases ------------------------------
(* The inputs on which JobSchedules and JobInputs are checked, by topic.    *)
EXTENDS Integers, Sequences

(* Two hours of two minutes make a day; 99 stands for "*".                  *)
Cron == INSTANCE JobSchedules WITH Star <- 99, HoursPerDay <- 2, MinutesPerHour <- 2
Jobs == INSTANCE JobInputs

JobTopics == {"schedule", "job record", "backoff", "job names", "webhook", "job error"}

-----------------------------------------------------------------------------
Token(lo, hi, step) == [lo |-> lo, hi |-> hi, step |-> step, stepped |-> step # 1]
Any == <<Token(99, 99, 1)>>
EveryOne == <<[Token(99, 99, 1) EXCEPT !.stepped = TRUE]>>   \* "*/1"
Expressions ==
  [minute: {Any, <<Token(0, 0, 1)>>}, hour: {Any, <<Token(1, 1, 1)>>},
   dom: {Any, EveryOne, <<Token(29, 29, 1)>>, <<Token(99, 99, 15)>>},
   month: {<<Token(2, 2, 1)>>, <<Token(3, 11, 4)>>, <<Token(99, 99, 1)>>},
   dow: {Any, EveryOne, <<Token(1, 5, 2)>>, <<Token(0, 0, 1), Token(7, 7, 1)>>}]

(* 29 February 2024 is day 19782.                                           *)
Instants == {19782 * 4 + 1, 19782 * 4 + 3, 20000 * 4}

Bodies(b) == {[body |-> b, pad |-> p] : p \in {"", " ", "newline"}}
Retries ==
  [attempts: {Jobs!Unset, 1, 2, 5}, backoffMs: {Jobs!Unset, -1, 0, 3, 4},
   maxBackoffMs: {Jobs!Unset, 0, 3, 9, Jobs!NaN},
   strategy: {"undefined", "fixed", "linear", "exponential", "other"}]
SomeRetries == {o \in Retries : o.attempts \in {Jobs!Unset, 2} /\ o.backoffMs \in {Jobs!Unset, 3}
                                /\ o.strategy \in {"undefined", "exponential", "other"}}
JobOptions ==
  [id: Bodies("a"), queue: {[body |-> "b", pad |-> " "]}, priority: {"low", "x"},
   retry: SomeRetries, runAt: {Jobs!Unset, 3}, delayMs: {Jobs!Unset, -2, 3},
   key: {Jobs!UnsetString, [body |-> "a b", pad |-> " "], [body |-> "control", pad |-> ""]}]

JobInputsOf(topic) ==
  CASE topic = "schedule" -> Expressions
    [] topic = "job record" -> JobOptions
    [] topic = "backoff" -> Retries
    [] topic = "job names" -> Jobs!Strings
    [] topic = "webhook" -> [method: {"GET", "get", "head", "POST"}, expectOk: BOOLEAN,
                             status: {199, 200, 204, 299, 300, 500}]
    [] topic = "job error" -> [kind: {"RootwareError", "Error", "string", "other"},
                               name: {"E"}, message: {"m"}, code: {"c"}]

-----------------------------------------------------------------------------
(* No run of a schedule is skipped, and records, names and error messages   *)
(* come back from the stores as they were given.                            *)
JobsLoseNothing(topic, input) ==
  CASE topic = "schedule" -> \A t \in Instants : Cron!NextRunIsNext(input, t)
    [] topic = "job record" ->
         \A name \in Bodies("a") \cup Bodies("") : Jobs!RecordsSurviveStores(name, input, 2)
    [] topic = "job names" -> \A name \in Jobs!Strings : Jobs!NamesFindOneJob(<<input, name>>)
    [] topic = "job error" -> Jobs!ErrorsKeepTheirMessage(input)
    [] OTHER -> TRUE

(* Backoffs stay between their bounds, and a webhook job fails on exactly   *)
(* the answers it is told to.                                               *)
JobsKeepLimits(topic, input) ==
  CASE topic = "schedule" -> \A every \in -1..5, t \in {0, 5} : Cron!IntervalGoesOn(every, t)
    [] topic = "backoff" ->
         /\ \A attempt \in 1..4, random \in -1..3 : Jobs!BackoffBounded(attempt, input, random)
         /\ \A definition \in SomeRetries : Jobs!CallersRetryWins(definition, input)
    [] topic = "webhook" ->
         Jobs!WebhookFailsOnItsAnswer(input.method, input.expectOk, input.status)
    [] OTHER -> TRUE
=============================================================================
