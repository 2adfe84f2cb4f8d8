----------------------------- MODULE HttpClient -----------------------------
(***************************************************************************)
(* executeRequest (packages/web/http/mod.ts): requests that share a response*)
(* cache, each a loop of fetch, timeout and retry, which the caller's signal*)
(* may abort at any time.  The network is external: a request that was sent *)
(* may reach the server or not, also after the client gave it up.  Hooks and*)
(* the logger cannot disturb a request and are left out; delays pass.       *)
(***************************************************************************)
EXTENDS Naturals, FiniteSets

CONSTANTS
  Requests,  \* logical requests, one call each
  Attempts,  \* RetryOptions.attempts: retries after the first try
  None       \* nothing

VARIABLES
  options,  \* what each call asks: method, timeout, expectOk
  pc,       \* the await each call stands at
  attempt,  \* retries begun
  aborted,  \* how the signal of each call was aborted
  wire,     \* requests sent and not yet answered or lost
  sent,     \* history: how often fetch let the request out
  reached,  \* history: how often the server got it
  cache,    \* the response cache's entry for the one GET
  result    \* what each call returned or threw

vars == <<options, pc, attempt, aborted, wire, sent, reached, cache, result>>

Methods == {"GET", "POST"}
Options == [method: Methods, timeout: BOOLEAN, expectOk: BOOLEAN, cached: BOOLEAN]
Statuses == {"ok", "busy", "bad"}   \* 2xx, a retryable status, any other
Reasons == {"AbortError", "TimeoutError", "other"}
Codes == {"HTTP_TIMEOUT", "HTTP_ABORTED", "HTTP_NETWORK_ERROR", "HTTP_UNKNOWN_ERROR",
          "HTTP_RESPONSE_ERROR", "HTTP_RETRY_EXHAUSTED"}

HttpAssumption == Attempts \in Nat /\ None \notin Reasons \cup Statuses \cup Codes

TypeOK ==
  /\ options \in [Requests -> Options]
  /\ pc \in [Requests -> {"idle", "cache", "send", "fetch", "body", "store", "wait", "done"}]
  /\ attempt \in [Requests -> 0..Attempts]
  /\ aborted \in [Requests -> Reasons \cup {None}]
  /\ wire \subseteq [call: Requests, try: 0..Attempts, reached: BOOLEAN]
  /\ sent \in [Requests -> Nat] /\ reached \in [Requests -> Nat]
  /\ cache \in {"ok", None}
  /\ result \in [Requests -> Statuses \cup Codes \cup {None}]

Init ==
  /\ options \in [Requests -> Options]
  /\ pc = [r \in Requests |-> "idle"]
  /\ attempt = [r \in Requests |-> 0]
  /\ aborted = [r \in Requests |-> None]
  /\ wire = {}
  /\ sent = [r \in Requests |-> 0] /\ reached = [r \in Requests |-> 0]
  /\ cache \in {"ok", None}   \* what earlier requests left there
  /\ result = [r \in Requests |-> None]

-----------------------------------------------------------------------------
(* Pure rules. *)
IsCacheable(o) == o.cached /\ o.method = "GET"

(* classifyFetchError: what a rejected fetch is taken for. *)
ClassifyAbort(reason) ==
  CASE reason = "TimeoutError" -> "HTTP_TIMEOUT"
    [] reason = "AbortError" -> "HTTP_ABORTED"
    [] reason = "other" -> "HTTP_UNKNOWN_ERROR"

IsRetryableError(code) == code \in {"HTTP_TIMEOUT", "HTTP_NETWORK_ERROR", "HTTP_RETRY_EXHAUSTED"}
IsRetryableStatus(status) == status = "busy"

Mut_RetryAnyMethod(r, retryable) == attempt[r] < Attempts /\ retryable

(* shouldRetry, under the default retryOnMethods. *)
ShouldRetry(r, retryable) ==
  attempt[r] < Attempts /\ options[r].method = "GET" /\ retryable

-----------------------------------------------------------------------------
Goto(r, place) == pc' = [pc EXCEPT ![r] = place]

Finish(r, what) ==
  /\ Goto(r, "done")
  /\ result' = [result EXCEPT ![r] = what]

Begin(r) ==
  /\ pc[r] = "idle"
  /\ Goto(r, IF IsCacheable(options[r]) THEN "cache" ELSE "send")
  /\ UNCHANGED <<options, attempt, aborted, wire, sent, reached, cache, result>>

(* readCache: a hit ends the request, a miss or a failure goes on. *)
CacheHit(r) ==
  /\ pc[r] = "cache" /\ cache # None
  /\ Finish(r, cache)
  /\ UNCHANGED <<options, attempt, aborted, wire, sent, reached, cache>>

CacheMiss(r) ==
  /\ pc[r] = "cache"
  /\ Goto(r, "send")
  /\ UNCHANGED <<options, attempt, aborted, wire, sent, reached, cache, result>>

(* One turn of the loop: a controller that follows the signal, and fetch,   *)
(* which rejects at once when the signal is aborted by then.                *)
Send(r) ==
  /\ pc[r] = "send"
  /\ IF aborted[r] = None
     THEN /\ wire' = wire \cup {[call |-> r, try |-> attempt[r], reached |-> FALSE]}
          /\ sent' = [sent EXCEPT ![r] = @ + 1]
     ELSE UNCHANGED <<wire, sent>>
  /\ Goto(r, "fetch")
  /\ UNCHANGED <<options, attempt, aborted, reached, cache, result>>

(* The loop's catch: wait and try again, or fail. *)
Retry(r) ==
  /\ attempt' = [attempt EXCEPT ![r] = @ + 1]
  /\ Goto(r, "wait")
  /\ UNCHANGED result

Exhausted(r, code) == attempt[r] >= Attempts /\ Attempts > 0 /\ IsRetryableError(code)

Failed(r, code) ==
  IF ShouldRetry(r, IsRetryableError(code)) THEN Retry(r)
  ELSE /\ Finish(r, IF Exhausted(r, code) THEN "HTTP_RETRY_EXHAUSTED" ELSE code)
       /\ UNCHANGED attempt

(* withTimeout: the timer wins the race.  fetch is aborted, but what is on  *)
(* its way to the server may arrive.                                        *)
TimesOut(r) ==
  /\ pc[r] = "fetch" /\ options[r].timeout
  /\ Failed(r, "HTTP_TIMEOUT")
  /\ UNCHANGED <<options, aborted, wire, sent, reached, cache>>

FetchAborts(r) ==
  /\ pc[r] = "fetch" /\ aborted[r] # None
  /\ Failed(r, ClassifyAbort(aborted[r]))
  /\ UNCHANGED <<options, aborted, wire, sent, reached, cache>>

Current(w) == pc[w.call] = "fetch" /\ w.try = attempt[w.call]

(* The connection breaks, before or after the server got the request. *)
NetworkFails(w) ==
  /\ Current(w)
  /\ wire' = wire \ {w}
  /\ Failed(w.call, "HTTP_NETWORK_ERROR")
  /\ UNCHANGED <<options, aborted, sent, reached, cache>>

(* The answer comes in time: retry on its status, fail on it, or take it.   *)
Respond(r, status) ==
  IF ShouldRetry(r, IsRetryableStatus(status)) THEN Retry(r)
  ELSE IF options[r].expectOk /\ status # "ok"
  THEN Goto(r, "body") /\ UNCHANGED <<attempt, result>>
  ELSE IF IsCacheable(options[r]) /\ status = "ok"
  THEN Goto(r, "store") /\ UNCHANGED <<attempt, result>>
  ELSE Finish(r, status) /\ UNCHANGED attempt

Answered(w, status) ==
  /\ w.reached /\ Current(w)
  /\ wire' = wire \ {w}
  /\ Respond(w.call, status)
  /\ UNCHANGED <<options, aborted, sent, reached, cache>>

(* createResponseError reads the body: the timer was cleared by then, and only *)
(* the caller's signal still reaches the fetch.                              *)
BodyRead(r) ==
  /\ pc[r] = "body"
  /\ Failed(r, "HTTP_RESPONSE_ERROR")
  /\ UNCHANGED <<options, aborted, wire, sent, reached, cache>>

(* writeCache, whose failure does not matter. *)
CacheStored(r) ==
  /\ pc[r] = "store"
  /\ cache' \in {"ok", cache}
  /\ Finish(r, "ok")
  /\ UNCHANGED <<options, attempt, aborted, wire, sent, reached>>

(* wait(delayMs) does not look at the signal. *)
WaitOver(r) ==
  /\ pc[r] = "wait"
  /\ Goto(r, "send")
  /\ UNCHANGED <<options, attempt, aborted, wire, sent, reached, cache, result>>

(* The caller's side and the network's. *)
Abort(r, reason) ==
  /\ pc[r] # "done" /\ aborted[r] = None
  /\ aborted' = [aborted EXCEPT ![r] = reason]
  /\ UNCHANGED <<options, pc, attempt, wire, sent, reached, cache, result>>

Reaches(w) ==
  /\ ~w.reached
  /\ wire' = (wire \ {w}) \cup {[w EXCEPT !.reached = TRUE]}
  /\ reached' = [reached EXCEPT ![w.call] = @ + 1]
  /\ UNCHANGED <<options, pc, attempt, aborted, sent, cache, result>>

(* Nobody waits for it any more. *)
Lost(w) ==
  /\ ~Current(w)
  /\ wire' = wire \ {w}
  /\ UNCHANGED <<options, pc, attempt, aborted, sent, reached, cache, result>>

FetchSettles(r) ==
  \/ TimesOut(r)
  \/ FetchAborts(r)
  \/ \E w \in wire : w.call = r /\ (NetworkFails(w) \/ \E s \in Statuses : Answered(w, s))

Steps(r) ==
  \/ CacheHit(r)
  \/ CacheMiss(r)
  \/ Send(r)
  \/ CacheStored(r)
  \/ WaitOver(r)

Next ==
  \/ \E r \in Requests :
       \/ Begin(r) \/ Steps(r) \/ FetchSettles(r) \/ BodyRead(r)
       \/ \E why \in Reasons : Abort(r, why)
  \/ \E w \in wire : Reaches(w) \/ Lost(w)

Spec == Init /\ [][Next]_vars

(* Delays pass and the caller's cache answers; a fetch settles that has a    *)
(* timeout or an aborted signal, and a body ends when the signal is aborted. *)
(* A fetch with neither may hang, and so may the body of a failure.          *)
Settling(r) == TimesOut(r) \/ FetchAborts(r) \/ (aborted[r] # None /\ BodyRead(r))

Fairness == \A r \in Requests : WF_vars(Steps(r) \/ Settling(r))

FairSpec == Spec /\ Fairness

-----------------------------------------------------------------------------
(* A request goes out once per attempt it is allowed, and one whose method  *)
(* is not idempotent reaches the server at most once, whatever timed out.   *)
SentWithinBudget ==
  \A r \in Requests :
    /\ reached[r] <= sent[r]
    /\ sent[r] <= IF options[r].method = "GET" THEN Attempts + 1 ELSE 1

(* Retries are called exhausted only after every one of them was used.      *)
ExhaustedMeansTried ==
  \A r \in Requests : result[r] = "HTTP_RETRY_EXHAUSTED" => attempt[r] = Attempts /\ Attempts > 0

(* With a timeout every call settles whatever the server and the network do, *)
(* unless it waits for the body of a failed answer, which no timer ends; and *)
(* an abort settles every call, wherever it finds it - between two tries, in *)
(* that body - and though an abort for TimeoutError is retried.             *)
EveryRequestSettles ==
  \A r \in Requests :
    pc[r] # "idle" /\ (options[r].timeout \/ aborted[r] # None)
      ~> pc[r] = "done" \/ (pc[r] = "body" /\ aborted[r] = None)
=============================================================================
