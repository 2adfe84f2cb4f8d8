---------------------------- MODULE HttpRequests ----------------------------
(***************************************************************************)
(* What packages/web/http/mod.ts makes of one call before and after the    *)
(* loop of HttpClient: the URL, the headers, the body, the delay of a retry,*)
(* the reading of an answer, the redaction of what is reported, and the     *)
(* mock fetch the tests run it on.  A name is [word, rest]: a word the      *)
(* redaction looks for, or another one, and what stands around it.          *)
(***************************************************************************)
EXTENDS Integers, SequencesExt, FiniteSetsExt

Unset == -1                \* an option or header that is not there
Null == "null"
Redacted == "[REDACTED]"
NoUrl == [origin |-> "none"]

-----------------------------------------------------------------------------
(* A URL is [origin, user, segments, slash, query], slash saying whether the *)
(* path ends with one.  ensureBaseUrl, and what new URL(path, base) does.   *)
EnsureBaseUrl(base) == [base EXCEPT !.slash = TRUE]

Resolve(path, base) ==
  CASE path.kind = "full"   -> path.url
    [] path.kind = "rooted" -> [base EXCEPT !.segments = path.segments, !.slash = FALSE,
                                            !.query = <<>>]
    [] path.kind = "relative" ->
         [base EXCEPT !.segments = (IF base.slash THEN @ ELSE Front(@)) \o path.segments,
                      !.slash = FALSE, !.query = <<>>]

(* appendQueryValue: one pair for each value that is there.                 *)
AppendQueryValue(query, key, values) ==
  query \o [i \in DOMAIN SelectSeq(values, LAMBDA v : v # Null) |->
              <<key, SelectSeq(values, LAMBDA v : v # Null)[i]>>]

(* buildUrl; HTTP_INVALID_URL is NoUrl.                                     *)
BuildUrl(base, path, query) ==
  IF base = NoUrl /\ path.kind # "full" THEN NoUrl
  ELSE LET url == Resolve(path, IF base = NoUrl THEN base ELSE EnsureBaseUrl(base)) IN
         [url EXCEPT !.query =
            FoldLeft(LAMBDA q, entry : AppendQueryValue(q, entry.key, entry.values), @, query)]

-----------------------------------------------------------------------------
(* mergeHeaders: functions of lower-case names, a later one winning.        *)
MergeHeaders(first, second) ==
  [n \in DOMAIN first \cup DOMAIN second |->
     IF n \in DOMAIN second THEN second[n] ELSE first[n]]

Defaulting(headers, name, value) == MergeHeaders([n \in {name} |-> value], headers)

(* prepareJsonOptions and prepareJsonMethodOptions: the JSON a call brings  *)
(* takes the place of one in its options.  stringify(undefined) is nothing. *)
PrepareJsonMethodOptions(method, json, options, hasJson) ==
  [options EXCEPT !.method = method, !.json = IF hasJson THEN <<json>> ELSE @]

PrepareJsonOptions(options) ==
  LET accepting == Defaulting(options.headers, "accept", "application/json") IN
    IF options.json = <<>>
    THEN [options EXCEPT !.headers = accepting]
    ELSE [options EXCEPT !.headers = Defaulting(accepting, "content-type", "application/json"),
                         !.body = options.json[1]]

MethodAllowsBody(method) == method \notin {"GET", "HEAD"}

(* createHttpClient's getJson, postJson and the rest, down to the fetch of  *)
(* executeRequest: what goes to the server.                                 *)
DefaultHeaders(client) ==
  IF client.userAgent = Null THEN client.headers
  ELSE MergeHeaders(client.headers, [n \in {"user-agent"} |-> client.userAgent])

Sent(client, path, options) ==
  [method  |-> options.method, url |-> BuildUrl(client.baseUrl, path, options.query),
   headers |-> MergeHeaders(DefaultHeaders(client), options.headers),
   body    |-> IF MethodAllowsBody(options.method) THEN options.body ELSE Null]

SentJson(client, verb, path, json, hasJson, options) ==
  Sent(client, path, PrepareJsonOptions(
    PrepareJsonMethodOptions(verb, json, options, hasJson /\ verb \in {"POST", "PUT", "PATCH"})))

(* createMockFetch: the first route of the method and path answers.         *)
MockFetch(routes, request) ==
  LET matching == SelectSeq(routes, LAMBDA r :
        r.method = request.method /\ r.segments = request.url.segments)
  IN  IF matching = <<>> THEN [status |-> 404, body |-> "Not found"] ELSE Head(matching).answer

-----------------------------------------------------------------------------
(* normalizeRetryOptions, computeRetryDelay and parseRetryAfter, with random *)
(* in halves; the real defaults are 100 and 2000 ms.                        *)
AtLeast0(n) == IF n < 0 THEN 0 ELSE n
Least(a, b) == IF a < b THEN a ELSE b
NormalizeRetryOptions(o) ==
  [attempts     |-> IF o.attempts = Unset THEN 0 ELSE AtLeast0(o.attempts),
   backoffMs    |-> IF o.backoffMs = Unset THEN 2 ELSE o.backoffMs,
   maxBackoffMs |-> IF o.maxBackoffMs = Unset THEN 8 ELSE o.maxBackoffMs,
   jitter       |-> o.jitter, respectRetryAfter |-> o.respectRetryAfter]

ParseRetryAfter(header, now) ==
  CASE header.kind = "seconds" -> header.value
    [] header.kind = "date"    -> AtLeast0(header.value - now)
    [] OTHER -> Unset

ComputeRetryDelay(attempt, o, retryAfterMs, random) ==
  LET capped == Least(o.backoffMs * 2 ^ AtLeast0(attempt - 1), o.maxBackoffMs) IN
    IF retryAfterMs # Unset THEN Least(AtLeast0(retryAfterMs), o.maxBackoffMs)
    ELSE IF o.jitter THEN (capped * random + 1) \div 2
    ELSE capped

-----------------------------------------------------------------------------
(* readResponseText, of an answer that comes in chunks, with the length it  *)
(* declares: what was kept of it, and whether it was too large.  A missing  *)
(* Content-Length counts as 0.                                              *)
Sum0(sizes) == FoldLeft(LAMBDA a, b : a + b, 0, sizes)

Mut_ReadKeepsLastChunk(answer, maxBytes) ==
  LET ends(n) == Sum0(SubSeq(answer.chunks, 1, n - 1)) > maxBytes IN
    IF \E n \in DOMAIN answer.chunks : ends(n)
    THEN [tooLarge |-> TRUE, kept |-> maxBytes]
    ELSE [tooLarge |-> FALSE, kept |-> Sum0(answer.chunks)]

ReadResponseText(answer, maxBytes) ==
  LET sizes == answer.chunks
      over(n) == Sum0(SubSeq(sizes, 1, n)) > maxBytes
  IN  CASE maxBytes = Unset -> [tooLarge |-> FALSE, kept |-> Sum0(sizes)]
        [] maxBytes # Unset /\ answer.declared > maxBytes -> [tooLarge |-> TRUE, kept |-> 0]
        [] maxBytes # Unset /\ answer.declared <= maxBytes ->
             IF \E n \in DOMAIN sizes : over(n)
             THEN [tooLarge |-> TRUE,
                   kept |-> Sum0(SubSeq(sizes, 1, Min({n \in DOMAIN sizes : over(n)}) - 1))]
             ELSE [tooLarge |-> FALSE, kept |-> Sum0(sizes)]

(* parseJsonResponse, safeParseJsonResponse and createResponseError.        *)
ParseJsonResponse(answer, maxBytes) ==
  LET text == ReadResponseText(answer, maxBytes) IN
    CASE text.tooLarge -> "HTTP_RESPONSE_TOO_LARGE"
      [] ~text.tooLarge /\ answer.breaks -> "HTTP_PARSE_ERROR"
      [] ~text.tooLarge /\ ~answer.breaks /\ text.kept = 0 -> "undefined"
      [] OTHER -> IF answer.json THEN "value" ELSE "HTTP_PARSE_ERROR"

SafeParseJsonResponse(answer, maxBytes) ==
  IF ParseJsonResponse(answer, maxBytes) = "value" THEN "value" ELSE "undefined"

CreateResponseError(answer, maxBytes) ==
  [code |-> "HTTP_RESPONSE_ERROR", status |-> answer.status,
   expose |-> answer.status \in 400 .. 499,
   body |-> SafeParseJsonResponse(answer, maxBytes)]

-----------------------------------------------------------------------------
(* isSensitiveName: a credential header, or a name that holds such a part.  *)
CredentialHeaders == {"authorization", "cookie", "set-cookie", "x-api-key",
                      "proxy-authorization"}
SensitiveParts == {"authorization", "cookie", "token", "secret", "password",
                   "private_key", "api_key", "apikey"}
IsSensitiveName(name) ==
  \/ name.rest = "" /\ name.word \in CredentialHeaders
  \/ name.word \in SensitiveParts

(* safeUrlString: of the pairs of a sensitive name, one is left, at the end. *)
SafeUrlString(url) ==
  LET redactOne(q, key) ==
        IF IsSensitiveName(key)
        THEN Append(SelectSeq(q, LAMBDA p : p[1] # key), <<key, Redacted>>) ELSE q
  IN  [url EXCEPT !.user = IF @ = "" THEN @ ELSE Redacted,
                  !.query = FoldLeft(LAMBDA q, p : redactOne(q, p[1]), @, @)]

CacheKey(method, url) == <<method, SafeUrlString(url)>>

(* sanitizeJsonValue.  A value is [kind, of]: a leaf, or an object or array *)
(* of the heap; an object on the way down to itself is cut, an array is not. *)
RECURSIVE SanitizeJsonValue(_, _, _)
SanitizeJsonValue(heap, value, seen) ==
  LET fields == heap[value.of]
      inner(n) == SanitizeJsonValue(heap, fields[n],
                    IF value.kind = "object" THEN seen \cup {value.of} ELSE seen)
  IN  CASE value.kind = "leaf" -> value
        [] value.kind = "array" ->
             [kind |-> "array", of |-> [i \in DOMAIN fields |-> inner(i)]]
        [] value.kind = "object" ->
             IF value.of \in seen THEN [kind |-> "leaf", of |-> "[Circular]"]
             ELSE [kind |-> "object",
                   of |-> [n \in DOMAIN fields |->
                             IF IsSensitiveName(n) THEN [kind |-> "leaf", of |-> Redacted]
                             ELSE inner(n)]]

-----------------------------------------------------------------------------
(* A JSON call arrives as it was made: under the base URL, with its own     *)
(* headers over the client's, its query in order, and its JSON where the    *)
(* method takes a body; the mock server's route for it answers.             *)
JsonCallArrives(client, verb, path, json, options) ==
  \A request \in {SentJson(client, verb, path, json, TRUE, options)} :
  LET writes  == verb \in {"POST", "PUT", "PATCH"}
      route   == [method |-> verb, segments |-> request.url.segments,
                  answer |-> [status |-> 200, body |-> "mine"]]
      other   == [route EXCEPT !.method = "OPTIONS", !.answer.body = "other"]
  IN  request.url # NoUrl =>
        /\ \A n \in DOMAIN options.headers : request.headers[n] = options.headers[n]
        /\ \A n \in DOMAIN client.headers \ (DOMAIN options.headers \cup {"user-agent"}) :
             request.headers[n] = client.headers[n] \/ n \in {"accept", "content-type"}
        /\ request.headers["accept"] # Null
        /\ writes => request.body = json /\ "content-type" \in DOMAIN request.headers
        /\ verb = "GET" => request.body = Null
        /\ path.kind = "relative" => IsPrefix(client.baseUrl.segments, request.url.segments)
        /\ path.kind # "full" => request.url.origin = client.baseUrl.origin
        /\ MockFetch(<<other, route>>, request).body = "mine"
        /\ MockFetch(<<other>>, request).status = 404

(* Every delay is within [0, maxBackoffMs], and is what Retry-After asks if *)
(* that is allowed and within the limit.                                    *)
RetryDelayWithinMax(attempt, options, header, now, random) ==
  LET o     == NormalizeRetryOptions(options)
      asked == IF o.respectRetryAfter THEN ParseRetryAfter(header, now) ELSE Unset
      delay == ComputeRetryDelay(attempt, o, asked, random)
  IN  /\ delay \in 0 .. o.maxBackoffMs
      /\ asked \in 0 .. o.maxBackoffMs => delay = asked

(* A limited body is refused exactly when it is longer than the limit, or   *)
(* says it is; no more than the limit is ever kept, however it is cut; and  *)
(* an error of the body never hides the status of the answer.               *)
BodyWithinLimit(answer, maxBytes) ==
  LET text == ReadResponseText(answer, maxBytes)
      over == Sum0(answer.chunks) > maxBytes \/ answer.declared > maxBytes
  IN  /\ maxBytes # Unset => text.kept <= maxBytes /\ (text.tooLarge <=> over)
      /\ ~text.tooLarge => text.kept = Sum0(answer.chunks)
      /\ text.tooLarge <=> ParseJsonResponse(answer, maxBytes) = "HTTP_RESPONSE_TOO_LARGE"
      /\ CreateResponseError(answer, maxBytes).status = answer.status

(* What is reported of a URL holds no user and no value of a sensitive name, *)
(* and all the rest; and two requests whose other parameters differ have    *)
(* different keys in the response cache.                                    *)
Plain(query) == SelectSeq(query, LAMBDA p : ~IsSensitiveName(p[1]))
UrlReportedSafely(url, other) ==
  LET safe == SafeUrlString(url) IN
    /\ safe.user \in {"", Redacted}
    /\ \A i \in DOMAIN safe.query : IsSensitiveName(safe.query[i][1]) => safe.query[i][2] = Redacted
    /\ Plain(safe.query) = Plain(url.query)
    /\ {safe.query[i][1] : i \in DOMAIN safe.query} = {url.query[i][1] : i \in DOMAIN url.query}
    /\ Plain(url.query) # Plain(other.query) => CacheKey("GET", url) # CacheKey("GET", other)

(* In what is reported of a JSON value every field below a sensitive name is *)
(* gone, and an object that is merely met twice is reported twice.          *)
JsonReportedSafely(heap, root, shared) ==
  LET report == SanitizeJsonValue(heap, root, {}) IN
    \A n \in DOMAIN report.of :
      IF IsSensitiveName(n) THEN report.of[n].of = Redacted
      ELSE heap[root.of][n] = shared =>
             report.of[n] = SanitizeJsonValue(heap, shared, {root.of})
=============================================================================
