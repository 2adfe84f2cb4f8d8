------------------------------ MODULE WebCases ------------------------------
(* The inputs on which HttpRequests, LogRecords, EnvValues and ErrorValues  *)
(* are checked.                                                             *)
EXTENDS Integers, Sequences, TLC

HR == INSTANCE HttpRequests
LR == INSTANCE LogRecords
EV == INSTANCE EnvValues
ER == INSTANCE ErrorValues

WebTopics == {"json call", "retry delay", "answer", "url", "json", "record", "request log",
              "lines", "env", "env presets", "env files", "errors"}

-----------------------------------------------------------------------------
Name(word, rest) == [word |-> word, rest |-> rest]
Base == [origin |-> "api", user |-> "u", segments |-> <<"v1", "x">>, slash |-> FALSE,
         query |-> <<<<Name("page", ""), "1">>>>]
Paths == {[kind |-> "rooted", segments |-> <<"users">>], [kind |-> "relative", segments |-> <<"users">>],
          [kind |-> "full", url |-> [Base EXCEPT !.origin = "other"]]}
HeaderSets == {<<>>, ("accept" :> "text"), ("user-agent" :> "me") @@ ("content-type" :> "x")}
Clients == [baseUrl: {Base, HR!NoUrl}, headers: HeaderSets, userAgent: {HR!Null, "ua"}]
Queries == {<<>>, <<[key |-> Name("token", "access_"), values |-> <<"a", HR!Null, "b">>],
                    [key |-> Name("page", ""), values |-> <<"2">>]>>}
CallOptions == [method: {"GET"}, headers: HeaderSets, query: Queries, body: {HR!Null},
                json: {<<>>, <<"j0">>}]
RetryOptions == [attempts: {-1, 3}, backoffMs: {-1, 0, 3}, maxBackoffMs: {-1, 4, 0},
                 jitter: BOOLEAN, respectRetryAfter: BOOLEAN]
RetryAfters == [kind: {"seconds", "date", "none"}, value: {0, 3, 20}]
Answers == [chunks: {<<>>, <<2>>, <<1, 2>>, <<3, 1, 1>>}, declared: {0, 2, 9}, breaks: BOOLEAN,
            json: BOOLEAN, status: {404, 500}]

Params ==
  {<<>>} \cup {<<<<k, v>>, <<l, w>>>> : k \in {Name("token", "x"), Name("page", "")}, v \in {"1", "2"},
                 l \in {Name("token", "x"), Name("x-api-key", "2"), Name("page", "")}, w \in {"1", "2"}}
Urls == [origin: {"api"}, user: {"", "bob"}, segments: {<<"a">>}, slash: {FALSE}, query: Params]

Value(v) == [kind |-> "leaf", of |-> v]
Object(i) == [kind |-> "object", of |-> i]
JsonHeap ==
  [r |-> (Name("a", "") :> Object("s")) @@ (Name("b", "") :> Object("s"))
           @@ (Name("token", "") :> Value("t")) @@ (Name("l", "") :> [kind |-> "array", of |-> "arr"]),
   s |-> (Name("cookie", "my") :> Value("c")) @@ (Name("up", "") :> Object("r")),
   arr |-> <<Object("s"), Value("1")>>]

-----------------------------------------------------------------------------
Text(t) == LR!Text(t)
Leaf(kind, of) == LR!Leaf(kind, of)
LogHeap ==
  [o1 |-> [a |-> Text("1"), token |-> Text("s"), deep |-> Leaf("object", "o2"),
           level |-> Text("spoof"), f |-> Leaf("function", "f"), n |-> Leaf("nan", "")],
   o2 |-> [token |-> Leaf("bigint", "7"), back |-> Leaf("object", "o1"), list |-> Leaf("array", "a1")],
   o3 |-> [loop |-> Leaf("array", "a2"), e |-> Leaf("error", "e1")],
   o0 |-> <<>>,
   base |-> [service |-> Text("api"), token |-> Text("b")],
   a1 |-> <<Leaf("date", "d"), Leaf("undefined", ""), Leaf("object", "o2")>>,
   a2 |-> <<Leaf("array", "a2")>>,
   e1 |-> [name |-> "E", message |-> "boom", rootware |-> TRUE, code |-> "X",
           details |-> Leaf("object", "o2"), cause |-> Leaf("error", "e2")],
   e2 |-> [name |-> "E", message |-> "inner", rootware |-> FALSE, code |-> "",
           details |-> LR!Missing, cause |-> Leaf("error", "e1")]]
LoggerOptions ==
  [level: {"unset", "warn", "silent"}, name: {"unset", "api"}, bindings: {Leaf("object", "o1")},
   base: {Leaf("object", "base"), Leaf("object", "o0")}, enabled: {TRUE},
   redact: {<<>>, <<<<"token">>, <<"*", "token">>>>,
            <<<<"deep", "", "list", "*">>, <<"*", "*", "code">>>>}]
Arguments ==
  {<<>>, <<Text("hi")>>, <<Leaf("object", "o1"), Text("hi"), Leaf("error", "e1")>>,
   <<Leaf("object", "o3"), Leaf("object", "o1"), Text("a"), Text("b")>>,
   <<Leaf("error", "e2"), Leaf("error", "e1")>>}
Calls == [options: LoggerOptions, args: Arguments, level: {"info", "error"}]
Kid == [level |-> "unset", name |-> "kid"]

HttpLoggers == [level: {"info", "silent"}, logHeaders: {{}, {"accept"}}, setResponseHeader: BOOLEAN]
LoggedRequests == [path: {"p"}, headers: {<<>>, [authorization |-> "z", accept |-> "j"],
                                          ("x-request-id" :> "q")}]
Outputs == {<<>>, <<"a", "\n">>, <<"a", "\n", "b">>, <<"\n", "\n">>, <<"b">>}

-----------------------------------------------------------------------------
Key1 == EV!Key("A_", "TOKEN")
Key2 == EV!Key("PORT", "")
Def(type) == EV!CreateDefinition(type, {"a", "8"})
Definitions ==
  {EV!Optional(Def("secret")), EV!Default(Def("secret"), "dev"), Def("string"),
   EV!Default(Def("integer"), "8"), EV!Optional(Def("boolean")),
   EV!Required(EV!Default(Def("enum"), "a")), Def("url"), EV!Secret(Def("number"))}
  \cup {EV!Default(Def("string"), text) : text \in {"8", "", " ", " 8 ", "'a'", "\"a\"", "a\nb"}}
  \cup {EV!Default(Def("url"), text) : text \in {"http://a", "http://a/"}}
Schemas == [{Key1, Key2} -> Definitions]
Sources ==
  {<<>>, (EV!Key("P_A_", "TOKEN") :> "8") @@ (EV!Key("P_PORT", "SECRET") :> "8")}
  \cup {(Key1 :> v) @@ (Key2 :> w) : v \in {"8", " ", "true"}, w \in {"8", "http://a", "x"}}
EnvOptions ==
  [mode: {EV!Unset, "test", "production"}, allowEmpty: BOOLEAN,
   prefix: {EV!NoPrefix, EV!Key("P_", ""), EV!Key("P_", "SECRET")}]
Filled(schema) ==
  [k \in DOMAIN schema |-> CASE schema[k].type = "url" -> "http://a"
                             [] schema[k].type = "boolean" -> "1"
                             [] OTHER -> "8"]
Lines(v) ==
  <<[kind |-> "assign", key |-> Key1, quote |-> "none", inner |-> v],
    [kind |-> "comment", key |-> Key1, quote |-> "none", inner |-> ""],
    [kind |-> "export", key |-> Key2, quote |-> "double", inner |-> "a\\nb"]>>
EnvFiles ==
  {[f \in names |-> IF f = <<"local">> THEN Tail(Lines("1"))
                    ELSE Lines(IF f = <<>> THEN "2" ELSE f[Len(f)])] :
     names \in SUBSET {<<>>, <<"test">>, <<"local">>, <<"dev">>, <<"dev", "local">>, <<"test", "local">>}}

Ref(kind, i) == [kind |-> kind, of |-> i]
Causes == {ER!Undefined, Ref("rootware", "a"), Ref("rootware", "b"), Ref("error", "c"),
           Ref("text", "oops"), Ref("other", "7")}
Details == {ER!NoDetails, [Token |-> "s", id |-> "1"]}
ErrorHeaps ==
  [a: [message: {"ma"}, name: {"A"}, code: {"C"}, expose: BOOLEAN, details: Details, cause: Causes],
   b: [message: {"mb"}, name: {"B"}, code: {"C"}, expose: BOOLEAN, details: {ER!NoDetails}, cause: Causes],
   c: [message: {"", "mc"}, name: {"E"}, cause: Causes]]
Redactors == {<<>>, <<{"token"}>>, <<{"id"}, {"Token"}>>, <<{"id"}, ER!Throws>>}

WebInputsOf(topic) ==
  CASE topic = "json call" -> [client: Clients, verb: {"GET", "POST", "DELETE"}, path: Paths,
                               options: CallOptions]
    [] topic = "retry delay" -> RetryOptions
    [] topic = "answer" -> Answers
    [] topic = "url" -> Urls
    [] topic = "json" -> {JsonHeap}
    [] topic = "record" -> Calls
    [] topic = "request log" -> HttpLoggers
    [] topic = "lines" -> Outputs
    [] topic = "env" -> Schemas
    [] topic = "env presets" -> {EV!Presets}
    [] topic = "env files" -> EnvFiles
    [] topic = "errors" -> ErrorHeaps

-----------------------------------------------------------------------------
(* What is sent, logged, documented or rethrown is what was given.          *)
WebLosesNothing(topic, input) ==
  CASE topic = "json call" ->
         HR!JsonCallArrives(input.client, input.verb, input.path, "j1", input.options)
    [] topic = "record" ->
         /\ \A b \in {"o1", "o3"} : LR!RecordsTellTheTruth(LogHeap, input.options, Leaf("object", b),
                                                           Kid, input.level, input.args)
         /\ \A s \in {{}, {"err"}, {"a"}} :
              LR!PinoSaysTheSame(LogHeap, input.options, s, input.level, input.args)
    [] topic = "request log" -> \A r \in LoggedRequests, status \in {0, 200, 404, 503} :
                                  LR!RequestsLoggedOnce(input, r, status)
    [] topic = "lines" -> \A other \in Outputs, min \in {"info", "error"}, level \in DOMAIN LR!Levels :
                            LR!LinesComeBack(input, other, min, level)
    [] topic \in {"env", "env presets"} -> EV!ExampleIsAccepted(input, Filled(input))
    [] topic = "errors" ->
         \A v \in Causes : ER!ErrorsKeepWhatTheyAre(input, v, [ER!NoOptions EXCEPT !.expose = TRUE], "m")
    [] OTHER -> TRUE

(* Retry delays and bodies stay within what they are allowed.               *)
WebKeepsLimits(topic, input) ==
  CASE topic = "retry delay" ->
         \A attempt \in 1..4, header \in RetryAfters, random \in 0..1 :
           HR!RetryDelayWithinMax(attempt, input, header, 2, random)
    [] topic = "answer" -> \A max \in {-1, 0, 2, 3, 4} : HR!BodyWithinLimit(input, max)
    [] OTHER -> TRUE

(* Reports, records, examples and serialised errors hold no secret, and     *)
(* local files stay out of tests.                                           *)
WebKeepsSecrets(topic, input) ==
  CASE topic = "url" -> \A other \in Urls : HR!UrlReportedSafely(input, other)
    [] topic = "json" -> HR!JsonReportedSafely(input, Object("r"), Object("s"))
    [] topic = "record" -> \A b \in {"o1", "o3"} :
         LR!RedactedExactly(LogHeap, input.options, Leaf("object", b), input.level, input.args)
    [] topic = "env" -> \A explicit \in BOOLEAN, source \in Sources, o \in EnvOptions :
                          EV!SecretsAreExplicit(input, explicit, source, o)
    [] topic = "env files" ->
         \A mode \in {EV!Unset, "test", "dev"} : EV!LocalFilesStayOut(input, mode)
    [] topic = "errors" -> \A v \in Causes \ {ER!Undefined}, rs \in Redactors, depth \in {0, 1, 3} :
                             ER!HiddenErrorsStayHidden(input, v, rs, depth)
    [] OTHER -> TRUE
=============================================================================
