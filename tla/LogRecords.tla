----------------------------- MODULE LogRecords -----------------------------
(***************************************************************************)
(* What a call of a logger becomes (packages/foundation/log/mod.ts, its     *)
(* compat/pino and http entry points): the level check, the merge of base,  *)
(* bindings and arguments, sanitizing, redaction, and the line splitting    *)
(* and level filter of two sinks.  A value is [kind, of]: a leaf, or an     *)
(* object, array or error of the heap; what becomes of it is a tree of      *)
(* [kind, of] without heap, where only "text", "number" and "null" are left.*)
(***************************************************************************)
EXTENDS Integers, SequencesExt, FiniteSetsExt, TLC

Leaf(kind, v) == [kind |-> kind, of |-> v]
Text(v)    == Leaf("text", v)
JsonNull   == Leaf("null", "null")
Missing    == Leaf("undefined", "")
TooDeep    == Leaf("overflow", "")     \* the call stack of an array in itself
Object(of) == [kind |-> "object", of |-> of]
NoFields   == <<>>                     \* the function without a field
Unset      == "unset"

Levels == [trace |-> 10, debug |-> 20, info |-> 30, warn |-> 40, error |-> 50, fatal |-> 60,
           silent |-> 100]
GetLogLevelNumber(level) == Levels[level]

(* shouldLog *)
ShouldLog(current, message) ==
  /\ "silent" \notin {current, message}
  /\ GetLogLevelNumber(message) >= GetLogLevelNumber(current)

-----------------------------------------------------------------------------
(* sanitizeObject and sanitizeLogValue: an object on the way down to itself *)
(* is cut; an array that holds itself, with no object in between, is not.   *)
RECURSIVE SanitizeLogValue(_, _, _, _), SerializeErrorValue(_, _, _)

Fields(tree) == {k \in DOMAIN tree : tree[k] # Missing}

SanitizeObject(heap, id, seen) ==
  IF id \in seen THEN Object("circular" :> Text("[Circular]"))
  ELSE LET inner == [k \in DOMAIN heap[id] |->
                       SanitizeLogValue(heap, heap[id][k], seen \cup {id}, {})]
       IN  IF \E k \in DOMAIN inner : inner[k] = TooDeep THEN TooDeep
           ELSE Object([k \in Fields(inner) |-> inner[k]])

SanitizeLogValue(heap, v, seen, arrays) ==
  CASE v.kind \in {"undefined", "function"} -> Missing
    [] v.kind \in {"text", "number", "null"} -> v
    [] v.kind = "nan" -> JsonNull
    [] v.kind \in {"bigint", "date"} -> Text(v.of)
    [] v.kind = "error" -> SerializeErrorValue(heap, v, {})
    [] v.kind = "object" -> SanitizeObject(heap, v.of, seen)
    [] v.kind = "array" ->
         LET inner == [i \in DOMAIN heap[v.of] |->
                         SanitizeLogValue(heap, heap[v.of][i], seen, arrays \cup {v.of})]
         IN  IF v.of \in arrays \/ \E i \in DOMAIN inner : inner[i] = TooDeep THEN TooDeep
             ELSE [kind |-> "array",
                   of |-> [i \in DOMAIN inner |->
                             IF inner[i] = Missing THEN JsonNull ELSE inner[i]]]

(* toLogObject: what cannot be sanitized is left out as a whole.            *)
ToLogObject(heap, v) ==
  LET tree == SanitizeLogValue(heap, v, {}, {}) IN IF tree = TooDeep THEN NoFields ELSE tree.of

(* serializeErrorValue: the whole chain of causes, cut where it closes.     *)
SerializeErrorValue(heap, v, seen) ==
  LET plain(message) == Object(("name" :> Text("Error")) @@ ("message" :> message))
      e == heap[v.of]
      all == [name    |-> Text(e.name), message |-> Text(e.message),
              details |-> IF e.rootware /\ e.details # Missing
                          THEN Object(ToLogObject(heap, e.details)) ELSE Missing,
              code    |-> IF e.rootware THEN Text(e.code) ELSE Missing,
              cause   |-> IF e.cause = Missing THEN Missing
                          ELSE SerializeErrorValue(heap, e.cause, seen \cup {v.of})]
  IN  CASE v.kind = "text" -> plain(v)
        [] v.kind = "error" -> IF v.of \in seen THEN plain(Text("Circular error cause"))
                               ELSE Object([k \in Fields(all) |-> all[k]])
        [] OTHER -> plain(Text("Unknown error"))

SerializeErrorForLog(heap, error) == SerializeErrorValue(heap, error, {})

-----------------------------------------------------------------------------
(* compileRedaction, redactPath and applyRedaction: a path is a sequence of *)
(* keys, "*" standing for any.                                              *)
CompileRedaction(paths) ==
  SelectSeq([i \in DOMAIN paths |-> SelectSeq(paths[i], LAMBDA s : s # "")],
            LAMBDA p : p # <<>>)

RECURSIVE RedactPath(_, _)

RedactPath(node, path) ==
  LET hit(k) == Head(path) = "*" \/ (node.kind = "object" /\ Head(path) = k) IN
    IF node.kind \notin {"object", "array"} THEN node
    ELSE [node EXCEPT !.of =
           [k \in DOMAIN @ |->
              IF ~hit(k) THEN @[k]
              ELSE IF Len(path) = 1 THEN Text("[Redacted]")
              ELSE RedactPath(@[k], Tail(path))]]

ApplyRedaction(tree, redaction) ==
  FoldLeft(LAMBDA t, path : RedactPath(t, path), tree, redaction)

-----------------------------------------------------------------------------
(* normalizeLogInput: the first error, the first plain object and the first *)
(* string among the arguments.                                              *)
FirstOf(kind, args) ==
  LET i == SelectInSeq(args, LAMBDA a : a.kind = kind) IN IF i = 0 THEN Missing ELSE args[i]

NormalizeLogInput(heap, args) ==
  LET object == FirstOf("object", args)
      error  == FirstOf("error", args)
  IN  [object  |-> IF object = Missing THEN NoFields ELSE ToLogObject(heap, object),
       message |-> FirstOf("text", args),
       error   |-> IF error = Missing THEN Missing ELSE SerializeErrorForLog(heap, error)]

(* The RootwareLogger's constructor and child().  Bindings and base are     *)
(* sanitized when they come in.                                             *)
Logger(heap, o) ==
  [level |-> IF o.level = Unset THEN "info" ELSE o.level, name |-> o.name,
   base |-> ToLogObject(heap, o.base), bindings |-> ToLogObject(heap, o.bindings),
   enabled |-> o.enabled, messageKey |-> "msg", errorKey |-> "error", redact |-> o.redact]

Child(heap, logger, bindings, o) ==
  [logger EXCEPT !.level = IF o.level = Unset THEN @ ELSE o.level,
                 !.name  = IF o.name = Unset THEN @ ELSE o.name,
                 !.bindings = ToLogObject(heap, bindings) @@ @]

IsLevelEnabled(logger, level) == logger.enabled /\ ShouldLog(logger.level, level)

(* #log: the record that goes to the sink; Missing if none does.            *)
Assemble(logger, level, input) ==
  LET given == [level |-> Leaf("number", GetLogLevelNumber(level)), levelName |-> Text(level),
                name |-> IF logger.name = Unset THEN Missing ELSE Text(logger.name)]
      said  == (logger.errorKey :> input.error) @@ (logger.messageKey :> input.message)
      fixed == [k \in Fields(said) |-> said[k]] @@ [k \in Fields(given) |-> given[k]]
  IN  ApplyRedaction(Object(fixed @@ input.object @@ logger.bindings @@ logger.base),
                     CompileRedaction(logger.redact))

Record(heap, logger, level, args) ==
  IF IsLevelEnabled(logger, level) THEN Assemble(logger, level, NormalizeLogInput(heap, args))
  ELSE Missing

-----------------------------------------------------------------------------
(* compat/pino: field serializers on the merge object, the error under      *)
(* errorKey, and the rest to the core logger.  serializers are the keys     *)
(* that have one.                                                           *)
PinoErrorKey == "err"
SerializeError(heap, serializers, error) ==
  IF serializers \cap {PinoErrorKey, "err", "error"} # {} THEN Text("serialized")
  ELSE SerializeErrorForLog(heap, error)

PinoRecord(heap, logger, serializers, level, args) ==
  LET merge   == FirstOf("object", args)
      error   == FirstOf("error", args)
      raw     == IF merge = Missing THEN NoFields ELSE heap[merge.of]
      object  == (IF error = Missing THEN NoFields
                  ELSE PinoErrorKey :> SerializeError(heap, serializers, error))
                 @@ [k \in DOMAIN raw |->
                       IF k \in serializers THEN Text("serialized")
                       ELSE SanitizeLogValue(heap, raw[k], {}, {})]
  IN  IF IsLevelEnabled(logger, level)
      THEN Assemble(logger, level,
             [object  |-> IF \E k \in DOMAIN object : object[k] = TooDeep THEN NoFields
                          ELSE [k \in Fields(object) |-> object[k]],
              message |-> FirstOf("text", args), error |-> Missing])
      ELSE Missing

-----------------------------------------------------------------------------
(* http: withRequestLogging, of a handler that answers with a status or     *)
(* throws (status 0).                                                       *)
LevelForStatus(status, base) ==
  IF status >= 500 THEN "error" ELSE IF status >= 400 THEN "warn" ELSE base

PickHeaders(headers, names) == [n \in DOMAIN headers \cap names |-> headers[n]]

WithRequestLogging(o, request, status) ==
  LET id == IF "x-request-id" \in DOMAIN request.headers
            THEN request.headers["x-request-id"] ELSE "generated"
      about(level, event, fields) ==
        [level |-> level, event |-> event, requestId |-> id, path |-> request.path,
         fields |-> fields]
      records ==
        <<about("debug", "received", PickHeaders(request.headers, o.logHeaders)),
          IF status = 0 THEN about("error", "failed", NoFields)
          ELSE about(LevelForStatus(status, o.level), "completed", NoFields)>>
  IN  [records |-> SelectSeq(records, LAMBDA r : r.level # "silent"),
       thrown |-> status = 0, status |-> status,
       header |-> IF status # 0 /\ o.setResponseHeader THEN id ELSE Unset]

-----------------------------------------------------------------------------
(* appendLines of the memory sink, over the characters that matter, and the *)
(* level filter: several lines in one write are no JSON, and pass.          *)
AppendLines(buffer, text) ==
  LET ends == ({i \in DOMAIN text : text[i] = "\n"} \cup {Len(text)}) \ {0}
      sorted == SetToSortSeq(ends, <)
      line(n) == SubSeq(text, IF n = 1 THEN 1 ELSE sorted[n - 1] + 1, sorted[n])
  IN  buffer \o [n \in DOMAIN sorted |-> line(n)]

LevelSinkTakes(min, batch) ==
  IF Len(batch) = 1 THEN GetLogLevelNumber(batch[1]) >= GetLogLevelNumber(min) ELSE TRUE

-----------------------------------------------------------------------------
RECURSIVE LeavesOf(_), JsonSafe(_)
LeavesOf(tree) ==
  IF tree.kind \notin {"object", "array"} THEN {<<>>}
  ELSE UNION {{<<k>> \o a : a \in LeavesOf(tree.of[k])} : k \in DOMAIN tree.of}
JsonSafe(tree) ==
  IF tree.kind \in {"object", "array"} THEN \A k \in DOMAIN tree.of : JsonSafe(tree.of[k])
  ELSE tree.kind \in {"text", "number", "null"}

At(tree, address) == FoldLeft(LAMBDA t, k : t.of[k], tree, address)

(* Whatever is logged, through a child of any logger: a record is written   *)
(* exactly when its level is at or above the child's; nothing but JSON is   *)
(* left in it, which is what lets #log skip a second sanitizing; and no     *)
(* binding and no field of the call changes its level, its name, or its     *)
(* message.                                                                 *)
RecordsTellTheTruth(heap, o, bindings, childOptions, level, args) ==
  \A child \in {Child(heap, Logger(heap, o), bindings, childOptions)} :
  \A record \in {Record(heap, [child EXCEPT !.redact = <<>>], level, args)} :
    LET said == FirstOf("text", args) IN
      /\ record = Missing <=> ~child.enabled \/ ~ShouldLog(child.level, level)
      /\ child.level = "silent" => record = Missing
      /\ record # Missing =>
           /\ Levels[level] >= Levels[child.level]
           /\ JsonSafe(record)
           /\ record.of["levelName"] = Text(level)
           /\ child.name # Unset => record.of["name"] = Text(child.name)
           /\ said # Missing => record.of["msg"] = said
           /\ \A k \in DOMAIN child.base \cup DOMAIN child.bindings : k \in DOMAIN record.of

(* A value is censored exactly when a path of the redaction leads to it or  *)
(* to something around it, in a child as in its parent; nothing else of the *)
(* record changes.                                                          *)
RedactedExactly(heap, o, bindings, level, args) ==
  \A logger \in {Child(heap, Logger(heap, o), bindings, [level |-> Unset, name |-> Unset])} :
  \A plain \in {Record(heap, [logger EXCEPT !.redact = <<>>], level, args)},
     shown \in {Record(heap, logger, level, args)} :
  LET covers(path, a) ==
        /\ Len(path) <= Len(a)
        /\ \A i \in DOMAIN path :
             path[i] = "*" \/ (At(plain, SubSeq(a, 1, i - 1)).kind = "object" /\ path[i] = a[i])
      covering(a) == {p \in ToSet(CompileRedaction(o.redact)) : covers(p, a)}
  IN  plain # Missing =>
        \A a \in LeavesOf(plain) :
          IF covering(a) = {} THEN At(shown, a) = At(plain, a)
          ELSE At(shown, SubSeq(a, 1, Min({Len(p) : p \in covering(a)}))) = Text("[Redacted]")

(* The Pino-shaped logger writes what the core logger would, and an error   *)
(* argument under its own key, serialized once.                             *)
PinoSaysTheSame(heap, o, serializers, level, args) ==
  \A core \in {Record(heap, Logger(heap, o), level, args)},
     shaped \in {PinoRecord(heap, Logger(heap, o), serializers, level, args)} :
  LET error == FirstOf("error", args)
  IN  /\ shaped = Missing <=> core = Missing
      /\ shaped # Missing /\ error = Missing /\ serializers = {} => shaped = core
      /\ shaped # Missing /\ error # Missing =>
           \/ "err" \in serializers \/ "error" \in serializers
           \/ At(shaped, <<"err", "message">>) = Text(heap[error.of].message)

(* A request is logged when it comes and once when it ends, under one id,   *)
(* which the answer carries too; only headers that were asked for are       *)
(* written, and an error of the handler goes on to the caller.              *)
RequestsLoggedOnce(o, request, status) ==
  LET done == WithRequestLogging(o, request, status)
      ends == {r \in ToSet(done.records) : r.event # "received"}
  IN  /\ Cardinality(ends) = 1 \/ o.level = "silent"
      /\ \A r \in ToSet(done.records) :
           /\ DOMAIN r.fields \subseteq o.logHeaders
           /\ done.header \in {r.requestId, Unset}
           /\ r.event = "completed" /\ status >= 500 => r.level = "error"
      /\ done.thrown <=> status = 0

(* The memory sink gives back line by line what was written, whatever the   *)
(* batches, and the level filter lets a single line pass by its level.      *)
LinesComeBack(first, second, min, level) ==
  LET lines == AppendLines(AppendLines(<<>>, first), second)
      terminated(text) == text = <<>> \/ Last(text) = "\n"
  IN  /\ FlattenSeq(lines) = first \o second
      /\ terminated(first) => \A i \in 1 .. Len(lines) - 1 : Last(lines[i]) = "\n"
      /\ \A i \in DOMAIN lines : Cardinality({j \in DOMAIN lines[i] : lines[i][j] = "\n"}) <= 1
      /\ LevelSinkTakes(min, <<level>>) <=> ShouldLog(min, level) \/ level = "silent"
=============================================================================
