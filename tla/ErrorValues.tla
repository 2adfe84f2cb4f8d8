---------------------------- MODULE ErrorValues ----------------------------
(***************************************************************************)
(* packages/foundation/errors/mod.ts: what any thrown value becomes, what   *)
(* of it may be shown, and the chain of its causes.  A value is [kind, of]: *)
(* "rootware" and "error" are in the heap, "text" is a string, "other" any  *)
(* other value, and "undefined" no value.                                   *)
(***************************************************************************)
EXTENDS Integers, SequencesExt, FiniteSetsExt, TLC

Undefined == [kind |-> "undefined", of |-> ""]
Unset == "unset"
DefaultMessage == "An unexpected error occurred"
NoDetails == [missing |-> TRUE]
NoMore == [cut |-> "none"]

-----------------------------------------------------------------------------
(* The constructor, with what an option that is not there stands for.       *)
Or(value, default) == IF value = Unset THEN default ELSE value
NoOptions == [name |-> Unset, code |-> Unset, expose |-> FALSE, details |-> NoDetails,
              cause |-> Undefined]
NewError(message, o) ==
  [message |-> message, name |-> Or(o.name, "RootwareError"),
   code |-> Or(o.code, "ROOTWARE_UNKNOWN_ERROR"), expose |-> o.expose,
   details |-> o.details, cause |-> o.cause]

(* normalizeMessage, getErrorMessage and getErrorCause.                     *)
NormalizeMessage(message) == IF message \in {"", " "} THEN DefaultMessage ELSE message
GetErrorMessage(heap, value) ==
  CASE value.kind = "rootware" -> heap[value.of].message
    [] value.kind = "error"    -> NormalizeMessage(heap[value.of].message)
    [] value.kind = "text"     -> NormalizeMessage(value.of)
    [] OTHER -> DefaultMessage
GetErrorCause(heap, value) ==
  IF value.kind \in {"rootware", "error"} THEN heap[value.of].cause ELSE Undefined

(* toRootwareError, with its fallback options; RootwareError.from is it.    *)
ToRootwareError(heap, value, fallback) ==
  LET cause(first, second) == IF first = Undefined THEN second ELSE first IN
    CASE value.kind = "rootware" -> heap[value.of]
      [] value.kind = "error" ->
           NewError(GetErrorMessage(heap, value),
             [fallback EXCEPT !.name = Or(@, heap[value.of].name),
                              !.cause = cause(GetErrorCause(heap, value), @)])
      [] value.kind = "text" -> NewError(NormalizeMessage(value.of), fallback)
      [] OTHER -> NewError(DefaultMessage, [fallback EXCEPT !.cause = cause(@, value)])

(* copyWith, under withDetails, withCause and withMessage; and the factories *)
(* of createErrorFactory, whose defaults a call overrides.                  *)
CopyWith(error, o) ==
  NewError(o.message, [name |-> error.name, code |-> error.code, expose |-> error.expose,
                       details |-> o.details, cause |-> o.cause])
WithDetails(error, details) == CopyWith(error, [error EXCEPT !.details = details])
WithCause(error, cause)     == CopyWith(error, [error EXCEPT !.cause = cause])
WithMessage(error, message) == CopyWith(error, [error EXCEPT !.message = message])

CreateErrorFactory(defaults, message, o) == NewError(message, o @@ defaults)

-----------------------------------------------------------------------------
(* redactErrorKeys and applyRedactors: the registered ones and then the     *)
(* caller's.  A redactor is the set of keys it masks, in any case of        *)
(* letters, or Throws.                                                      *)
Throws == {"throws"}
Lower(key) == IF key = "Token" THEN "token" ELSE key
RedactErrorKeys(details, keys) ==
  [k \in DOMAIN details |-> IF Lower(k) \in {Lower(m) : m \in keys} THEN "[redacted]"
                            ELSE details[k]]

ApplyRedactors(details, redactors) ==
  IF \E i \in DOMAIN redactors : redactors[i] = Throws THEN NoDetails
  ELSE FoldLeft(RedactErrorKeys, details, redactors)

TruncatedErrorJson ==
  [name |-> "RootwareError", code |-> "ROOTWARE_INTERNAL_ERROR", message |-> DefaultMessage,
   expose |-> FALSE, details |-> NoDetails, cause |-> NoMore]

(* serializeRootwareError and serializeErrorCause.  at is where the error   *)
(* stands: an error met again, or below the maximal depth, is cut.  A       *)
(* foreign error or a string is converted, anew each time.                  *)
CauseShown(error) == IF error.expose THEN error.cause ELSE Undefined

RECURSIVE SerializeRootwareError(_, _, _, _, _, _)
SerializeRootwareError(heap, at, seen, depth, redactors, maxDepth) ==
  LET error == ToRootwareError(heap, at, NoOptions)
      cause == CauseShown(error)
  IN  IF (at.kind = "rootware" /\ at \in seen) \/ depth > maxDepth THEN TruncatedErrorJson
      ELSE [name |-> error.name, code |-> error.code, expose |-> error.expose,
            message |-> IF error.expose THEN error.message ELSE DefaultMessage,
            details |-> IF error.expose /\ error.details # NoDetails
                        THEN ApplyRedactors(error.details, redactors) ELSE NoDetails,
            cause |-> IF cause.kind \in {"undefined", "other"} THEN NoMore
                      ELSE SerializeRootwareError(heap, cause, seen \cup {at}, depth + 1,
                                                  redactors, maxDepth)]

SerializeError(heap, value, redactors, maxDepth) ==
  SerializeRootwareError(heap, value, {}, 0, redactors, maxDepth)

(* getErrorChain: each value once, up to the maximal depth.                 *)
RECURSIVE GetErrorChain(_, _, _, _)
GetErrorChain(heap, value, seen, maxDepth) ==
  IF value = Undefined \/ maxDepth = 0 \/ value \in seen THEN <<>>
  ELSE LET error == ToRootwareError(heap, value, NoOptions) IN
         <<error>> \o GetErrorChain(heap, error.cause, seen \cup {value}, maxDepth - 1)

-----------------------------------------------------------------------------
RECURSIVE PayloadLevels(_)
PayloadLevels(json) == IF json = NoMore THEN <<>> ELSE <<json>> \o PayloadLevels(json.cause)

(* However errors are nested, and even when one is its own cause: only what *)
(* every error above it exposes is shown, no masked key of the details with *)
(* it, and the payload is at most two levels deeper than asked for.  The    *)
(* chain that is meant for the program's own eyes misses no error.          *)
HiddenErrorsStayHidden(heap, value, redactors, maxDepth) ==
  LET levels == PayloadLevels(SerializeError(heap, value, redactors, maxDepth))
      chain  == GetErrorChain(heap, value, {}, maxDepth)
      masked == UNION ToSet(redactors)
  IN  /\ Len(levels) \in 1 .. maxDepth + 2
      /\ \A i \in 1 .. Len(levels) - 1 : levels[i].expose
      /\ \A i \in DOMAIN levels :
           /\ ~levels[i].expose => levels[i].message = DefaultMessage
                                   /\ levels[i].details = NoDetails
           /\ levels[i].details # NoDetails =>
                \A k \in DOMAIN levels[i].details :
                  Lower(k) \in masked => levels[i].details[k] = "[redacted]"
           /\ i \in DOMAIN chain /\ levels[i].expose => levels[i].message = chain[i].message
      /\ Len(chain) <= maxDepth
      /\ Len(chain) < maxDepth /\ chain # <<>> =>
           Last(chain).cause = Undefined \/ \E i \in DOMAIN chain : chain[i].cause = Last(chain).cause
      /\ Throws \in ToSet(redactors) => \A i \in DOMAIN levels : levels[i].details = NoDetails

(* An error made from another one, or by a factory, keeps whatever was not  *)
(* asked to change, and a foreign error keeps its message and its cause.    *)
ErrorsKeepWhatTheyAre(heap, value, defaults, message) ==
  LET error == ToRootwareError(heap, value, NoOptions)
      made  == CreateErrorFactory(defaults, message, [code |-> "MINE"])
  IN  /\ WithMessage(WithDetails(error, [k |-> "v"]), error.message)
           = [error EXCEPT !.details = [k |-> "v"]]
      /\ WithCause(error, error.cause) = error
      /\ WithMessage(error, message).cause = error.cause
      /\ made = [NewError(message, defaults) EXCEPT !.code = "MINE"]
      /\ value.kind \in {"error", "rootware"} => error.cause = heap[value.of].cause
      /\ GetErrorMessage(heap, value) # ""  \/ value.kind = "rootware"
=============================================================================
