----------------------------- MODULE RateLimiter -----------------------------
(***************************************************************************)
(* fixedWindowRateLimiter and tokenBucketRateLimiter over a CacheStore      *)
(* (packages/state/cache/mod.ts), for one key of one isolate.  keyedMutex   *)
(* chains the calls; a call's body reads the clock and gets the entry, then *)
(* decides and sets it, and time passes at the await between.  The store    *)
(* looks up when it is called, as memoryCacheStore does, but may reject.    *)
(* Tokens are counted in units of 1/PeriodMs, of which a millisecond's      *)
(* refill is whole.  The code counts them in doubles: a level that was ever  *)
(* refilled, and a quotient, may be a little off, by less than such a unit,  *)
(* which shows where a comparison or a ceiling would else be exact.         *)
(***************************************************************************)
EXTENDS Integers, SequencesExt

CONSTANTS
  Calls,         \* slots for calls
  None,          \* no call, entry, operation or promise
  Limiters,      \* the kinds of limiter: "window", "bucket"
  Limit,         \* limit, or capacity
  PeriodMs,      \* windowMs, or refillIntervalMs
  RefillTokens,  \* tokens per refill interval
  Costs,         \* units a call may consume
  MaxTime        \* bound: the clock stops here

Entry == [level: Nat, since: Nat, rounded: BOOLEAN, expiresAt: Nat]

ASSUME LimiterAssumption ==
  /\ None \notin Calls \cup Entry
  /\ Limiters \subseteq {"window", "bucket"}
  /\ Limit \in Nat \ {0} /\ PeriodMs \in Nat \ {0} /\ RefillTokens \in Nat \ {0}
  /\ Costs \subseteq Nat \ {0}
  /\ MaxTime \in Nat

VARIABLES
  limiter,  \* which of the two this is
  entry,    \* the store's entry for the key
  now,      \* Date.now()
  tail,     \* keyedMutex: the last call of the chain
  prev,     \* the call each call waits for
  pc,       \* the await each call stands at
  op,       \* the operation of each call
  clock,    \* the time each call read
  state,    \* what each call made of the entry it got
  grants,   \* history: what was granted since the last reset
  promise   \* history: the last refusal's retryAfterMs, until units are granted

vars == <<limiter, entry, now, tail, prev, pc, op, clock, state, grants, promise>>

GrantRecord == [from: Nat, to: Nat, before: Nat, units: Costs]
State == [level: Nat, since: Nat, rounded: BOOLEAN]
Operation == [kind: {"peek", "reset"}] \cup [kind: {"consume"}, units: Costs]

TypeOK ==
  /\ limiter \in Limiters
  /\ entry \in Entry \cup {None}
  /\ now \in Nat
  /\ tail \in Calls \cup {None}
  /\ prev \in [Calls -> Calls \cup {None}]
  /\ pc \in [Calls -> {"idle", "queued", "decide"}]
  /\ op \in [Calls -> Operation \cup {None}]
  /\ clock \in [Calls -> Nat]
  /\ state \in [Calls -> State \cup {None}]
  /\ grants \in Seq(GrantRecord)
  /\ promise \in [units: Costs, due: Nat] \cup {None}

Init ==
  /\ limiter \in Limiters
  /\ entry = None
  /\ now = 0
  /\ tail = None
  /\ prev = [c \in Calls |-> None]
  /\ pc = [c \in Calls |-> "idle"]
  /\ op = [c \in Calls |-> None]
  /\ clock = [c \in Calls |-> 0]
  /\ state = [c \in Calls |-> None]
  /\ grants = <<>>
  /\ promise = None

-----------------------------------------------------------------------------
CeilDiv(a, b) == (a + b - 1) \div b
Least(a, b) == IF a <= b THEN a ELSE b
Greatest(a, b) == IF a >= b THEN a ELSE b

Scaled(units) == units * PeriodMs
Refill(ms) == ms * RefillTokens

(* What Math.ceil makes of a / b above 0: an exact quotient may come out high. *)
Ceilings(a, b) == Greatest(1, CeilDiv(a, b))..(a \div b + 1)

FullRefillMs == Ceilings(Scaled(Limit), RefillTokens)

(* evaluate: the window that is open, or a new one. *)
Window(e, at) ==
  IF e = None \/ at - e.since >= PeriodMs
  THEN [level |-> 0, since |-> at, rounded |-> FALSE]
  ELSE [level |-> e.level, since |-> e.since, rounded |-> FALSE]

(* currentTokens: what the bucket holds by now, never more than it can; a      *)
(* refill makes it inexact, and only the cap makes it exact again.            *)
Bucket(e, at) ==
  IF e = None THEN [level |-> Scaled(Limit), since |-> at, rounded |-> FALSE]
  ELSE LET ms == Greatest(0, at - e.since)
           refilled == e.level + Refill(ms)
       IN  [level |-> Least(Scaled(Limit), refilled),
            since |-> at,
            rounded |-> refilled <= Scaled(Limit) /\ (e.rounded \/ ms > 0)]

Evaluate(e, at) == IF limiter = "window" THEN Window(e, at) ELSE Bucket(e, at)

Suffices(s, units) ==
  IF limiter = "window" THEN s.level + units <= Limit ELSE s.level >= Scaled(units)

(* The tokens are what is asked for, but their double may be just less. *)
FallsShort(s, units) == limiter = "bucket" /\ s.rounded /\ s.level = Scaled(units)

Charged(s, units) ==
  [s EXCEPT !.level = IF limiter = "window" THEN @ + units ELSE @ - Scaled(units)]

TtlMs(s, at) ==
  IF limiter = "window" THEN {Greatest(1, s.since + PeriodMs - at)} ELSE FullRefillMs

(* The waits a refusal may name. *)
RetryAfterMs(s, units, at) ==
  IF limiter = "window" THEN {Greatest(0, s.since + PeriodMs - at)}
  ELSE Ceilings(Scaled(units) - s.level, RefillTokens)

-----------------------------------------------------------------------------
Mut_ForgetsTail(c) == tail' = None

(* The tail leaves the map with the last call of the chain. *)
CleanTail(c) == tail' = IF tail = c THEN None ELSE tail

(* A call has ended, well or badly: the next in the chain may run. *)
Settle(c) ==
  /\ pc' = [pc EXCEPT ![c] = "idle"]
  /\ op' = [op EXCEPT ![c] = None]
  /\ clock' = [clock EXCEPT ![c] = 0]
  /\ state' = [state EXCEPT ![c] = None]
  /\ prev' = [d \in Calls |-> IF prev[d] = c THEN None ELSE prev[d]]
  /\ CleanTail(c)

(* consume, peek and reset line up behind the calls before them. *)
Begin(c, o) ==
  /\ pc[c] = "idle"
  /\ pc' = [pc EXCEPT ![c] = "queued"]
  /\ op' = [op EXCEPT ![c] = o]
  /\ prev' = [prev EXCEPT ![c] = tail]
  /\ tail' = c
  /\ UNCHANGED <<limiter, entry, now, clock, state, grants, promise>>

(* The body reads the clock and calls store.get at once, which deletes an     *)
(* expired entry; peek has its answer then.                                  *)
Look(c) ==
  /\ pc[c] = "queued" /\ prev[c] = None /\ op[c].kind # "reset"
  /\ entry' = IF entry # None /\ now >= entry.expiresAt THEN None ELSE entry
  /\ IF op[c].kind = "peek"
     THEN Settle(c)
     ELSE /\ clock' = [clock EXCEPT ![c] = now]
          /\ state' = [state EXCEPT ![c] = Evaluate(entry', now)]
          /\ pc' = [pc EXCEPT ![c] = "decide"]
          /\ UNCHANGED <<tail, prev, op>>
  /\ UNCHANGED <<limiter, now, grants, promise>>

(* The entries that may be set: the code computes their ttl. *)
Written(s, at) ==
  {[level |-> s.level, since |-> s.since, rounded |-> s.rounded, expiresAt |-> now + ttl] :
     ttl \in TtlMs(s, at)}

Mut_RefusalForgetsRefill(c) ==
  IF limiter = "window" THEN {entry}
  ELSE Written([state[c] EXCEPT !.level = IF entry = None THEN @ ELSE entry.level], clock[c])

(* What a grant sets, and what a refusal does: it leaves the window alone and  *)
(* brings the bucket up to date.                                             *)
AfterGrant(c) == Written(Charged(state[c], op[c].units), clock[c])
AfterRefusal(c) == IF limiter = "window" THEN {entry} ELSE Written(state[c], clock[c])

MayGrant(c) == Suffices(state[c], op[c].units)
MayRefuse(c) == ~MayGrant(c) \/ FallsShort(state[c], op[c].units)

(* The units of all the grants of gs. *)
UnitsIn(gs) == IF gs = <<>> THEN 0 ELSE Last(gs).before + Last(gs).units

Grant(c) ==
  /\ pc[c] = "decide" /\ MayGrant(c)
  /\ entry' \in AfterGrant(c)
  /\ grants' = Append(grants, [from |-> clock[c], to |-> now,
                               before |-> UnitsIn(grants), units |-> op[c].units])
  /\ promise' = None
  /\ Settle(c)
  /\ UNCHANGED <<limiter, now>>

Refuse(c) ==
  /\ pc[c] = "decide" /\ MayRefuse(c)
  /\ entry' \in AfterRefusal(c)
  /\ \E wait \in RetryAfterMs(state[c], op[c].units, clock[c]) :
       promise' = [units |-> op[c].units, due |-> clock[c] + wait]
  /\ Settle(c)
  /\ UNCHANGED <<limiter, now, grants>>

Delete(c) ==
  /\ pc[c] = "queued" /\ prev[c] = None /\ op[c].kind = "reset"
  /\ entry' = None
  /\ grants' = <<>>
  /\ promise' = None
  /\ Settle(c)
  /\ UNCHANGED <<limiter, now>>

InBody(c) == pc[c] = "decide" \/ (pc[c] = "queued" /\ prev[c] = None)

Mut_FailureEndsChain(c) ==
  /\ InBody(c)
  /\ pc' = [pc EXCEPT ![c] = "idle"]
  /\ op' = [op EXCEPT ![c] = None]
  /\ clock' = [clock EXCEPT ![c] = 0]
  /\ state' = [state EXCEPT ![c] = None]
  /\ UNCHANGED <<limiter, entry, now, tail, prev, grants, promise>>

(* What the operation that a body asks the store for may make of the entry. *)
Asked(c) ==
  IF pc[c] = "queued" THEN {IF op[c].kind = "reset" THEN None ELSE entry}
  ELSE {e \in AfterGrant(c) : MayGrant(c)} \cup {e \in AfterRefusal(c) : MayRefuse(c)}

(* The store rejects, with or - when only its answer is lost - without effect. *)
StoreFails(c) ==
  /\ InBody(c)
  /\ entry' \in Asked(c) \cup {entry}
  /\ grants' = IF op[c].kind = "reset" /\ entry' = None THEN <<>> ELSE grants
  /\ promise' = None
  /\ Settle(c)
  /\ UNCHANGED <<limiter, now>>

Tick ==
  /\ now < MaxTime
  /\ now' = now + 1
  /\ UNCHANGED <<limiter, entry, tail, prev, pc, op, clock, state, grants, promise>>

Progress(c) == Look(c) \/ Grant(c) \/ Refuse(c) \/ Delete(c)

Next ==
  \/ \E c \in Calls :
       \/ \E o \in Operation : Begin(c, o)
       \/ Progress(c) \/ StoreFails(c)
  \/ Tick

Spec == Init /\ [][Next]_vars

(* The store answers: a body that has begun goes on. *)
FairSpec == Spec /\ \A c \in Calls : WF_vars(Progress(c))

-----------------------------------------------------------------------------
(* keyedMutex never runs two bodies of a key at once. *)
Exclusive ==
  \A c, d \in Calls : InBody(c) /\ InBody(d) => c = d

(* The units of the calls from the i-th to the j-th grant. *)
Granted(i, j) == grants[j].before + grants[j].units - grants[i].before

(* Whatever is refused, expires or fails between them, the calls from the     *)
(* i-th to the j-th grant get no more units than their time allows: twice the *)
(* limit within a window's length, a full bucket and the refill meanwhile.    *)
WithinBudget ==
  \A j \in DOMAIN grants : \A i \in 1..j :
    LET elapsed == grants[j].to - grants[i].from
    IN  IF limiter = "window"
        THEN elapsed < PeriodMs => Granted(i, j) <= 2 * Limit
        ELSE Scaled(Granted(i, j)) <= Scaled(Limit) + Refill(elapsed)

(* Who waits as long as a refusal said is not refused again, unless others    *)
(* took units meanwhile, or more is asked for than then or than the limit,   *)
(* which no waiting grants.  Only the rounding of a bucket whose tokens are   *)
(* just enough at the very millisecond may still refuse, and asks for one    *)
(* millisecond more, which no rounding refuses.                              *)
RetryAfterSuffices ==
  [][\A c \in Calls :
       Refuse(c) /\ promise # None /\ op[c].units <= Least(promise.units, Limit)
       => \/ clock[c] < promise.due
          \/ /\ clock[c] = promise.due /\ FallsShort(state[c], op[c].units)
             /\ promise'.due = clock[c] + 1]_vars

(* Every call ends, also behind a call that failed. *)
EveryCallSettles == \A c \in Calls : pc[c] # "idle" ~> pc[c] = "idle"
=============================================================================
