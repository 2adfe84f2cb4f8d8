------------------------- MODULE LivenessSuiteProofs -------------------------
(***************************************************************************)
(* Theorems about the rate limiter, the job worker, the log sinks and the   *)
(* http client of MCLivenessSuite, and what it says of all four together,   *)
(* for every number of calls, ticks, lines and requests, every limit,       *)
(* period, refill and cost, and every bound.                                *)
(***************************************************************************)
EXTENDS MCLivenessSuite, TLAPS, SequenceTheorems, FiniteSetTheorems

-----------------------------------------------------------------------------
(* keyedMutex.  The calls that have not settled stand in one line: each       *)
(* waits for the one before it, and the tail is the last of them.            *)
Line(n, q) ==
  /\ \A c \in Calls : pc[c] # "idle" <=> \E i \in 1..n : q[i] = c
  /\ \A i, j \in 1..n : q[i] = q[j] => i = j
  /\ \A i \in 1..n : prev[q[i]] = IF i = 1 THEN None ELSE q[i - 1]
  /\ tail = IF n = 0 THEN None ELSE q[n]

Chained == \E n \in Nat : \E q \in [1..n -> Calls] : Line(n, q)

MutexInv ==
  /\ pc \in [Calls -> {"idle", "queued", "decide"}]
  /\ prev \in [Calls -> Calls \cup {None}]
  /\ \A c \in Calls : pc[c] = "decide" => prev[c] = None
  /\ Chained

(* Only the first of the line waits for nobody. *)
LEMMA FirstIsFree ==
  ASSUME NEW n \in Nat, NEW q \in [1..n -> Calls], Line(n, q),
         NEW c \in Calls, pc[c] # "idle", prev[c] = None
  PROVE  n > 0 /\ q[1] = c
<1>1. PICK i \in 1..n : q[i] = c
  BY DEF Line
<1>2. CASE i = 1
  BY <1>1, <1>2
<1>3. CASE i # 1
  <2>1. i - 1 \in 1..n /\ q[i - 1] \in Calls
    BY <1>3
  <2>. QED
    BY <1>1, <1>3, <2>1, LimiterAssumption DEF Line
<1>. QED
  BY <1>2, <1>3

LEMMA MutexExcludes == MutexInv => Exclusive
<1>. SUFFICES ASSUME MutexInv, NEW c \in Calls, NEW d \in Calls, InBody(c), InBody(d)
              PROVE  c = d
  BY DEF Exclusive
<1>1. PICK n \in Nat : \E q \in [1..n -> Calls] : Line(n, q)
  BY DEF MutexInv, Chained
<1>2. PICK q \in [1..n -> Calls] : Line(n, q)
  BY <1>1
<1>3. pc[c] # "idle" /\ prev[c] = None /\ pc[d] # "idle" /\ prev[d] = None
  BY DEF InBody, MutexInv
<1>4. q[1] = c /\ q[1] = d
  BY <1>2, <1>3, FirstIsFree
<1>. QED
  BY <1>4

(* A call that begins goes to the end of the line. *)
LEMMA BeginKeepsLine ==
  ASSUME MutexInv, NEW c \in Calls, NEW o, Begin(c, o)
  PROVE  MutexInv'
<1>1. PICK n \in Nat : \E q \in [1..n -> Calls] : Line(n, q)
  BY DEF MutexInv, Chained
<1>2. PICK q \in [1..n -> Calls] : Line(n, q)
  BY <1>1
<1> DEFINE r == [i \in 1..(n + 1) |-> IF i = n + 1 THEN c ELSE q[i]]
<1>3. /\ n + 1 \in Nat
      /\ r \in [1..(n + 1) -> Calls]
      /\ r[n + 1] = c
      /\ \A i \in 1..n : r[i] = q[i] /\ i \in 1..(n + 1)
      /\ \A i \in 1..(n + 1) : i = n + 1 \/ i \in 1..n
  OBVIOUS
<1>4. \A i \in 1..n : q[i] # c
  BY <1>2 DEF Line, Begin
<1>5. tail \in Calls \cup {None}
  BY <1>2 DEF Line
<1>6. pc' = [pc EXCEPT ![c] = "queued"] /\ prev' = [prev EXCEPT ![c] = tail] /\ tail' = c
  BY DEF Begin
<1>. HIDE DEF r
<1>7. Line(n + 1, r)'
  <2>1. \A d \in Calls : pc'[d] # "idle" <=> \E i \in 1..(n + 1) : r[i] = d
    BY <1>2, <1>3, <1>6 DEF Line, MutexInv
  <2>2. \A i, j \in 1..(n + 1) : r[i] = r[j] => i = j
    BY <1>2, <1>3, <1>4 DEF Line
  <2>3. \A i \in 1..(n + 1) : prev'[r[i]] = IF i = 1 THEN None ELSE r[i - 1]
    <3>. SUFFICES ASSUME NEW i \in 1..(n + 1)
                  PROVE  prev'[r[i]] = IF i = 1 THEN None ELSE r[i - 1]
      OBVIOUS
    <3>1. CASE i = n + 1
      <4>1. prev'[c] = tail
        BY <1>6 DEF MutexInv
      <4>2. n # 0 => n \in 1..n /\ r[n] = q[n]
        BY <1>3
      <4>. QED
        BY <1>2, <1>3, <3>1, <4>1, <4>2 DEF Line
    <3>2. CASE i \in 1..n
      <4>1. r[i] = q[i] /\ q[i] # c /\ q[i] \in Calls
        BY <1>3, <1>4, <3>2
      <4>2. prev'[q[i]] = prev[q[i]]
        BY <1>6, <4>1 DEF MutexInv
      <4>3. i # 1 => i - 1 \in 1..n /\ r[i - 1] = q[i - 1]
        BY <1>3, <3>2
      <4>. QED
        BY <1>2, <3>2, <4>1, <4>2, <4>3 DEF Line
    <3>. QED
      BY <1>3, <3>1, <3>2
  <2>4. tail' = IF n + 1 = 0 THEN None ELSE r[n + 1]
    BY <1>3, <1>6
  <2>. QED
    BY <2>1, <2>2, <2>3, <2>4 DEF Line
<1>8. Chained'
  BY <1>3, <1>7 DEF Chained
<1>9. /\ (pc \in [Calls -> {"idle", "queued", "decide"}])'
      /\ (prev \in [Calls -> Calls \cup {None}])'
      /\ (\A d \in Calls : pc[d] = "decide" => prev[d] = None)'
  BY <1>5, <1>6 DEF MutexInv
<1>. QED
  BY <1>8, <1>9 DEF MutexInv

(* The first of the line leaves it when it settles. *)
LEMMA SettleKeepsLine ==
  ASSUME MutexInv, NEW c \in Calls, InBody(c), Settle(c)
  PROVE  MutexInv'
<1>1. PICK n \in Nat : \E q \in [1..n -> Calls] : Line(n, q)
  BY DEF MutexInv, Chained
<1>2. PICK q \in [1..n -> Calls] : Line(n, q)
  BY <1>1
<1>3. pc[c] # "idle" /\ prev[c] = None
  BY DEF InBody, MutexInv
<1>4. n > 0 /\ q[1] = c
  BY <1>2, <1>3, FirstIsFree
<1> DEFINE m == n - 1
           r == [i \in 1..m |-> q[i + 1]]
<1>5. /\ m \in Nat /\ n = m + 1
      /\ r \in [1..m -> Calls]
      /\ \A i \in 1..m : r[i] = q[i + 1] /\ i + 1 \in 1..n /\ i + 1 # 1
      /\ \A i \in 1..n : i = 1 \/ (i - 1 \in 1..m /\ r[i - 1] = q[i])
      /\ 1 \in 1..n
  BY <1>4
<1>6. \A i \in 1..m : r[i] # c
  BY <1>2, <1>4, <1>5 DEF Line
<1>7. /\ pc' = [pc EXCEPT ![c] = "idle"]
      /\ prev' = [d \in Calls |-> IF prev[d] = c THEN None ELSE prev[d]]
      /\ tail' = IF tail = c THEN None ELSE tail
  BY DEF Settle, CleanTail
<1>. HIDE DEF m, r
<1>8. Line(m, r)'
  <2>1. \A d \in Calls : pc'[d] # "idle" <=> \E i \in 1..m : r[i] = d
    <3>. SUFFICES ASSUME NEW d \in Calls
                  PROVE  pc'[d] # "idle" <=> \E i \in 1..m : r[i] = d
      OBVIOUS
    <3>1. CASE d = c
      BY <1>6, <1>7, <3>1 DEF MutexInv
    <3>2. CASE d # c
      <4>1. pc'[d] = pc[d]
        BY <1>7, <3>2 DEF MutexInv
      <4>2. (\E i \in 1..n : q[i] = d) <=> \E i \in 1..m : r[i] = d
        BY <1>4, <1>5, <3>2
      <4>. QED
        BY <1>2, <4>1, <4>2 DEF Line
    <3>. QED
      BY <3>1, <3>2
  <2>2. \A i, j \in 1..m : r[i] = r[j] => i = j
    <3>. SUFFICES ASSUME NEW i \in 1..m, NEW j \in 1..m, r[i] = r[j] PROVE i = j
      OBVIOUS
    <3>1. q[i + 1] = q[j + 1] /\ i + 1 \in 1..n /\ j + 1 \in 1..n
      BY <1>5
    <3>2. i + 1 = j + 1
      BY <1>2, <3>1 DEF Line
    <3>. QED
      BY <1>5, <3>2
  <2>3. \A i \in 1..m : prev'[r[i]] = IF i = 1 THEN None ELSE r[i - 1]
    <3>. SUFFICES ASSUME NEW i \in 1..m
                  PROVE  prev'[r[i]] = IF i = 1 THEN None ELSE r[i - 1]
      OBVIOUS
    <3>1. i + 1 \in 1..n /\ i + 1 # 1 /\ (i + 1) - 1 = i /\ r[i] = q[i + 1] /\ r[i] \in Calls
      BY <1>5
    <3>2. prev[r[i]] = q[i]
      BY <1>2, <3>1 DEF Line
    <3>3. CASE i = 1
      BY <1>4, <1>7, <3>1, <3>2, <3>3
    <3>4. CASE i # 1
      <4>1. i \in 1..n /\ i - 1 \in 1..m /\ r[i - 1] = q[i]
        BY <1>5, <3>4
      <4>2. q[i] # c
        BY <1>6, <4>1
      <4>. QED
        BY <1>7, <3>1, <3>2, <3>4, <4>1, <4>2
    <3>. QED
      BY <3>3, <3>4
  <2>4. tail' = IF m = 0 THEN None ELSE r[m]
    <3>1. tail = q[n]
      BY <1>2, <1>4 DEF Line
    <3>2. CASE m = 0
      BY <1>4, <1>5, <1>7, <3>1, <3>2
    <3>3. CASE m # 0
      <4>1. m \in 1..m /\ r[m] = q[n]
        BY <1>5, <3>3
      <4>. QED
        BY <1>6, <1>7, <3>1, <3>3, <4>1
    <3>. QED
      BY <3>2, <3>3
  <2>. QED
    BY <2>1, <2>2, <2>3, <2>4 DEF Line
<1>9. Chained'
  BY <1>5, <1>8 DEF Chained
<1>10. /\ (pc \in [Calls -> {"idle", "queued", "decide"}])'
       /\ (prev \in [Calls -> Calls \cup {None}])'
       /\ (\A d \in Calls : pc[d] = "decide" => prev[d] = None)'
  BY <1>7, LimiterAssumption DEF MutexInv
<1>. QED
  BY <1>9, <1>10 DEF MutexInv

(* The line does not see a body that goes on. *)
LEMMA BodyKeepsLine ==
  ASSUME MutexInv, NEW c \in Calls, pc[c] = "queued", prev[c] = None,
         pc' = [pc EXCEPT ![c] = "decide"], UNCHANGED <<tail, prev>>
  PROVE  MutexInv'
<1>1. PICK n \in Nat : \E q \in [1..n -> Calls] : Line(n, q)
  BY DEF MutexInv, Chained
<1>2. PICK q \in [1..n -> Calls] : Line(n, q)
  BY <1>1
<1>3. \A d \in Calls : pc'[d] # "idle" <=> pc[d] # "idle"
  BY DEF MutexInv
<1>4. Line(n, q)'
  BY <1>2, <1>3 DEF Line
<1>5. Chained'
  BY <1>4 DEF Chained
<1>. QED
  BY <1>5 DEF MutexInv

LEMMA InitMutex == Init => MutexInv
<1>. SUFFICES ASSUME Init PROVE MutexInv
  OBVIOUS
<1> DEFINE q == [i \in 1..0 |-> None]
<1>1. 0 \in Nat /\ q \in [1..0 -> Calls]
  OBVIOUS
<1>2. Line(0, q)
  BY DEF Init, Line
<1>3. Chained
  BY <1>1, <1>2 DEF Chained
<1>. QED
  BY <1>3 DEF Init, MutexInv

LEMMA NextMutex == MutexInv /\ [Next]_vars => MutexInv'
<1>. SUFFICES ASSUME MutexInv, [Next]_vars PROVE MutexInv'
  OBVIOUS
<1>1. ASSUME NEW c \in Calls, NEW o \in Operation, Begin(c, o) PROVE MutexInv'
  BY <1>1, BeginKeepsLine
<1>2. ASSUME NEW c \in Calls, Look(c) PROVE MutexInv'
  <2>1. pc[c] = "queued" /\ prev[c] = None /\ InBody(c)
    BY <1>2 DEF Look, InBody
  <2>2. CASE op[c].kind = "peek"
    BY <1>2, <2>1, <2>2, SettleKeepsLine DEF Look
  <2>3. CASE op[c].kind # "peek"
    BY <1>2, <2>1, <2>3, BodyKeepsLine DEF Look
  <2>. QED
    BY <2>2, <2>3
<1>3. ASSUME NEW c \in Calls, Grant(c) \/ Refuse(c) \/ Delete(c) \/ StoreFails(c)
      PROVE  MutexInv'
  BY <1>3, SettleKeepsLine DEF Grant, Refuse, Delete, StoreFails, InBody
<1>4. CASE Tick \/ UNCHANGED vars
  BY <1>4 DEF Tick, vars, MutexInv, Chained, Line
<1>. QED
  BY <1>1, <1>2, <1>3, <1>4 DEF Next, Progress

(* keyedMutex runs one body of a key at a time, however many calls arrive,    *)
(* settle or fail (keyedMutex, Exclusive).                                   *)
THEOREM BodiesExclude == Spec => []Exclusive
<1>1. Init => MutexInv
  BY InitMutex
<1>2. MutexInv /\ [Next]_vars => MutexInv'
  BY NextMutex
<1>3. MutexInv => Exclusive
  BY MutexExcludes
<1>. QED
  BY <1>1, <1>2, <1>3, PTL DEF Spec

-----------------------------------------------------------------------------
(* Type correctness.  A call that decides has a consume operation and the     *)
(* state it made of its entry.                                               *)
TypeInv ==
  /\ TypeOK
  /\ \A c \in Calls :
       /\ pc[c] # "idle" => op[c] \in Operation
       /\ pc[c] = "decide" => /\ op[c] \in [kind: {"consume"}, units: Costs]
                              /\ state[c] \in State

LEMMA QuotientIsNat == ASSUME NEW a \in Nat, NEW b \in Nat \ {0} PROVE CeilDiv(a, b) \in Nat
<1>1. a + b - 1 \in Nat
  OBVIOUS
<1> DEFINE x == a + b - 1
<1>. HIDE DEF x
<1>2. x \in Nat => x \div b \in Nat
  OBVIOUS
<1>. QED
  BY <1>1, <1>2 DEF CeilDiv, x

LEMMA ScaledIsNat == ASSUME NEW u \in Nat PROVE Scaled(u) \in Nat
BY LimiterAssumption DEF Scaled

(* The least time that fills an empty bucket: no ttl is shorter.              *)
RefillMs == CeilDiv(Scaled(Limit), RefillTokens)

LEMMA CeilingsAreNat ==
  ASSUME NEW a \in Nat, NEW b \in Nat \ {0}, NEW q \in Ceilings(a, b)
  PROVE  q \in Nat /\ q >= CeilDiv(a, b)
<1>1. CeilDiv(a, b) \in Nat
  BY QuotientIsNat
<1>2. Greatest(1, CeilDiv(a, b)) \in Nat /\ Greatest(1, CeilDiv(a, b)) >= CeilDiv(a, b)
  BY <1>1 DEF Greatest
<1> DEFINE low == Greatest(1, CeilDiv(a, b))
           high == a \div b + 1
<1>3. q \in low..high
  BY DEF Ceilings
<1>4. low \in Nat /\ low >= CeilDiv(a, b)
  BY <1>2
<1>5. high \in Int
  OBVIOUS
<1>. HIDE DEF low, high
<1>. QED
  BY <1>1, <1>3, <1>4, <1>5

LEMMA RefillTakesLong ==
  /\ RefillMs \in Nat
  /\ \A ttl \in FullRefillMs : ttl \in Nat /\ ttl >= RefillMs
BY ScaledIsNat, QuotientIsNat, CeilingsAreNat, LimiterAssumption DEF RefillMs, FullRefillMs

LEMMA EvaluateIsState ==
  ASSUME NEW e \in Entry \cup {None}, NEW at \in Nat, limiter \in Limiters
  PROVE  Evaluate(e, at) \in State
<1>1. Scaled(Limit) \in Nat
  BY ScaledIsNat, LimiterAssumption
<1>2. CASE e = None
  BY <1>1, <1>2 DEF Evaluate, Window, Bucket, State
<1>3. CASE e # None
  <2>1. e.level \in Nat /\ e.since \in Nat /\ e.rounded \in BOOLEAN
    BY <1>3 DEF Entry
  <2>2. Window(e, at) \in State
    BY <1>3, <2>1 DEF Window, State
  <2>3. Greatest(0, at - e.since) \in Nat
    BY <2>1 DEF Greatest
  <2>4. Refill(Greatest(0, at - e.since)) \in Nat
    BY <2>3, LimiterAssumption DEF Refill
  <2>5. Least(Scaled(Limit), e.level + Refill(Greatest(0, at - e.since))) \in Nat
    BY <1>1, <2>1, <2>4 DEF Least
  <2>6. Bucket(e, at) \in State
    BY <1>3, <2>5 DEF Bucket, State
  <2>. QED
    BY <2>2, <2>6 DEF Evaluate
<1>. QED
  BY <1>2, <1>3

LEMMA ChargedIsState ==
  ASSUME NEW s \in State, NEW u \in Costs, Suffices(s, u)
  PROVE  Charged(s, u) \in State
<1>1. u \in Nat /\ Scaled(u) \in Nat /\ s.level \in Nat
  BY ScaledIsNat, LimiterAssumption DEF State
<1>2. CASE limiter = "window"
  BY <1>1, <1>2 DEF Charged, State
<1>3. CASE limiter # "window"
  <2>1. s.level - Scaled(u) \in Nat
    BY <1>1, <1>3 DEF Suffices
  <2>. QED
    BY <1>3, <2>1 DEF Charged, State
<1>. QED
  BY <1>2, <1>3

LEMMA WrittenIsEntry ==
  ASSUME NEW s \in State, NEW at \in Nat, now \in Nat, NEW e \in Written(s, at)
  PROVE  e \in Entry
<1>1. PICK ttl \in TtlMs(s, at) :
        e = [level |-> s.level, since |-> s.since, rounded |-> s.rounded, expiresAt |-> now + ttl]
  BY DEF Written
<1>2. ttl \in Nat
  BY RefillTakesLong, LimiterAssumption DEF TtlMs, Greatest, State
<1>. QED
  BY <1>1, <1>2 DEF Entry, State

(* A bucket that refuses lacks units, or has just what is asked for.          *)
LEMMA RefusedLack ==
  ASSUME NEW s \in State, NEW u \in Costs, ~Suffices(s, u) \/ FallsShort(s, u),
         limiter # "window"
  PROVE  Scaled(u) - s.level \in Nat
<1>1. u \in Nat /\ Scaled(u) \in Nat /\ s.level \in Nat
  BY ScaledIsNat, LimiterAssumption DEF State
<1>. QED
  BY <1>1 DEF Suffices, FallsShort

LEMMA RefusalIsPromise ==
  ASSUME NEW s \in State, NEW u \in Costs, NEW at \in Nat, ~Suffices(s, u) \/ FallsShort(s, u),
         NEW wait \in RetryAfterMs(s, u, at)
  PROVE  at + wait \in Nat
<1>1. CASE limiter = "window"
  BY <1>1, LimiterAssumption DEF RetryAfterMs, Greatest, State
<1>2. CASE limiter # "window"
  <2>1. wait \in Ceilings(Scaled(u) - s.level, RefillTokens)
    BY <1>2 DEF RetryAfterMs
  <2>2. wait \in Nat
    BY <1>2, <2>1, RefusedLack, CeilingsAreNat, LimiterAssumption
  <2>. QED
    BY <2>2
<1>. QED
  BY <1>1, <1>2

LEMMA UnitsInIsNat == ASSUME NEW gs \in Seq(GrantRecord) PROVE UnitsIn(gs) \in Nat
<1>1. CASE gs = <<>>
  BY <1>1 DEF UnitsIn
<1>2. CASE gs # <<>>
  <2>1. Len(gs) \in 1..Len(gs)
    BY <1>2
  <2>2. Last(gs) \in GrantRecord
    BY <2>1 DEF Last
  <2>3. Last(gs).before \in Nat /\ Last(gs).units \in Nat
    BY <2>2, LimiterAssumption DEF GrantRecord
  <2>. QED
    BY <1>2, <2>3 DEF UnitsIn
<1>. QED
  BY <1>1, <1>2

(* What Settle leaves of the calls. *)
CallsTyped ==
  /\ tail \in Calls \cup {None}
  /\ prev \in [Calls -> Calls \cup {None}]
  /\ pc \in [Calls -> {"idle", "queued", "decide"}]
  /\ op \in [Calls -> Operation \cup {None}]
  /\ clock \in [Calls -> Nat]
  /\ state \in [Calls -> State \cup {None}]
  /\ \A c \in Calls :
       /\ pc[c] # "idle" => op[c] \in Operation
       /\ pc[c] = "decide" => /\ op[c] \in [kind: {"consume"}, units: Costs]
                              /\ state[c] \in State

StoreTyped ==
  /\ limiter \in Limiters
  /\ entry \in Entry \cup {None}
  /\ now \in Nat
  /\ grants \in Seq(GrantRecord)
  /\ promise \in [units: Costs, due: Nat] \cup {None}

LEMMA SettleKeepsTypes ==
  ASSUME CallsTyped, NEW c \in Calls, Settle(c) PROVE CallsTyped'
BY DEF CallsTyped, Settle, CleanTail

LEMMA NextTypes == TypeInv /\ [Next]_vars => TypeInv'
<1>. SUFFICES ASSUME CallsTyped, StoreTyped, [Next]_vars PROVE CallsTyped' /\ StoreTyped'
  BY DEF TypeInv, TypeOK, CallsTyped, StoreTyped
<1>1. ASSUME NEW c \in Calls, NEW o \in Operation, Begin(c, o)
      PROVE  CallsTyped' /\ StoreTyped'
  BY <1>1 DEF Begin, CallsTyped, StoreTyped
<1>2. ASSUME NEW c \in Calls, Look(c) PROVE CallsTyped' /\ StoreTyped'
  <2>1. entry' \in Entry \cup {None} /\ op[c] \in Operation
    BY <1>2 DEF Look, StoreTyped, CallsTyped
  <2>2. StoreTyped'
    BY <1>2, <2>1 DEF Look, StoreTyped
  <2>3. CASE op[c].kind = "peek"
    BY <1>2, <2>2, <2>3, SettleKeepsTypes DEF Look
  <2>4. CASE op[c].kind # "peek"
    <3>1. op[c] \in [kind: {"consume"}, units: Costs]
      BY <1>2, <2>1, <2>4 DEF Look, Operation
    <3>2. Evaluate(entry', now) \in State
      BY <2>1, EvaluateIsState DEF StoreTyped
    <3>. QED
      BY <1>2, <2>2, <2>4, <3>1, <3>2 DEF Look, CallsTyped, StoreTyped
  <2>. QED
    BY <2>3, <2>4
<1>3. ASSUME NEW c \in Calls, pc[c] = "decide"
      PROVE  /\ op[c].units \in Costs /\ state[c] \in State /\ clock[c] \in Nat
             /\ AfterRefusal(c) \subseteq Entry \cup {None}
             /\ MayGrant(c) => AfterGrant(c) \subseteq Entry
  <2>1. op[c].units \in Costs /\ state[c] \in State /\ clock[c] \in Nat
    BY <1>3 DEF CallsTyped
  <2>2. MayGrant(c) => Charged(state[c], op[c].units) \in State
    BY <2>1, ChargedIsState DEF MayGrant
  <2>3. AfterRefusal(c) \subseteq Entry \cup {None}
    BY <2>1, WrittenIsEntry DEF StoreTyped, AfterRefusal
  <2>4. MayGrant(c) => AfterGrant(c) \subseteq Entry
    BY <2>1, <2>2, WrittenIsEntry DEF StoreTyped, AfterGrant
  <2>. QED
    BY <2>1, <2>3, <2>4
<1>4. ASSUME NEW c \in Calls, Grant(c) PROVE CallsTyped' /\ StoreTyped'
  <2>1. CallsTyped'
    BY <1>4, SettleKeepsTypes DEF Grant
  <2>2. entry' \in Entry
    BY <1>3, <1>4 DEF Grant
  <2>3. [from |-> clock[c], to |-> now, before |-> UnitsIn(grants), units |-> op[c].units]
          \in GrantRecord
    BY <1>3, <1>4, UnitsInIsNat DEF Grant, StoreTyped, GrantRecord
  <2>. QED
    BY <1>4, <2>1, <2>2, <2>3 DEF Grant, StoreTyped
<1>5. ASSUME NEW c \in Calls, Refuse(c) PROVE CallsTyped' /\ StoreTyped'
  <2>1. CallsTyped'
    BY <1>5, SettleKeepsTypes DEF Refuse
  <2>2. promise' \in [units: Costs, due: Nat]
    BY <1>3, <1>5, RefusalIsPromise DEF Refuse, MayRefuse, MayGrant
  <2>3. entry' \in Entry \cup {None}
    BY <1>3, <1>5 DEF Refuse, StoreTyped
  <2>. QED
    BY <1>5, <2>1, <2>2, <2>3 DEF Refuse, StoreTyped
<1>6. ASSUME NEW c \in Calls, Delete(c) PROVE CallsTyped' /\ StoreTyped'
  BY <1>6, SettleKeepsTypes DEF Delete, StoreTyped
<1>7. ASSUME NEW c \in Calls, StoreFails(c) PROVE CallsTyped' /\ StoreTyped'
  <2>1. CallsTyped'
    BY <1>7, SettleKeepsTypes DEF StoreFails
  <2>2. Asked(c) \subseteq Entry \cup {None}
    BY <1>3, <1>7 DEF Asked, StoreFails, InBody, StoreTyped
  <2>. QED
    BY <1>7, <2>1, <2>2 DEF StoreFails, StoreTyped
<1>8. CASE Tick
  BY <1>8 DEF Tick, CallsTyped, StoreTyped
<1>9. CASE UNCHANGED vars
  BY <1>9 DEF vars, CallsTyped, StoreTyped
<1>. QED
  BY <1>1, <1>2, <1>4, <1>5, <1>6, <1>7, <1>8, <1>9 DEF Next, Progress

(* Counters and token levels stay natural numbers, whatever the costs, and    *)
(* every call has the data its step needs (TypeOK).                          *)
THEOREM TypeCorrect == Spec => []TypeOK
<1>1. Init => TypeInv
  BY LimiterAssumption DEF Init, TypeInv, TypeOK
<1>2. TypeInv /\ [Next]_vars => TypeInv'
  BY NextTypes
<1>3. TypeInv => TypeOK
  BY DEF TypeInv
<1>. QED
  BY <1>1, <1>2, <1>3, PTL DEF Spec

-----------------------------------------------------------------------------
(* Refills and scaled units add up and grow; CeilDiv takes long enough.       *)
LEMMA RefillIsInt == ASSUME NEW a \in Int PROVE Refill(a) \in Int
BY LimiterAssumption DEF Refill

LEMMA ScaledIsInt == ASSUME NEW a \in Int PROVE Scaled(a) \in Int
BY LimiterAssumption DEF Scaled

LEMMA RefillAdds ==
  ASSUME NEW a \in Int, NEW b \in Int
  PROVE  Refill(a + b) = Refill(a) + Refill(b)
BY LimiterAssumption DEF Refill

LEMMA RefillGrows ==
  ASSUME NEW a \in Int, NEW b \in Int, a <= b
  PROVE  Refill(a) <= Refill(b)
<1>1. Refill(b - a) \in Nat
  BY LimiterAssumption DEF Refill
<1>2. Refill(a) \in Int /\ Refill(a + (b - a)) = Refill(a) + Refill(b - a)
  BY RefillIsInt, RefillAdds
<1>3. a + (b - a) = b
  OBVIOUS
<1>. QED
  BY <1>1, <1>2, <1>3

LEMMA ScaledAdds ==
  ASSUME NEW a \in Int, NEW b \in Int
  PROVE  Scaled(a + b) = Scaled(a) + Scaled(b)
BY LimiterAssumption DEF Scaled

LEMMA ScaledGrows ==
  ASSUME NEW a \in Int, NEW b \in Int, a <= b
  PROVE  Scaled(a) <= Scaled(b)
<1>1. Scaled(b - a) \in Nat
  BY LimiterAssumption DEF Scaled
<1>2. Scaled(a) \in Int /\ Scaled(a + (b - a)) = Scaled(a) + Scaled(b - a)
  BY ScaledIsInt, ScaledAdds
<1>3. a + (b - a) = b
  OBVIOUS
<1>. QED
  BY <1>1, <1>2, <1>3

LEMMA WaitRefills ==
  ASSUME NEW d \in Nat PROVE d <= Refill(CeilDiv(d, RefillTokens))
<1> DEFINE x == d + RefillTokens - 1
           y == x \div RefillTokens
<1>1. x \in Nat /\ RefillTokens \in Nat \ {0}
  BY LimiterAssumption
<1>. HIDE DEF x
<1>2. y \in Nat /\ x < (y + 1) * RefillTokens
  BY <1>1
<1>. HIDE DEF y
<1>3. (y + 1) * RefillTokens = y * RefillTokens + RefillTokens /\ y * RefillTokens \in Nat
  BY <1>1, <1>2
<1>4. d <= y * RefillTokens
  BY <1>1, <1>2, <1>3 DEF x
<1>. QED
  BY <1>4 DEF Refill, CeilDiv, x, y

-----------------------------------------------------------------------------
(* The budget.  What the grants since any of them add up to is bounded by     *)
(* what the window or bucket v still shows of them.                          *)
GivenSince(gs, i) == UnitsIn(gs) - gs[i].before

WindowCovers(gs, v) ==
  /\ v.level <= Limit
  /\ \A i \in DOMAIN gs :
       /\ gs[i].from < v.since + PeriodMs
       /\ gs[i].from >= v.since => GivenSince(gs, i) <= v.level
       /\ gs[i].from > v.since - PeriodMs => GivenSince(gs, i) <= v.level + Limit

BucketCovers(gs, v) ==
  /\ v.level <= Scaled(Limit)
  /\ \A i \in DOMAIN gs :
       /\ gs[i].from <= v.since
       /\ Scaled(GivenSince(gs, i)) + v.level <= Scaled(Limit) + Refill(v.since - gs[i].from)

(* Without an entry the window is over by then, and the bucket full again.    *)
WindowIsOver(gs, at) ==
  \A i \in DOMAIN gs :
    /\ gs[i].from < at
    /\ gs[i].from > at - PeriodMs => GivenSince(gs, i) <= Limit

BucketIsFull(gs, at) ==
  \A i \in DOMAIN gs :
    /\ gs[i].from <= at
    /\ Scaled(GivenSince(gs, i)) <= Refill(at - gs[i].from)

Covers(v) == IF limiter = "window" THEN WindowCovers(grants, v) ELSE BucketCovers(grants, v)
IsOver == IF limiter = "window" THEN WindowIsOver(grants, now) ELSE BucketIsFull(grants, now)

EntryCovers ==
  IF entry = None THEN IsOver
  ELSE /\ Covers(entry)
       /\ entry.since <= now
       /\ entry.expiresAt >= entry.since + (IF limiter = "window" THEN PeriodMs ELSE RefillMs)

(* A call decides on a state that covers the grants as the entry did.         *)
DeciderCovers ==
  \A c \in Calls : pc[c] = "decide" =>
    /\ Covers(state[c])
    /\ clock[c] <= now
    /\ IF limiter = "window"
       THEN state[c].since <= clock[c] /\ clock[c] < state[c].since + PeriodMs
       ELSE state[c].since = clock[c]

(* Grants of one sequence are numbers, and the sequence grows at its end.     *)
LEMMA GrantsAreNat ==
  ASSUME NEW gs \in Seq(GrantRecord), NEW i \in DOMAIN gs
  PROVE  /\ gs[i].from \in Nat /\ gs[i].to \in Nat /\ gs[i].before \in Nat /\ gs[i].units \in Nat
         /\ GivenSince(gs, i) \in Int
<1>1. gs[i] \in GrantRecord
  OBVIOUS
<1>2. gs[i].from \in Nat /\ gs[i].to \in Nat /\ gs[i].before \in Nat /\ gs[i].units \in Nat
  BY <1>1, LimiterAssumption DEF GrantRecord
<1>. QED
  BY <1>2, UnitsInIsNat DEF GivenSince

LEMMA GrantsGrow ==
  ASSUME NEW gs \in Seq(GrantRecord), NEW g \in GrantRecord, g.before = UnitsIn(gs)
  PROVE  /\ Append(gs, g) \in Seq(GrantRecord)
         /\ \A i \in DOMAIN gs :
              /\ i \in DOMAIN Append(gs, g) /\ Append(gs, g)[i] = gs[i]
              /\ GivenSince(Append(gs, g), i) = GivenSince(gs, i) + g.units
         /\ \A i \in DOMAIN Append(gs, g) : i \in DOMAIN gs \/ i = Len(gs) + 1
         /\ Append(gs, g)[Len(gs) + 1] = g
         /\ GivenSince(Append(gs, g), Len(gs) + 1) = g.units
<1> DEFINE hs == Append(gs, g)
<1>1. /\ hs \in Seq(GrantRecord) /\ Len(hs) = Len(gs) + 1 /\ hs # <<>>
      /\ hs[Len(gs) + 1] = g
      /\ \A i \in DOMAIN gs : i \in DOMAIN hs /\ hs[i] = gs[i]
      /\ \A i \in DOMAIN hs : i \in DOMAIN gs \/ i = Len(gs) + 1
  OBVIOUS
<1>2. g.units \in Nat /\ UnitsIn(gs) \in Nat
  BY UnitsInIsNat, LimiterAssumption DEF GrantRecord
<1>3. Last(hs) = g
  BY <1>1 DEF Last
<1>. HIDE DEF hs
<1>4. UnitsIn(hs) = UnitsIn(gs) + g.units
  BY <1>1, <1>3 DEF UnitsIn
<1>5. \A i \in DOMAIN gs : GivenSince(hs, i) = GivenSince(gs, i) + g.units
  <2>. SUFFICES ASSUME NEW i \in DOMAIN gs PROVE GivenSince(hs, i) = GivenSince(gs, i) + g.units
    OBVIOUS
  <2>1. gs[i].before \in Nat
    BY GrantsAreNat
  <2>. QED
    BY <1>1, <1>2, <1>4, <2>1 DEF GivenSince
<1>6. GivenSince(hs, Len(gs) + 1) = g.units
  BY <1>1, <1>2, <1>4 DEF GivenSince
<1>. QED
  BY <1>1, <1>5, <1>6 DEF hs

(* A window or bucket that covers the grants keeps the newest grant within    *)
(* the budget of every time that ends with it.                               *)
LEMMA WindowBudget ==
  ASSUME NEW gs \in Seq(GrantRecord), NEW v \in State, WindowCovers(gs, v),
         NEW i \in DOMAIN gs, NEW to \in Nat, v.since <= to, to - gs[i].from < PeriodMs
  PROVE  GivenSince(gs, i) <= 2 * Limit
<1>1. /\ gs[i].from \in Nat /\ GivenSince(gs, i) \in Int /\ PeriodMs \in Nat /\ Limit \in Nat
      /\ v.level \in Nat /\ v.since \in Nat
  BY GrantsAreNat, LimiterAssumption DEF State
<1>2. gs[i].from > v.since - PeriodMs
  BY <1>1
<1>. QED
  BY <1>1, <1>2 DEF WindowCovers

LEMMA BucketBudget ==
  ASSUME NEW gs \in Seq(GrantRecord), NEW v \in State, BucketCovers(gs, v),
         NEW i \in DOMAIN gs, NEW to \in Nat, v.since <= to
  PROVE  Scaled(GivenSince(gs, i)) <= Scaled(Limit) + Refill(to - gs[i].from)
<1>1. gs[i].from \in Nat /\ GivenSince(gs, i) \in Int /\ v.level \in Nat /\ v.since \in Nat
  BY GrantsAreNat DEF State
<1>2. Refill(v.since - gs[i].from) <= Refill(to - gs[i].from)
  BY <1>1, RefillGrows
<1>3. Scaled(GivenSince(gs, i)) \in Int /\ Scaled(Limit) \in Int
  BY <1>1, LimiterAssumption DEF Scaled
<1>4. Refill(v.since - gs[i].from) \in Int /\ Refill(to - gs[i].from) \in Int
  BY <1>1, LimiterAssumption DEF Refill
<1>5. Scaled(GivenSince(gs, i)) + v.level <= Scaled(Limit) + Refill(v.since - gs[i].from)
  BY DEF BucketCovers
<1>. QED
  BY <1>1, <1>2, <1>3, <1>4, <1>5

LEMMA FullByThen ==
  ASSUME NEW given \in Int, NEW level \in Nat, NEW since \in Int, NEW from \in Int, NEW at \in Int,
         since + RefillMs <= at, given + level <= Scaled(Limit) + Refill(since - from)
  PROVE  given <= Refill(at - from)
<1> DEFINE x == since - from
           y == at - from
<1>1. Scaled(Limit) \in Nat /\ RefillMs \in Nat /\ Scaled(Limit) <= Refill(RefillMs)
  BY ScaledIsNat, RefillTakesLong, WaitRefills, LimiterAssumption DEF RefillMs
<1>2. x \in Int /\ y \in Int /\ x + RefillMs <= y
  BY <1>1
<1>. HIDE DEF x, y
<1>3. Refill(x + RefillMs) = Refill(x) + Refill(RefillMs)
  BY <1>1, <1>2, RefillAdds
<1>4. Refill(x) \in Int /\ Refill(y) \in Int /\ Refill(RefillMs) \in Int
  BY <1>1, <1>2, RefillIsInt
<1>5. Refill(x + RefillMs) <= Refill(y)
  BY <1>1, <1>2, RefillGrows
<1>6. given <= Refill(y)
  BY <1>1, <1>3, <1>4, <1>5 DEF x
<1>. QED
  BY <1>6 DEF y

(* Looking: an entry that expired leaves nothing to cover, and the window or  *)
(* bucket that is made of an entry covers what the entry did.                *)
LEMMA ExpiryIsOver ==
  ASSUME NEW gs \in Seq(GrantRecord), NEW v \in Entry, NEW at \in Nat, v.since <= at
  PROVE  /\ WindowCovers(gs, v) /\ v.since + PeriodMs <= at => WindowIsOver(gs, at)
         /\ BucketCovers(gs, v) /\ v.since + RefillMs <= at => BucketIsFull(gs, at)
<1>1. v.level \in Nat /\ v.since \in Nat /\ PeriodMs \in Nat /\ Limit \in Nat
  BY LimiterAssumption DEF Entry
<1>2. ASSUME WindowCovers(gs, v), v.since + PeriodMs <= at PROVE WindowIsOver(gs, at)
  <2>. SUFFICES ASSUME NEW i \in DOMAIN gs
                PROVE  /\ gs[i].from < at
                       /\ gs[i].from > at - PeriodMs => GivenSince(gs, i) <= Limit
    BY DEF WindowIsOver
  <2>1. gs[i].from \in Nat /\ GivenSince(gs, i) \in Int
    BY GrantsAreNat
  <2>. QED
    BY <1>1, <1>2, <2>1 DEF WindowCovers
<1>3. ASSUME BucketCovers(gs, v), v.since + RefillMs <= at PROVE BucketIsFull(gs, at)
  <2>. SUFFICES ASSUME NEW i \in DOMAIN gs
                PROVE  /\ gs[i].from <= at
                       /\ Scaled(GivenSince(gs, i)) <= Refill(at - gs[i].from)
    BY DEF BucketIsFull
  <2>1. gs[i].from \in Nat /\ GivenSince(gs, i) \in Int
    BY GrantsAreNat
  <2>2. Scaled(GivenSince(gs, i)) \in Int /\ RefillMs \in Nat
    BY <1>1, <2>1, ScaledIsInt, RefillTakesLong
  <2>3. /\ gs[i].from <= v.since
        /\ Scaled(GivenSince(gs, i)) + v.level <= Scaled(Limit) + Refill(v.since - gs[i].from)
    BY <1>3 DEF BucketCovers
  <2>4. Scaled(GivenSince(gs, i)) <= Refill(at - gs[i].from)
    <3> DEFINE given == Scaled(GivenSince(gs, i))
               from == gs[i].from
               level == v.level
               since == v.since
    <3>1. /\ given \in Int /\ level \in Nat /\ since \in Int /\ from \in Int /\ at \in Int
          /\ since + RefillMs <= at /\ given + level <= Scaled(Limit) + Refill(since - from)
      BY <1>1, <1>3, <2>1, <2>2, <2>3
    <3>. HIDE DEF given, from, level, since
    <3>2. given <= Refill(at - from)
      BY <3>1, FullByThen
    <3>. QED
      BY <3>2 DEF given, from
  <2>. QED
    BY <1>1, <2>1, <2>3, <2>4
<1>. QED
  BY <1>2, <1>3

LEMMA FreshCovers ==
  ASSUME NEW gs \in Seq(GrantRecord), NEW at \in Nat
  PROVE  /\ WindowIsOver(gs, at) => WindowCovers(gs, Window(None, at))
         /\ BucketIsFull(gs, at) => BucketCovers(gs, Bucket(None, at))
<1>1. PeriodMs \in Nat /\ Limit \in Nat /\ Scaled(Limit) \in Nat
  BY ScaledIsNat, LimiterAssumption
<1>2. ASSUME WindowIsOver(gs, at) PROVE WindowCovers(gs, Window(None, at))
  <2>. SUFFICES ASSUME NEW i \in DOMAIN gs
                PROVE  /\ gs[i].from < at + PeriodMs
                       /\ gs[i].from >= at => GivenSince(gs, i) <= 0
                       /\ gs[i].from > at - PeriodMs => GivenSince(gs, i) <= 0 + Limit
    BY <1>1 DEF WindowCovers, Window
  <2>1. gs[i].from \in Nat /\ GivenSince(gs, i) \in Int
    BY GrantsAreNat
  <2>. QED
    BY <1>1, <1>2, <2>1 DEF WindowIsOver
<1>3. ASSUME BucketIsFull(gs, at) PROVE BucketCovers(gs, Bucket(None, at))
  <2>. SUFFICES ASSUME NEW i \in DOMAIN gs
                PROVE  /\ gs[i].from <= at
                       /\ Scaled(GivenSince(gs, i)) + Scaled(Limit)
                            <= Scaled(Limit) + Refill(at - gs[i].from)
    BY <1>1 DEF BucketCovers, Bucket
  <2>1. gs[i].from \in Nat /\ GivenSince(gs, i) \in Int
    BY GrantsAreNat
  <2>2. Refill(at - gs[i].from) \in Int /\ Scaled(GivenSince(gs, i)) \in Int
    BY <2>1, LimiterAssumption DEF Refill, Scaled
  <2>. QED
    BY <1>1, <1>3, <2>1, <2>2 DEF BucketIsFull
<1>. QED
  BY <1>2, <1>3

LEMMA OpenCovers ==
  ASSUME NEW gs \in Seq(GrantRecord), NEW v \in Entry, v # None, NEW at \in Nat, v.since <= at
  PROVE  /\ WindowCovers(gs, v) => WindowCovers(gs, Window(v, at))
         /\ BucketCovers(gs, v) => BucketCovers(gs, Bucket(v, at))
<1>1. v.level \in Nat /\ v.since \in Nat /\ PeriodMs \in Nat /\ Limit \in Nat /\ v # None
      /\ Scaled(Limit) \in Nat
  BY ScaledIsNat, LimiterAssumption DEF Entry
<1>2. ASSUME WindowCovers(gs, v) PROVE WindowCovers(gs, Window(v, at))
  <2>1. CASE at - v.since >= PeriodMs
    <3>1. v.since + PeriodMs <= at
      BY <1>1, <2>1
    <3>2. Window(v, at) = Window(None, at)
      BY <1>1, <2>1 DEF Window
    <3>. QED
      BY <1>2, <3>1, <3>2, ExpiryIsOver, FreshCovers
  <2>2. CASE ~(at - v.since >= PeriodMs)
    BY <1>1, <1>2, <2>2 DEF Window, WindowCovers
  <2>. QED
    BY <2>1, <2>2
<1>3. ASSUME BucketCovers(gs, v) PROVE BucketCovers(gs, Bucket(v, at))
  <2> DEFINE d == at - v.since
             w == Bucket(v, at)
  <2>1. d \in Nat /\ Greatest(0, d) = d /\ Refill(d) \in Int
    BY <1>1, LimiterAssumption DEF Greatest, Refill
  <2>2. w.since = at /\ w.level = Least(Scaled(Limit), v.level + Refill(d))
    BY <1>1, <2>1 DEF Bucket
  <2>3. w.level \in Int /\ w.level <= Scaled(Limit) /\ w.level <= v.level + Refill(d)
    BY <1>1, <2>1, <2>2 DEF Least
  <2>. HIDE DEF w
  <2>. SUFFICES ASSUME NEW i \in DOMAIN gs
                PROVE  /\ gs[i].from <= at
                       /\ Scaled(GivenSince(gs, i)) + w.level
                            <= Scaled(Limit) + Refill(at - gs[i].from)
    BY <2>2, <2>3 DEF BucketCovers, w
  <2> DEFINE x == v.since - gs[i].from
  <2>4. gs[i].from \in Nat /\ GivenSince(gs, i) \in Int /\ x \in Int
    BY <1>1, GrantsAreNat
  <2>5. at - gs[i].from = x + d
    BY <1>1, <2>4
  <2>6. gs[i].from <= v.since /\ Scaled(GivenSince(gs, i)) + v.level <= Scaled(Limit) + Refill(x)
    BY <1>3 DEF BucketCovers
  <2>7. gs[i].from <= at
    BY <1>1, <2>4, <2>6
  <2>8. Scaled(GivenSince(gs, i)) \in Int
    BY <2>4, LimiterAssumption DEF Scaled
  <2>. HIDE DEF d, x
  <2>9. Refill(x + d) = Refill(x) + Refill(d) /\ Refill(x) \in Int /\ Refill(d) \in Int
    BY <2>1, <2>4, RefillAdds, LimiterAssumption DEF Refill
  <2> DEFINE given == Scaled(GivenSince(gs, i))
             before == Refill(x)
             since == Refill(d)
  <2>10. given \in Int /\ before \in Int /\ since \in Int
         /\ given + v.level <= Scaled(Limit) + before /\ w.level <= v.level + since
    BY <2>3, <2>6, <2>8, <2>9
  <2>. HIDE DEF given, before, since
  <2>11. given + w.level <= Scaled(Limit) + (before + since)
    BY <1>1, <2>3, <2>10
  <2>. QED
    BY <2>5, <2>7, <2>9, <2>11 DEF given, before, since
<1>. QED
  BY <1>2, <1>3

(* Charging: units taken keep what was covered, whether they are granted or   *)
(* the answer is lost.                                                       *)
LEMMA ChargeCovers ==
  ASSUME NEW gs \in Seq(GrantRecord), NEW v \in State, NEW w \in State, NEW u \in Costs,
         w.since = v.since
  PROVE  /\ WindowCovers(gs, v) /\ w.level = v.level + u /\ w.level <= Limit
              => WindowCovers(gs, w)
         /\ BucketCovers(gs, v) /\ w.level = v.level - Scaled(u)
              => BucketCovers(gs, w)
<1>1. /\ v.level \in Nat /\ v.since \in Nat /\ w.level \in Nat /\ u \in Nat
      /\ PeriodMs \in Nat /\ Limit \in Nat
  BY LimiterAssumption DEF State
<1>2. ASSUME WindowCovers(gs, v), w.level = v.level + u, w.level <= Limit
      PROVE  WindowCovers(gs, w)
  <2>1. \A i \in DOMAIN gs : gs[i].from \in Nat /\ GivenSince(gs, i) \in Int
    BY GrantsAreNat
  <2>. QED
    BY <1>1, <1>2, <2>1 DEF WindowCovers
<1>3. ASSUME BucketCovers(gs, v), w.level = v.level - Scaled(u)
      PROVE  BucketCovers(gs, w)
  <2>1. Scaled(u) \in Nat /\ Scaled(Limit) \in Nat
    BY <1>1, ScaledIsNat
  <2>2. w.level <= Scaled(Limit)
    BY <1>1, <1>3, <2>1 DEF BucketCovers
  <2>3. ASSUME NEW i \in DOMAIN gs
        PROVE  /\ gs[i].from <= w.since
               /\ Scaled(GivenSince(gs, i)) + w.level <= Scaled(Limit) + Refill(w.since - gs[i].from)
    <3>1. gs[i].from \in Nat /\ GivenSince(gs, i) \in Int
      BY GrantsAreNat
    <3>2. Scaled(GivenSince(gs, i)) \in Int /\ Refill(v.since - gs[i].from) \in Int
      BY <1>1, <3>1, LimiterAssumption DEF Refill, Scaled
    <3>3. /\ gs[i].from <= v.since
          /\ Scaled(GivenSince(gs, i)) + v.level <= Scaled(Limit) + Refill(v.since - gs[i].from)
      BY <1>3 DEF BucketCovers
    <3>. QED
      BY <1>1, <1>3, <2>1, <3>2, <3>3
  <2>. QED
    BY <2>2, <2>3 DEF BucketCovers
<1>. QED
  BY <1>2, <1>3

LEMMA GrantCovers ==
  ASSUME NEW gs \in Seq(GrantRecord), NEW v \in State, NEW w \in State,
         w.since = v.since, NEW g \in GrantRecord, g.before = UnitsIn(gs)
  PROVE  /\ /\ WindowCovers(gs, v) /\ w.level = v.level + g.units /\ w.level <= Limit
            /\ v.since <= g.from /\ g.from < v.since + PeriodMs
            => WindowCovers(Append(gs, g), w)
         /\ /\ BucketCovers(gs, v) /\ w.level = v.level - Scaled(g.units)
            /\ g.from = v.since
            => BucketCovers(Append(gs, g), w)
<1> DEFINE hs == Append(gs, g)
           n == Len(gs) + 1
<1>1. /\ v.level \in Nat /\ v.since \in Nat /\ w.level \in Nat
      /\ g.units \in Nat /\ g.from \in Nat
      /\ PeriodMs \in Nat /\ Limit \in Nat
  BY LimiterAssumption DEF State, GrantRecord
<1>2. /\ \A i \in DOMAIN hs : i \in DOMAIN gs \/ i = n
      /\ \A i \in DOMAIN gs : hs[i] = gs[i] /\ GivenSince(hs, i) = GivenSince(gs, i) + g.units
      /\ hs[n] = g /\ GivenSince(hs, n) = g.units
  BY GrantsGrow
<1>3. \A i \in DOMAIN gs : gs[i].from \in Nat /\ GivenSince(gs, i) \in Int
  BY GrantsAreNat
<1>. HIDE DEF hs, n
<1>4. ASSUME WindowCovers(gs, v), w.level = v.level + g.units, w.level <= Limit,
             v.since <= g.from, g.from < v.since + PeriodMs
      PROVE  WindowCovers(hs, w)
  <2>. SUFFICES ASSUME NEW i \in DOMAIN hs
                PROVE  /\ hs[i].from < w.since + PeriodMs
                       /\ hs[i].from >= w.since => GivenSince(hs, i) <= w.level
                       /\ hs[i].from > w.since - PeriodMs => GivenSince(hs, i) <= w.level + Limit
    BY <1>4 DEF WindowCovers
  <2>1. CASE i \in DOMAIN gs
    <3>1. /\ gs[i].from < v.since + PeriodMs
          /\ gs[i].from >= v.since => GivenSince(gs, i) <= v.level
          /\ gs[i].from > v.since - PeriodMs => GivenSince(gs, i) <= v.level + Limit
      BY <1>4, <2>1 DEF WindowCovers
    <3>2. hs[i].from = gs[i].from /\ GivenSince(hs, i) = GivenSince(gs, i) + g.units
      BY <1>2, <2>1
    <3>3. gs[i].from \in Nat /\ GivenSince(gs, i) \in Int
      BY <1>3, <2>1
    <3>. QED
      BY <1>1, <1>4, <3>1, <3>2, <3>3
  <2>2. CASE i = n
    BY <1>1, <1>2, <1>4, <2>2
  <2>. QED
    BY <1>2, <2>1, <2>2
<1>5. ASSUME BucketCovers(gs, v), w.level = v.level - Scaled(g.units), g.from = v.since
      PROVE  BucketCovers(hs, w)
  <2>1. Scaled(g.units) \in Nat /\ Scaled(Limit) \in Nat
    BY <1>1, ScaledIsNat
  <2>2. w.level <= Scaled(Limit)
    BY <1>1, <1>5, <2>1 DEF BucketCovers
  <2>. SUFFICES ASSUME NEW i \in DOMAIN hs
                PROVE  /\ hs[i].from <= w.since
                       /\ Scaled(GivenSince(hs, i)) + w.level
                            <= Scaled(Limit) + Refill(w.since - hs[i].from)
    BY <2>2 DEF BucketCovers
  <2>3. CASE i \in DOMAIN gs
    <3>0. /\ GivenSince(hs, i) = GivenSince(gs, i) + g.units
          /\ GivenSince(gs, i) \in Int /\ g.units \in Int
      BY <1>1, <1>2, <1>3, <2>3
    <3>1. Scaled(GivenSince(hs, i)) = Scaled(GivenSince(gs, i)) + Scaled(g.units)
      BY <3>0, ScaledAdds
    <3>2. Scaled(GivenSince(gs, i)) \in Int /\ Refill(v.since - gs[i].from) \in Int
      BY <1>1, <1>3, <2>3, LimiterAssumption DEF Refill, Scaled
    <3>3. /\ gs[i].from <= v.since
          /\ Scaled(GivenSince(gs, i)) + v.level <= Scaled(Limit) + Refill(v.since - gs[i].from)
      BY <1>5, <2>3 DEF BucketCovers
    <3>. QED
      BY <1>1, <1>2, <1>5, <2>1, <2>3, <3>1, <3>2, <3>3
  <2>4. CASE i = n
    <3>1. w.since - hs[i].from = 0 /\ Refill(0) = 0
      BY <1>1, <1>2, <1>5, <2>4, LimiterAssumption DEF Refill
    <3>2. Scaled(g.units) + w.level <= Scaled(Limit)
      BY <1>1, <1>5, <2>1 DEF BucketCovers
    <3>. QED
      BY <1>1, <1>2, <1>5, <2>1, <2>4, <3>1, <3>2
  <2>. QED
    BY <1>2, <2>3, <2>4
<1>. QED
  BY <1>4, <1>5 DEF hs

LEMMA TimePasses ==
  ASSUME NEW gs \in Seq(GrantRecord), NEW at \in Nat, NEW to \in Nat, at <= to
  PROVE  /\ WindowIsOver(gs, at) => WindowIsOver(gs, to)
         /\ BucketIsFull(gs, at) => BucketIsFull(gs, to)
<1>1. ASSUME WindowIsOver(gs, at) PROVE WindowIsOver(gs, to)
  <2>1. \A i \in DOMAIN gs : gs[i].from \in Nat /\ GivenSince(gs, i) \in Int
    BY GrantsAreNat
  <2>. QED
    BY <1>1, <2>1, LimiterAssumption DEF WindowIsOver
<1>2. ASSUME BucketIsFull(gs, at) PROVE BucketIsFull(gs, to)
  <2>. SUFFICES ASSUME NEW i \in DOMAIN gs
                PROVE  /\ gs[i].from <= to
                       /\ Scaled(GivenSince(gs, i)) <= Refill(to - gs[i].from)
    BY DEF BucketIsFull
  <2> DEFINE x == at - gs[i].from
             y == to - gs[i].from
  <2>1. gs[i].from \in Nat /\ GivenSince(gs, i) \in Int
    BY GrantsAreNat
  <2>2. x \in Int /\ y \in Int /\ x <= y
    BY <2>1
  <2>3. gs[i].from <= at /\ Scaled(GivenSince(gs, i)) <= Refill(x)
    BY <1>2 DEF BucketIsFull
  <2>4. Scaled(GivenSince(gs, i)) \in Int
    BY <2>1, ScaledIsInt
  <2>5. gs[i].from <= to
    BY <2>1, <2>3
  <2>. HIDE DEF x, y
  <2>6. Refill(x) <= Refill(y) /\ Refill(x) \in Int /\ Refill(y) \in Int
    BY <2>2, RefillGrows, RefillIsInt
  <2>7. Scaled(GivenSince(gs, i)) <= Refill(y)
    BY <2>3, <2>4, <2>6
  <2>. QED
    BY <2>5, <2>7 DEF y
<1>. QED
  BY <1>1, <1>2

(* What a call finds: nothing, when the entry expired, or the entry; and what *)
(* it makes of it.                                                           *)
Found == IF entry # None /\ now >= entry.expiresAt THEN None ELSE entry

LEMMA FoundCovers ==
  ASSUME StoreTyped, EntryCovers
  PROVE  /\ Found \in Entry \cup {None}
         /\ Found = None => IsOver
         /\ Found # None => Found = entry
         /\ Covers(Evaluate(Found, now))
         /\ IF limiter = "window"
            THEN /\ Evaluate(Found, now).since <= now
                 /\ now < Evaluate(Found, now).since + PeriodMs
            ELSE Evaluate(Found, now).since = now
<1>1. /\ now \in Nat /\ grants \in Seq(GrantRecord) /\ entry \in Entry \cup {None}
      /\ PeriodMs \in Nat \ {0} /\ RefillMs \in Nat
  BY RefillTakesLong, LimiterAssumption DEF StoreTyped
<1>2. CASE entry # None /\ now >= entry.expiresAt
  <2>1. /\ entry \in Entry /\ entry.since \in Nat /\ entry.expiresAt \in Nat
        /\ entry.since <= now /\ Covers(entry)
        /\ entry.since + (IF limiter = "window" THEN PeriodMs ELSE RefillMs) <= now
    BY <1>1, <1>2 DEF EntryCovers, Entry
  <2>2. IsOver
    BY <1>1, <2>1, ExpiryIsOver DEF Covers, IsOver
  <2>3. Found = None
    BY <1>2 DEF Found
  <2>4. Covers(Evaluate(Found, now))
    BY <1>1, <2>2, <2>3, FreshCovers DEF IsOver, Covers, Evaluate
  <2>. QED
    BY <1>1, <2>2, <2>3, <2>4 DEF Evaluate, Window, Bucket
<1>3. CASE entry = None
  <2>1. IsOver /\ Found = None
    BY <1>3 DEF EntryCovers, Found
  <2>2. Covers(Evaluate(Found, now))
    BY <1>1, <2>1, FreshCovers DEF IsOver, Covers, Evaluate
  <2>. QED
    BY <1>1, <2>1, <2>2 DEF Evaluate, Window, Bucket
<1>4. CASE entry # None /\ ~(now >= entry.expiresAt)
  <2>1. Found = entry /\ entry \in Entry /\ entry.since \in Nat /\ entry.since <= now /\ Covers(entry)
    BY <1>1, <1>4 DEF Found, EntryCovers, Entry
  <2>2. Covers(Evaluate(entry, now))
    BY <1>1, <1>4, <2>1, OpenCovers DEF Covers, Evaluate
  <2>3. IF limiter = "window"
        THEN Evaluate(entry, now).since <= now /\ now < Evaluate(entry, now).since + PeriodMs
        ELSE Evaluate(entry, now).since = now
    BY <1>1, <1>4, <2>1 DEF Evaluate, Window, Bucket
  <2>. QED
    BY <1>1, <1>4, <2>1, <2>2, <2>3
<1>. QED
  BY <1>2, <1>3, <1>4

(* What a body writes expires no sooner than what it says is over.            *)
LEMMA WrittenExpires ==
  ASSUME now \in Nat, NEW s \in State, NEW at \in Nat, at <= now,
         limiter # "window" => s.since = at, NEW e \in Written(s, at)
  PROVE  /\ e \in Entry
         /\ e.level = s.level /\ e.since = s.since
         /\ e.expiresAt >= s.since + (IF limiter = "window" THEN PeriodMs ELSE RefillMs)
<1>1. s.since \in Nat /\ PeriodMs \in Nat /\ RefillMs \in Nat
  BY RefillTakesLong, LimiterAssumption DEF State
<1>2. e \in Entry
  BY WrittenIsEntry
<1>3. PICK ttl \in TtlMs(s, at) :
        e = [level |-> s.level, since |-> s.since, rounded |-> s.rounded, expiresAt |-> now + ttl]
  BY DEF Written
<1>4. limiter = "window" => ttl \in Nat /\ ttl >= s.since + PeriodMs - at
  BY <1>1, <1>3 DEF TtlMs, Greatest
<1>5. limiter # "window" => ttl \in Nat /\ ttl >= RefillMs
  BY <1>3, RefillTakesLong DEF TtlMs
<1>. QED
  BY <1>1, <1>2, <1>3, <1>4, <1>5

(* While one body runs no other call decides.                                 *)
LEMMA SettleEndsBody ==
  ASSUME MutexInv, NEW c \in Calls, InBody(c), Settle(c)
  PROVE  \A d \in Calls : pc'[d] # "decide"
<1>1. \A d \in Calls : d # c => pc[d] # "decide"
  BY MutexExcludes DEF Exclusive, InBody
<1>. QED
  BY <1>1 DEF Settle, MutexInv

BudgetInv == EntryCovers /\ DeciderCovers /\ WithinBudget

(* Most steps grant nothing, and leave the limiter alone.                     *)
LEMMA BudgetStays ==
  ASSUME WithinBudget, UNCHANGED <<limiter, grants>> PROVE WithinBudget'
BY DEF WithinBudget, Granted

LEMMA NothingGranted == grants' = <<>> => WithinBudget' /\ IsOver'
BY DEF WithinBudget, IsOver, WindowIsOver, BucketIsFull

(* An entry is as good as the state it is written from.                       *)
LEMMA WriteCovers ==
  ASSUME StoreTyped, NEW s \in State, Covers(s), s.since <= now,
         NEW at \in Nat, at <= now, limiter # "window" => s.since = at,
         entry' \in Written(s, at), UNCHANGED <<limiter, now, grants>>
  PROVE  EntryCovers'
<1> DEFINE e == entry'
<1>1. /\ e \in Entry /\ e.level = s.level /\ e.since = s.since
      /\ e.expiresAt >= s.since + (IF limiter = "window" THEN PeriodMs ELSE RefillMs)
  BY WrittenExpires DEF StoreTyped
<1>. HIDE DEF e
<1>2. Covers(e)
  BY <1>1 DEF Covers, WindowCovers, BucketCovers
<1>3. e # None
  BY <1>1, LimiterAssumption
<1>. QED
  BY <1>1, <1>2, <1>3 DEF EntryCovers, Covers, e

LEMMA LookKeepsBudget ==
  ASSUME CallsTyped, StoreTyped, MutexInv, BudgetInv, NEW c \in Calls, Look(c)
  PROVE  BudgetInv'
<1>1. entry' = Found /\ UNCHANGED <<limiter, now, grants, promise>>
  BY DEF Look, Found
<1>2. WithinBudget'
  BY <1>1, BudgetStays DEF BudgetInv
<1>3. EntryCovers'
  <2>1. CASE Found = None
    <3>1. IsOver
      BY <2>1, FoundCovers DEF BudgetInv
    <3>. QED
      BY <1>1, <2>1, <3>1 DEF EntryCovers, IsOver
  <2>2. CASE Found # None
    <3>1. Found = entry
      BY <2>2 DEF Found
    <3>. QED
      BY <1>1, <2>2, <3>1 DEF BudgetInv, EntryCovers, Covers
  <2>. QED
    BY <2>1, <2>2
<1>4. DeciderCovers'
  <2>1. InBody(c)
    BY DEF Look, InBody
  <2>2. CASE op[c].kind = "peek"
    <3>1. \A d \in Calls : pc'[d] # "decide"
      BY <2>1, <2>2, SettleEndsBody DEF Look
    <3>. QED
      BY <3>1 DEF DeciderCovers
  <2>3. CASE op[c].kind # "peek"
    <3>1. /\ clock' = [clock EXCEPT ![c] = now]
          /\ state' = [state EXCEPT ![c] = Evaluate(Found, now)]
          /\ pc' = [pc EXCEPT ![c] = "decide"]
      BY <1>1, <2>3 DEF Look
    <3>2. \A d \in Calls : d # c => pc[d] # "decide"
      BY <2>1, MutexExcludes DEF Exclusive, InBody
    <3>3. \A d \in Calls : pc'[d] = "decide" => d = c
      BY <3>1, <3>2 DEF CallsTyped
    <3>4. clock'[c] = now /\ state'[c] = Evaluate(Found, now)
      BY <3>1 DEF CallsTyped
    <3>5. now \in Nat /\ Covers(Evaluate(Found, now))
      BY FoundCovers DEF BudgetInv, StoreTyped
    <3>6. (Covers(state[c]))'
      BY <1>1, <3>4, <3>5 DEF Covers
    <3>7. clock'[c] <= now'
      BY <1>1, <3>4, <3>5
    <3>8. (IF limiter = "window"
           THEN state[c].since <= clock[c] /\ clock[c] < state[c].since + PeriodMs
           ELSE state[c].since = clock[c])'
      BY <1>1, <3>4, FoundCovers DEF BudgetInv
    <3>. QED
      BY <3>3, <3>6, <3>7, <3>8 DEF DeciderCovers
  <2>. QED
    BY <2>2, <2>3
<1>. QED
  BY <1>2, <1>3, <1>4 DEF BudgetInv

(* What a call that decides knows.                                            *)
LEMMA DeciderKnows ==
  ASSUME CallsTyped, StoreTyped, DeciderCovers, NEW c \in Calls, pc[c] = "decide"
  PROVE  /\ op[c].units \in Costs /\ state[c] \in State /\ clock[c] \in Nat /\ now \in Nat
         /\ clock[c] <= now /\ state[c].since <= now
         /\ Covers(state[c])
         /\ limiter = "window" => /\ state[c].since <= clock[c]
                                  /\ clock[c] < state[c].since + PeriodMs
         /\ limiter # "window" => state[c].since = clock[c]
<1>1. op[c].units \in Costs /\ state[c] \in State /\ clock[c] \in Nat /\ now \in Nat
  BY DEF CallsTyped, StoreTyped
<1>2. state[c].since \in Nat
  BY <1>1 DEF State
<1>. QED
  BY <1>1, <1>2 DEF DeciderCovers

LEMMA ChargeOf ==
  ASSUME NEW s \in State, NEW u \in Costs, Suffices(s, u)
  PROVE  /\ Charged(s, u) \in State
         /\ Charged(s, u).since = s.since
         /\ limiter = "window" => /\ Charged(s, u).level = s.level + u
                                  /\ Charged(s, u).level <= Limit
         /\ limiter # "window" => Charged(s, u).level = s.level - Scaled(u)
<1>1. s.level \in Nat /\ u \in Nat
  BY LimiterAssumption DEF State
<1>. QED
  BY <1>1, ChargedIsState DEF Charged, Suffices, State

LEMMA GrantKeepsBudget ==
  ASSUME CallsTyped, StoreTyped, MutexInv, BudgetInv, NEW c \in Calls, Grant(c)
  PROVE  BudgetInv'
<1> DEFINE u == op[c].units
           s == state[c]
           w == Charged(s, u)
           e == entry'
           g == [from |-> clock[c], to |-> now, before |-> UnitsIn(grants), units |-> u]
           n == Len(grants) + 1
<1>1. /\ pc[c] = "decide" /\ Suffices(s, u) /\ e \in Written(w, clock[c])
      /\ entry' = e /\ grants' = Append(grants, g)
      /\ Settle(c) /\ UNCHANGED <<limiter, now>>
  BY DEF Grant, MayGrant, AfterGrant
<1>2. /\ u \in Costs /\ s \in State /\ clock[c] \in Nat /\ now \in Nat
      /\ clock[c] <= now /\ s.since <= now
      /\ Covers(s)
      /\ limiter = "window" => s.since <= clock[c] /\ clock[c] < s.since + PeriodMs
      /\ limiter # "window" => s.since = clock[c]
  BY <1>1, DeciderKnows DEF BudgetInv
<1>3. grants \in Seq(GrantRecord) /\ entry \in Entry \cup {None}
  BY DEF StoreTyped
<1>4. g \in GrantRecord /\ g.before = UnitsIn(grants) /\ g.units = u /\ g.from = clock[c] /\ g.to = now
  BY <1>2, <1>3, UnitsInIsNat DEF GrantRecord
<1>5. /\ w \in State /\ w.since = s.since
      /\ limiter = "window" => w.level = s.level + u /\ w.level <= Limit
      /\ limiter # "window" => w.level = s.level - Scaled(u)
  BY <1>1, <1>2, ChargeOf
<1>6. /\ e \in Entry /\ e.level = w.level /\ e.since = w.since
      /\ e.expiresAt >= w.since + (IF limiter = "window" THEN PeriodMs ELSE RefillMs)
  BY <1>1, <1>2, <1>5, WrittenExpires
<1>. HIDE DEF u, s, w, e, g
<1>7. IF limiter = "window" THEN WindowCovers(grants', w) ELSE BucketCovers(grants', w)
  BY <1>1, <1>2, <1>3, <1>4, <1>5, GrantCovers DEF Covers
<1>8. EntryCovers'
  <2>1. (Covers(entry))'
    BY <1>1, <1>6, <1>7 DEF Covers, WindowCovers, BucketCovers
  <2>2. entry' # None => (entry.since <= now)'
    BY <1>1, <1>2, <1>5, <1>6
  <2>3. (entry.expiresAt >= entry.since + (IF limiter = "window" THEN PeriodMs ELSE RefillMs))'
    BY <1>1, <1>6
  <2>4. entry' # None
    BY <1>1, <1>6, LimiterAssumption
  <2>. QED
    BY <2>1, <2>2, <2>3, <2>4 DEF EntryCovers
<1>9. DeciderCovers'
  <2>1. \A d \in Calls : pc'[d] # "decide"
    BY <1>1, SettleEndsBody DEF InBody
  <2>. QED
    BY <2>1 DEF DeciderCovers
<1>10. WithinBudget'
  <2>1. /\ grants' \in Seq(GrantRecord)
        /\ \A i \in DOMAIN grants : i \in DOMAIN grants' /\ grants'[i] = grants[i]
        /\ \A i \in DOMAIN grants' : i \in DOMAIN grants \/ i = n
        /\ grants'[n] = g
        /\ UnitsIn(grants') - grants'[n].before = g.units
    BY <1>1, <1>3, <1>4, GrantsGrow DEF GivenSince
  <2>. SUFFICES ASSUME NEW j \in DOMAIN grants', NEW i \in 1..j
                PROVE  LET elapsed == grants'[j].to - grants'[i].from
                       IN  IF limiter = "window"
                           THEN elapsed < PeriodMs => Granted(i, j)' <= 2 * Limit
                           ELSE Scaled(Granted(i, j)') <= Scaled(Limit) + Refill(elapsed)
    BY <1>1 DEF WithinBudget
  <2>2. CASE j \in DOMAIN grants
    <3>1. i \in DOMAIN grants /\ grants'[i] = grants[i] /\ grants'[j] = grants[j]
      BY <1>3, <2>1, <2>2
    <3>2. Granted(i, j)' = Granted(i, j)
      BY <3>1 DEF Granted
    <3>. QED
      BY <2>2, <3>1, <3>2 DEF BudgetInv, WithinBudget
  <2>3. CASE j = n
    <3>1. i \in DOMAIN grants'
      BY <2>1, <2>3
    <3>2. Granted(i, j)' = GivenSince(grants', i)
      <4>1. /\ UnitsIn(grants') \in Nat /\ UnitsIn(grants) \in Nat /\ g.units \in Nat
            /\ grants'[i].before \in Nat
        BY <1>2, <1>3, <1>4, <2>1, <3>1, UnitsInIsNat, GrantsAreNat, LimiterAssumption
      <4>2. UnitsIn(grants') = UnitsIn(grants) + g.units
        BY <1>4, <2>1, <4>1
      <4>. QED
        BY <1>4, <2>1, <2>3, <4>1, <4>2 DEF Granted, GivenSince
    <3>3. w \in State /\ w.since <= now /\ grants'[j].to = now
      BY <1>2, <1>4, <1>5, <2>1, <2>3 DEF State
    <3>. QED
      BY <1>2, <1>7, <2>1, <3>1, <3>2, <3>3, WindowBudget, BucketBudget
  <2>. QED
    BY <2>1, <2>2, <2>3
<1>. QED
  BY <1>8, <1>9, <1>10 DEF BudgetInv

LEMMA RefuseKeepsBudget ==
  ASSUME CallsTyped, StoreTyped, MutexInv, BudgetInv, NEW c \in Calls, Refuse(c)
  PROVE  BudgetInv'
<1>1. /\ pc[c] = "decide" /\ Settle(c) /\ UNCHANGED <<limiter, now, grants>>
      /\ limiter = "window" => entry' = entry
      /\ limiter # "window" => entry' \in Written(state[c], clock[c])
  BY DEF Refuse, AfterRefusal
<1>2. WithinBudget'
  BY <1>1, BudgetStays DEF BudgetInv
<1>3. DeciderCovers'
  <2>1. \A d \in Calls : pc'[d] # "decide"
    BY <1>1, SettleEndsBody DEF InBody
  <2>. QED
    BY <2>1 DEF DeciderCovers
<1>4. EntryCovers'
  <2>1. CASE entry' = entry
    BY <1>1, <2>1 DEF BudgetInv, EntryCovers, Covers, IsOver
  <2>2. CASE limiter # "window"
    BY <1>1, <2>2, WriteCovers, DeciderKnows DEF BudgetInv
  <2>. QED
    BY <1>1, <2>1, <2>2
<1>. QED
  BY <1>2, <1>3, <1>4 DEF BudgetInv

LEMMA FailureKeepsBudget ==
  ASSUME CallsTyped, StoreTyped, MutexInv, BudgetInv, NEW c \in Calls, StoreFails(c)
  PROVE  BudgetInv'
<1>1. /\ InBody(c) /\ entry' \in Asked(c) \cup {entry} /\ Settle(c) /\ UNCHANGED <<limiter, now>>
      /\ grants' = IF op[c].kind = "reset" /\ entry' = None THEN <<>> ELSE grants
  BY DEF StoreFails
<1>2. DeciderCovers'
  <2>1. \A d \in Calls : pc'[d] # "decide"
    BY <1>1, SettleEndsBody
  <2>. QED
    BY <2>1 DEF DeciderCovers
<1>3. CASE grants' = <<>> /\ entry' = None
  BY <1>1, <1>2, <1>3, NothingGranted DEF BudgetInv, EntryCovers
<1>4. CASE grants' = grants
  <2>1. WithinBudget'
    BY <1>1, <1>4, BudgetStays DEF BudgetInv
  <2>2. EntryCovers'
    <3>1. CASE entry' = entry
      BY <1>1, <1>4, <3>1 DEF BudgetInv, EntryCovers, Covers, IsOver
    <3>2. CASE pc[c] = "decide" /\ entry' # entry
      <4>1. /\ op[c].units \in Costs /\ state[c] \in State
            /\ Covers(state[c]) /\ state[c].since <= now
            /\ clock[c] \in Nat /\ clock[c] <= now
            /\ limiter # "window" => state[c].since = clock[c]
        BY <3>2, DeciderKnows DEF BudgetInv
      <4>2. CASE MayGrant(c) /\ entry' \in AfterGrant(c)
        <5> DEFINE w == Charged(state[c], op[c].units)
        <5>1. entry' \in Written(w, clock[c]) /\ Suffices(state[c], op[c].units)
          BY <4>2 DEF AfterGrant, MayGrant
        <5>2. w \in State /\ w.since = state[c].since
          BY <4>1, <5>1, ChargeOf
        <5>3. Covers(w)
          BY <4>1, <5>1, ChargeOf, ChargeCovers DEF Covers, StoreTyped
        <5>. HIDE DEF w
        <5>. QED
          BY <1>1, <1>4, <4>1, <5>1, <5>2, <5>3, WriteCovers
      <4>3. CASE entry' \in AfterRefusal(c)
        <5>1. limiter # "window" /\ entry' \in Written(state[c], clock[c])
          BY <3>2, <4>3 DEF AfterRefusal
        <5>. QED
          BY <1>1, <1>4, <4>1, <5>1, WriteCovers
      <4>. QED
        BY <1>1, <3>2, <4>2, <4>3 DEF Asked
    <3>3. CASE pc[c] # "decide" /\ entry' # entry
      <4>1. pc[c] = "queued" /\ op[c].kind = "reset" /\ entry' = None
        BY <1>1, <3>3 DEF InBody, Asked
      <4>2. grants' = <<>>
        BY <1>1, <4>1
      <4>. QED
        BY <1>1, <4>1, <4>2, NothingGranted DEF EntryCovers
    <3>. QED
      BY <3>1, <3>2, <3>3
  <2>. QED
    BY <1>2, <2>1, <2>2 DEF BudgetInv
<1>. QED
  BY <1>1, <1>3, <1>4

LEMMA NextBudget == CallsTyped /\ StoreTyped /\ MutexInv /\ BudgetInv /\ [Next]_vars => BudgetInv'
<1>. SUFFICES ASSUME CallsTyped, StoreTyped, MutexInv, BudgetInv, [Next]_vars PROVE BudgetInv'
  OBVIOUS
<1>1. ASSUME NEW c \in Calls, NEW o \in Operation, Begin(c, o) PROVE BudgetInv'
  <2>1. UNCHANGED <<limiter, entry, now, clock, state, grants>>
    BY <1>1 DEF Begin
  <2>2. \A d \in Calls : pc'[d] = "decide" => pc[d] = "decide"
    BY <1>1 DEF Begin, CallsTyped
  <2>3. EntryCovers' /\ DeciderCovers'
    BY <2>1, <2>2 DEF BudgetInv, EntryCovers, DeciderCovers, Covers, IsOver
  <2>. QED
    BY <2>1, <2>3, BudgetStays DEF BudgetInv
<1>2. ASSUME NEW c \in Calls, Delete(c) PROVE BudgetInv'
  <2>1. \A d \in Calls : pc'[d] # "decide"
    BY <1>2, SettleEndsBody DEF Delete, InBody
  <2>. QED
    BY <1>2, <2>1, NothingGranted DEF Delete, BudgetInv, EntryCovers, DeciderCovers
<1>3. CASE Tick
  <2>1. now \in Nat /\ now' = now + 1 /\ UNCHANGED <<limiter, entry, pc, clock, state, grants>>
    BY <1>3 DEF Tick, StoreTyped
  <2>2. grants \in Seq(GrantRecord) /\ now' \in Nat /\ now <= now'
    BY <2>1 DEF StoreTyped
  <2>3. EntryCovers'
    <3>1. CASE entry = None
      <4>1. IsOver'
        BY <2>1, <2>2, <3>1, TimePasses DEF BudgetInv, EntryCovers, IsOver
      <4>. QED
        BY <2>1, <3>1, <4>1 DEF EntryCovers
    <3>2. CASE entry # None
      <4>1. entry.since \in Nat
        BY <3>2 DEF StoreTyped, Entry
      <4>. QED
        BY <2>1, <3>2, <4>1 DEF BudgetInv, EntryCovers, Covers
    <3>. QED
      BY <3>1, <3>2
  <2>4. DeciderCovers'
    <3>1. \A d \in Calls : clock[d] \in Nat
      BY DEF CallsTyped
    <3>. QED
      BY <2>1, <3>1 DEF BudgetInv, DeciderCovers, Covers
  <2>. QED
    BY <2>1, <2>3, <2>4, BudgetStays DEF BudgetInv
<1>4. CASE UNCHANGED vars
  BY <1>4, BudgetStays DEF vars, BudgetInv, EntryCovers, DeciderCovers, Covers, IsOver
<1>. QED
  BY <1>1, <1>2, <1>3, <1>4, LookKeepsBudget, GrantKeepsBudget, RefuseKeepsBudget,
     FailureKeepsBudget DEF Next, Progress

LEMMA TypesSplit == TypeInv => CallsTyped /\ StoreTyped
BY DEF TypeInv, TypeOK, CallsTyped, StoreTyped

LEMMA InitBudget == Init => TypeInv /\ MutexInv /\ BudgetInv
<1>. SUFFICES ASSUME Init PROVE TypeInv /\ MutexInv /\ BudgetInv
  OBVIOUS
<1>1. TypeInv
  BY LimiterAssumption DEF Init, TypeInv, TypeOK
<1>2. BudgetInv
  BY DEF Init, BudgetInv, EntryCovers, IsOver, WindowIsOver, BucketIsFull, DeciderCovers,
     WithinBudget
<1>. QED
  BY <1>1, <1>2, InitMutex

(* The calls that are granted within a time get no more units than the time   *)
(* allows, whatever is refused, expires, is reset or fails meanwhile          *)
(* (fixedWindowRateLimiter, tokenBucketRateLimiter, WithinBudget).           *)
THEOREM GrantsWithinBudget == Spec => []WithinBudget
<1> DEFINE Inv == TypeInv /\ MutexInv /\ BudgetInv
<1>1. Init => Inv
  BY InitBudget
<1>2. Inv /\ [Next]_vars => Inv'
  BY NextTypes, NextMutex, NextBudget, TypesSplit
<1>3. Inv => WithinBudget
  BY DEF BudgetInv
<1>. QED
  BY <1>1, <1>2, <1>3, PTL DEF Spec

-----------------------------------------------------------------------------
(* The promise of a refusal.  By then the window v is over, or the bucket v   *)
(* holds the units that were asked for.                                      *)
Keeps(v) ==
  IF limiter = "window" THEN v.since + PeriodMs <= promise.due
  ELSE Scaled(promise.units) <= v.level + Refill(promise.due - v.since)

EntryKeeps == promise # None /\ entry # None => Keeps(entry)

(* A call that decides by then has an empty window, or the units; later, more *)
(* than these when it rounded what it has.                                   *)
DeciderKeeps ==
  \A c \in Calls : pc[c] = "decide" =>
    /\ limiter = "window" /\ entry # None => entry.since <= state[c].since
    /\ promise # None =>
         IF limiter = "window" THEN state[c].level = 0 \/ Keeps(state[c])
         ELSE clock[c] >= promise.due =>
                /\ Scaled(Least(promise.units, Limit)) <= state[c].level
                /\ clock[c] > promise.due /\ state[c].rounded =>
                     Scaled(Least(promise.units, Limit)) < state[c].level

PromiseInv == EntryKeeps /\ DeciderKeeps

LEMMA BucketHasUnits ==
  ASSUME NEW level \in Nat, NEW since \in Nat, NEW due \in Nat, NEW at \in Nat, NEW units \in Nat,
         due <= at, Scaled(units) <= level + Refill(due - since)
  PROVE  /\ Scaled(Least(units, Limit)) <= Least(Scaled(Limit), level + Refill(at - since))
         /\ due < at => Scaled(Least(units, Limit)) < level + Refill(at - since)
<1> DEFINE x == due - since
           y == at - since
           few == Least(units, Limit)
<1>1. Limit \in Nat /\ few \in Nat /\ few <= units /\ few <= Limit
  BY LimiterAssumption DEF Least
<1>2. x \in Int /\ y \in Int /\ x <= y
  OBVIOUS
<1>. HIDE DEF few
<1>3. Scaled(few) <= Scaled(units) /\ Scaled(few) <= Scaled(Limit)
  BY <1>1, ScaledGrows
<1>4. Scaled(few) \in Int /\ Scaled(units) \in Int /\ Scaled(Limit) \in Int
  BY <1>1, ScaledIsInt
<1>. HIDE DEF x, y
<1>5. Refill(x) <= Refill(y)
  BY <1>2, RefillGrows
<1>6. Refill(x) \in Int /\ Refill(y) \in Int
  BY <1>2, RefillIsInt
<1>7. Scaled(few) <= level + Refill(y)
  BY <1>3, <1>4, <1>5, <1>6 DEF x
<1>8. due < at => Scaled(few) < level + Refill(y)
  <2>1. due < at => x + 1 <= y
    BY DEF x, y
  <2>2. x + 1 <= y => Refill(x + 1) <= Refill(y)
    BY <1>2, RefillGrows
  <2>3. Refill(x + 1) = Refill(x) + RefillTokens
    BY <1>2, RefillAdds, LimiterAssumption DEF Refill
  <2>4. Scaled(units) <= level + Refill(x)
    BY DEF x
  <2>5. RefillTokens \in Nat \ {0}
    BY LimiterAssumption
  <2>. QED
    BY <1>3, <1>4, <1>6, <2>1, <2>2, <2>3, <2>4, <2>5
<1>. QED
  BY <1>3, <1>7, <1>8 DEF y, few, Least

LEMMA BucketEvaluates ==
  ASSUME NEW e \in Entry, e # None, NEW at \in Nat, e.since <= at, limiter # "window"
  PROVE  /\ Evaluate(e, at).level = Least(Scaled(Limit), e.level + Refill(at - e.since))
         /\ Evaluate(e, at).rounded => e.level + Refill(at - e.since) <= Scaled(Limit)
<1>1. Greatest(0, at - e.since) = at - e.since
  BY DEF Greatest, Entry
<1>. QED
  BY <1>1 DEF Evaluate, Bucket

LEMMA LookKeepsPromise ==
  ASSUME CallsTyped, StoreTyped, MutexInv, BudgetInv, PromiseInv, NEW c \in Calls, Look(c)
  PROVE  PromiseInv'
<1>1. entry' = Found /\ UNCHANGED <<limiter, now, grants, promise>>
  BY DEF Look, Found
<1>2. Found # None => Found = entry
  BY DEF Found
<1>3. EntryKeeps'
  BY <1>1, <1>2 DEF PromiseInv, EntryKeeps, Keeps
<1>4. DeciderKeeps'
  <2>1. InBody(c)
    BY DEF Look, InBody
  <2>2. CASE op[c].kind = "peek"
    <3>1. \A d \in Calls : pc'[d] # "decide"
      BY <2>1, <2>2, SettleEndsBody DEF Look
    <3>. QED
      BY <3>1 DEF DeciderKeeps
  <2>3. CASE op[c].kind # "peek"
    <3>1. /\ clock' = [clock EXCEPT ![c] = now]
          /\ state' = [state EXCEPT ![c] = Evaluate(Found, now)]
          /\ pc' = [pc EXCEPT ![c] = "decide"]
      BY <1>1, <2>3 DEF Look
    <3>2. \A d \in Calls : pc'[d] = "decide" => d = c
      BY <2>1, <3>1, MutexExcludes DEF Exclusive, InBody, CallsTyped
    <3>3. clock'[c] = now /\ state'[c] = Evaluate(Found, now) /\ now \in Nat
      BY <3>1 DEF CallsTyped, StoreTyped
    <3>4. Found # None =>
            /\ entry \in Entry /\ entry # None
            /\ entry.since \in Nat /\ entry.level \in Nat /\ entry.since <= now
      BY <1>2 DEF StoreTyped, Entry, BudgetInv, EntryCovers
    <3>5. ASSUME limiter = "window"
          PROVE  /\ Found # None => Found.since <= Evaluate(Found, now).since
                 /\ promise # None =>
                      \/ Evaluate(Found, now).level = 0
                      \/ Evaluate(Found, now).since + PeriodMs <= promise.due
      <4>1. CASE Found = None
        BY <3>5, <4>1 DEF Evaluate, Window
      <4>2. CASE Found # None
        BY <1>2, <3>4, <3>5, <4>2 DEF Evaluate, Window, PromiseInv, EntryKeeps, Keeps
      <4>. QED
        BY <4>1, <4>2
    <3>6. ASSUME limiter # "window", promise # None, now >= promise.due
          PROVE  /\ Scaled(Least(promise.units, Limit)) <= Evaluate(Found, now).level
                 /\ now > promise.due /\ Evaluate(Found, now).rounded =>
                      Scaled(Least(promise.units, Limit)) < Evaluate(Found, now).level
      <4>1. promise.units \in Nat /\ promise.due \in Nat
        BY <3>6, LimiterAssumption DEF StoreTyped
      <4>2. CASE Found = None
        <5>1. Least(promise.units, Limit) \in Nat /\ Limit \in Nat /\ Least(promise.units, Limit) <= Limit
          BY <4>1, LimiterAssumption DEF Least
        <5>. QED
          BY <3>6, <4>2, <5>1, ScaledGrows DEF Evaluate, Bucket
      <4>3. CASE Found # None
        <5>1. Scaled(promise.units) <= entry.level + Refill(promise.due - entry.since)
          BY <1>2, <3>4, <3>6, <4>3 DEF PromiseInv, EntryKeeps, Keeps
        <5>2. /\ Evaluate(Found, now).level
                    = Least(Scaled(Limit), entry.level + Refill(now - entry.since))
              /\ Evaluate(Found, now).rounded =>
                    entry.level + Refill(now - entry.since) <= Scaled(Limit)
          BY <1>2, <3>3, <3>4, <3>6, <4>3, BucketEvaluates
        <5> DEFINE level == entry.level
                   since == entry.since
                   due == promise.due
                   units == promise.units
        <5>3. /\ level \in Nat /\ since \in Nat /\ due \in Nat /\ now \in Nat /\ units \in Nat
              /\ due <= now /\ Scaled(units) <= level + Refill(due - since)
          BY <3>3, <3>4, <3>6, <4>1, <4>3, <5>1
        <5>. HIDE DEF level, since, due, units
        <5>4. /\ Scaled(Least(units, Limit)) <= Least(Scaled(Limit), level + Refill(now - since))
              /\ due < now => Scaled(Least(units, Limit)) < level + Refill(now - since)
          BY <5>3, BucketHasUnits
        <5>5. level + Refill(now - since) <= Scaled(Limit) =>
                Least(Scaled(Limit), level + Refill(now - since)) = level + Refill(now - since)
          BY <5>3, RefillIsInt, ScaledIsNat, LimiterAssumption DEF Least
        <5>6. due < now <=> now > due
          BY <5>3
        <5>. QED
          BY <5>2, <5>4, <5>5, <5>6 DEF level, since, units, due
      <4>. QED
        BY <4>2, <4>3
    <3>. QED
      BY <1>1, <3>2, <3>3, <3>5, <3>6 DEF DeciderKeeps, Keeps
  <2>. QED
    BY <2>2, <2>3
<1>. QED
  BY <1>3, <1>4 DEF PromiseInv

LEMMA RefuseKeepsPromise ==
  ASSUME CallsTyped, StoreTyped, MutexInv, BudgetInv, PromiseInv, NEW c \in Calls, Refuse(c)
  PROVE  PromiseInv'
<1> DEFINE u == op[c].units
           s == state[c]
           at == clock[c]
<1>1. /\ pc[c] = "decide" /\ (~Suffices(s, u) \/ FallsShort(s, u))
      /\ Settle(c) /\ UNCHANGED <<limiter, now>>
      /\ limiter = "window" => entry' = entry
      /\ limiter # "window" => entry' \in Written(s, at)
  BY DEF Refuse, MayRefuse, MayGrant, AfterRefusal
<1>0. PICK wait \in RetryAfterMs(s, u, at) : promise' = [units |-> u, due |-> at + wait]
  BY DEF Refuse
<1>2. DeciderKeeps'
  <2>1. \A d \in Calls : pc'[d] # "decide"
    BY <1>1, SettleEndsBody DEF InBody
  <2>. QED
    BY <2>1 DEF DeciderKeeps
<1>3. /\ u \in Costs /\ s \in State /\ at \in Nat /\ now \in Nat /\ at <= now
      /\ limiter = "window" => s.since <= at /\ at < s.since + PeriodMs
      /\ limiter # "window" => s.since = at
  BY <1>1, DeciderKnows DEF BudgetInv
<1>4. /\ s.level \in Nat /\ s.since \in Nat /\ u \in Nat /\ PeriodMs \in Nat /\ Scaled(u) \in Nat
  BY <1>3, ScaledIsNat, LimiterAssumption DEF State
<1>5. limiter = "window" /\ entry # None => entry.since <= s.since
  BY <1>1 DEF PromiseInv, DeciderKeeps
<1>6. promise'.units = u /\ promise'.due = at + wait
  BY <1>0
<1>7. limiter # "window" => entry'.level = s.level /\ entry'.since = s.since
  BY <1>1, <1>3, WrittenExpires
<1>. HIDE DEF u, s, at
<1>8. CASE limiter = "window"
  <2>1. promise'.due = s.since + PeriodMs
    BY <1>0, <1>3, <1>4, <1>6, <1>8 DEF RetryAfterMs, Greatest
  <2>2. entry # None => entry.since \in Nat
    BY DEF StoreTyped, Entry
  <2>. QED
    BY <1>1, <1>2, <1>4, <1>5, <1>8, <2>1, <2>2 DEF PromiseInv, EntryKeeps, Keeps
<1>9. CASE limiter # "window"
  <2> DEFINE d == Scaled(u) - s.level
  <2>1. d \in Nat
    BY <1>1, <1>3, <1>9, RefusedLack
  <2>2. wait \in Ceilings(d, RefillTokens)
    BY <1>0, <1>9 DEF RetryAfterMs
  <2>. HIDE DEF d
  <2>3. wait \in Nat /\ wait >= CeilDiv(d, RefillTokens) /\ CeilDiv(d, RefillTokens) \in Nat
    BY <2>1, <2>2, CeilingsAreNat, QuotientIsNat, LimiterAssumption
  <2>4. d <= Refill(CeilDiv(d, RefillTokens))
    BY <2>1, WaitRefills
  <2>5. /\ Refill(CeilDiv(d, RefillTokens)) <= Refill(wait)
        /\ Refill(CeilDiv(d, RefillTokens)) \in Int /\ Refill(wait) \in Int
    BY <2>3, RefillGrows, RefillIsInt
  <2>6. promise'.due - s.since = wait
    BY <1>3, <1>4, <1>6, <1>9, <2>3
  <2>7. Scaled(u) <= s.level + Refill(wait)
    BY <1>4, <2>1, <2>4, <2>5 DEF d
  <2>. QED
    BY <1>1, <1>2, <1>6, <1>7, <1>9, <2>6, <2>7 DEF PromiseInv, EntryKeeps, Keeps
<1>. QED
  BY <1>8, <1>9

LEMMA NextPromise ==
  CallsTyped /\ StoreTyped /\ MutexInv /\ BudgetInv /\ PromiseInv /\ [Next]_vars => PromiseInv'
<1>. SUFFICES ASSUME CallsTyped, StoreTyped, MutexInv, BudgetInv, PromiseInv, [Next]_vars
              PROVE  PromiseInv'
  OBVIOUS
<1>1. ASSUME UNCHANGED <<limiter, entry, clock, state, promise>>,
             \A d \in Calls : pc'[d] = "decide" => pc[d] = "decide"
      PROVE  PromiseInv'
  BY <1>1 DEF PromiseInv, EntryKeeps, DeciderKeeps, Keeps
<1>2. ASSUME NEW c \in Calls, NEW o \in Operation, Begin(c, o) PROVE PromiseInv'
  BY <1>1, <1>2 DEF Begin, CallsTyped
<1>3. ASSUME NEW c \in Calls, Grant(c) \/ Delete(c) \/ StoreFails(c) PROVE PromiseInv'
  <2>1. InBody(c) /\ Settle(c) /\ promise' = None
    BY <1>3 DEF Grant, Delete, StoreFails, InBody
  <2>2. \A d \in Calls : pc'[d] # "decide"
    BY <2>1, SettleEndsBody
  <2>. QED
    BY <2>1, <2>2 DEF PromiseInv, EntryKeeps, DeciderKeeps
<1>4. CASE Tick \/ UNCHANGED vars
  BY <1>1, <1>4 DEF Tick, vars
<1>. QED
  BY <1>2, <1>3, <1>4, LookKeepsPromise, RefuseKeepsPromise DEF Next, Progress

LEMMA NothingLacks == Ceilings(0, RefillTokens) = {1}
<1>1. RefillTokens \in Nat \ {0}
  BY LimiterAssumption
<1>2. 0 + RefillTokens - 1 \in Nat /\ 0 + RefillTokens - 1 < RefillTokens
  BY <1>1
<1>3. CeilDiv(0, RefillTokens) = 0 /\ 0 \div RefillTokens = 0
  BY <1>1, <1>2 DEF CeilDiv
<1>4. Ceilings(0, RefillTokens) = 1..1
  BY <1>3 DEF Ceilings, Greatest
<1>. QED
  BY <1>4

LEMMA RefusedTooEarly ==
  ASSUME CallsTyped, StoreTyped, BudgetInv, PromiseInv, NEW c \in Calls, Refuse(c),
         promise # None, op[c].units <= Least(promise.units, Limit)
  PROVE  \/ clock[c] < promise.due
         \/ /\ clock[c] = promise.due /\ FallsShort(state[c], op[c].units)
            /\ promise'.due = clock[c] + 1
<1> DEFINE u == op[c].units
           s == state[c]
           few == Least(promise.units, Limit)
<1>1. pc[c] = "decide" /\ (~Suffices(s, u) \/ FallsShort(s, u))
  BY DEF Refuse, MayRefuse, MayGrant
<1>2. /\ u \in Nat /\ s \in State /\ clock[c] \in Nat /\ s.level \in Nat /\ s.since \in Nat
      /\ s.rounded \in BOOLEAN
      /\ limiter = "window" => clock[c] < s.since + PeriodMs
  BY <1>1, DeciderKnows, LimiterAssumption DEF BudgetInv, State
<1>3. promise.units \in Nat /\ promise.due \in Nat /\ Limit \in Nat /\ PeriodMs \in Nat
  BY LimiterAssumption DEF StoreTyped
<1>4. few \in Nat /\ few <= Limit /\ u <= few
  BY <1>3 DEF Least
<1>5. IF limiter = "window" THEN s.level = 0 \/ s.since + PeriodMs <= promise.due
      ELSE clock[c] >= promise.due =>
             /\ Scaled(few) <= s.level
             /\ clock[c] > promise.due /\ s.rounded => Scaled(few) < s.level
  BY <1>1 DEF PromiseInv, DeciderKeeps, Keeps
<1>6. PICK wait \in RetryAfterMs(s, u, clock[c]) :
        promise' = [units |-> u, due |-> clock[c] + wait]
  BY DEF Refuse
<1>. HIDE DEF u, few
<1>7. CASE limiter = "window"
  <2>1. ~(s.level + u <= Limit)
    BY <1>1, <1>7 DEF Suffices, FallsShort
  <2>. QED
    BY <1>2, <1>3, <1>4, <1>5, <1>7, <2>1
<1>8. CASE limiter # "window"
  <2>1. Scaled(u) <= Scaled(few)
    BY <1>2, <1>4, ScaledGrows
  <2>2. Scaled(u) \in Int /\ Scaled(few) \in Int
    BY <1>2, <1>4, ScaledIsInt
  <2>3. ~Suffices(s, u) => clock[c] < promise.due
    BY <1>2, <1>3, <1>5, <1>8, <2>1, <2>2 DEF Suffices
  <2>4. ASSUME FallsShort(s, u), ~(clock[c] < promise.due)
        PROVE  clock[c] = promise.due /\ promise'.due = clock[c] + 1
    <3>1. s.level = Scaled(u) /\ s.rounded
      BY <2>4 DEF FallsShort
    <3>2. clock[c] = promise.due
      BY <1>2, <1>3, <1>5, <1>8, <2>1, <2>2, <2>4, <3>1
    <3>3. Scaled(u) - s.level = 0
      BY <2>2, <3>1
    <3>4. wait = 1
      BY <1>8, <3>3, NothingLacks DEF RetryAfterMs
    <3>. QED
      BY <1>6, <3>2, <3>4
  <2>. QED
    BY <1>1, <2>3, <2>4 DEF u
<1>. QED
  BY <1>7, <1>8

LEMMA InitPromise == Init => PromiseInv
BY DEF Init, PromiseInv, EntryKeeps, DeciderKeeps

(* Who waits as long as a refusal said is served, unless others took units     *)
(* meanwhile: retryAfterMs is no less than what is missing takes, and where  *)
(* the doubles leave it just short at that instant, one millisecond more is  *)
(* enough (RateLimitResult.retryAfterMs, RetryAfterSuffices).                *)
THEOREM WaitingIsEnough == Spec => RetryAfterSuffices
<1> DEFINE Inv == TypeInv /\ MutexInv /\ BudgetInv /\ PromiseInv
           Kept == \A c \in Calls :
                     Refuse(c) /\ promise # None /\ op[c].units <= Least(promise.units, Limit)
                     => \/ clock[c] < promise.due
                        \/ /\ clock[c] = promise.due /\ FallsShort(state[c], op[c].units)
                           /\ promise'.due = clock[c] + 1
<1>1. Init => Inv
  BY InitBudget, InitPromise
<1>2. Inv /\ [Next]_vars => Inv'
  BY NextTypes, NextMutex, NextBudget, NextPromise, TypesSplit
<1>3. Inv /\ [Next]_vars => [Kept]_vars
  BY TypesSplit, RefusedTooEarly
<1>. QED
  BY <1>1, <1>2, <1>3, PTL DEF Spec, RetryAfterSuffices

-----------------------------------------------------------------------------
(* A step of the suite is a step of one component, or none, for each of them. *)
LEMMA SuiteSteps ==
  [SuiteNext]_suiteVars =>
    [Next]_vars /\ [JW!Next]_JW!vars /\ [LS!Next]_LS!vars /\ [HC!Next]_HC!vars
BY DEF SuiteNext, LimiterActs, WorkerActs, SinkActs, ClientActs, suiteVars, vars,
   workerVars, sinkVars, clientVars, JW!vars, LS!vars, HC!vars

LEMMA SuiteSpecs == SuiteSpec => Spec /\ JW!Spec /\ LS!Spec /\ HC!Spec
<1>1. SuiteInit => Init /\ JW!Init /\ LS!Init /\ HC!Init
  BY DEF SuiteInit
<1>. QED
  BY <1>1, SuiteSteps, PTL DEF SuiteSpec, Spec, JW!Spec, LS!Spec, HC!Spec

-----------------------------------------------------------------------------
(* The job worker.  A tick that awaits its n-th task has seen those before it *)
(* settle; without stopOnError none throws, so that a tick that has settled   *)
(* has seen them all.                                                        *)
Settled(t, k) == task[t][k] \in {"done", "failed"}

TicksAgree ==
  \A t \in Ticks :
    /\ phase[t] # "unused" =>
         task[t] \in [1..workerOptions.concurrency -> {"pending", "done", "failed"}]
    /\ phase[t] = "unused" => task[t] = <<>> /\ next[t] = 1
    /\ phase[t] = "awaiting" => \A k \in 1..(next[t] - 1) : Settled(t, k)
    /\ phase[t] = "throwing" => workerOptions.stopOnError
    /\ phase[t] = "settled" /\ ~workerOptions.stopOnError =>
         \A k \in 1..workerOptions.concurrency : Settled(t, k)

(* stop() awaits ticks of the interval, which have begun.                     *)
StopsAgree ==
  /\ \A t \in timed : phase[t] # "unused"
  /\ \A s \in Stops :
       /\ waits[s] \subseteq timed
       /\ stop[s] = "resolved" => \A t \in waits[s] : phase[t] = "settled"

(* The interval lives as long as the flag.                                    *)
OneInterval == intervals = IF running THEN 1 ELSE 0

WorkerInv == JW!TypeOK /\ TicksAgree /\ StopsAgree /\ OneInterval

LEMMA InitWorker == JW!Init => WorkerInv
<1>. SUFFICES ASSUME JW!Init PROVE WorkerInv
  OBVIOUS
<1>1. workerOptions \in JW!Options /\ 1 \in 1..workerOptions.concurrency
  BY SuiteAssumption DEF JW!Init, JW!Options, JW!WorkerAssumption
<1>2. JW!TypeOK
  <2>1. /\ running \in BOOLEAN /\ signalled \in BOOLEAN
        /\ timed \in SUBSET Ticks /\ waits \in [Stops -> SUBSET Ticks]
    BY DEF JW!Init
  <2>2. /\ intervals \in Nat /\ <<>> \in Seq({"pending", "done", "failed"})
        /\ next \in [Ticks -> 1..workerOptions.concurrency]
    BY <1>1 DEF JW!Init
  <2>3. task \in [Ticks -> Seq({"pending", "done", "failed"})]
    BY <2>2 DEF JW!Init
  <2>4. /\ phase \in [Ticks -> {"unused", "awaiting", "throwing", "settled"}]
        /\ stop \in [Stops -> {"unused", "waiting", "resolved"}]
    BY DEF JW!Init
  <2>. QED
    BY <1>1, <2>1, <2>2, <2>3, <2>4 DEF JW!TypeOK
<1>. QED
  BY <1>2 DEF JW!Init, WorkerInv, TicksAgree, StopsAgree, OneInterval

(* What a tick or a stop() changes of the loop.                               *)
LEMMA StopIfRunningKeeps ==
  ASSUME WorkerInv, JW!StopIfRunning
  PROVE  running' \in BOOLEAN /\ intervals' \in Nat /\ OneInterval'
<1>1. running' = FALSE
  BY DEF JW!StopIfRunning
<1>2. intervals' = 0
  BY DEF WorkerInv, OneInterval, JW!StopIfRunning
<1>3. OneInterval'
  BY <1>1, <1>2 DEF OneInterval
<1>. QED
  BY <1>1, <1>2, <1>3

LEMMA BeginTickKeeps ==
  ASSUME WorkerInv, NEW t \in Ticks, JW!BeginTick(t), timed' \in {timed, timed \cup {t}}
  PROVE  WorkerInv'
<1> DEFINE n == workerOptions.concurrency
           begun == [k \in 1..n |-> "pending"]
<1>1. n \in Nat \ {0} /\ workerOptions' = workerOptions /\ workerOptions \in JW!Options
  BY SuiteAssumption DEF WorkerInv, JW!TypeOK, JW!Options, JW!BeginTick, JW!WorkerAssumption
<1>2. begun \in [1..n -> {"pending", "done", "failed"}] /\ begun \in Seq({"pending", "done", "failed"})
  BY <1>1
<1>3. /\ phase[t] = "unused" /\ next[t] = 1
      /\ phase' = [phase EXCEPT ![t] = "awaiting"]
      /\ task' = [task EXCEPT ![t] = begun]
      /\ UNCHANGED <<running, intervals, signalled, next, stop, waits>>
  BY DEF JW!BeginTick, WorkerInv, TicksAgree
<1>. HIDE DEF begun
<1>4. JW!TypeOK'
  BY <1>1, <1>2, <1>3 DEF WorkerInv, JW!TypeOK
<1>5. TicksAgree'
  <2>. SUFFICES ASSUME NEW u \in Ticks
                PROVE  (/\ phase[u] # "unused" =>
                             task[u] \in [1..n -> {"pending", "done", "failed"}]
                        /\ phase[u] = "unused" => task[u] = <<>> /\ next[u] = 1
                        /\ phase[u] = "awaiting" => \A k \in 1..(next[u] - 1) : Settled(u, k)
                        /\ phase[u] = "throwing" => workerOptions.stopOnError
                        /\ phase[u] = "settled" /\ ~workerOptions.stopOnError =>
                             \A k \in 1..n : Settled(u, k))'
    BY DEF TicksAgree
  <2>1. CASE u = t
    BY <1>1, <1>2, <1>3, <2>1 DEF WorkerInv, JW!TypeOK
  <2>2. CASE u # t
    <3>1. phase'[u] = phase[u] /\ task'[u] = task[u] /\ next'[u] = next[u]
      BY <1>3, <2>2 DEF WorkerInv, JW!TypeOK
    <3>. QED
      BY <1>1, <3>1 DEF WorkerInv, TicksAgree, Settled
  <2>. QED
    BY <2>1, <2>2
<1>6. StopsAgree'
  BY <1>3 DEF WorkerInv, StopsAgree, JW!TypeOK
<1>. QED
  BY <1>3, <1>4, <1>5, <1>6 DEF WorkerInv, OneInterval

LEMMA TaskSettlesKeeps ==
  ASSUME WorkerInv, NEW t \in Ticks, NEW k \in DOMAIN task[t], JW!TaskSettles(t, k)
  PROVE  WorkerInv'
<1> DEFINE n == workerOptions.concurrency
<1>1. PICK outcome \in {"done", "failed"} : task' = [task EXCEPT ![t][k] = outcome]
  BY DEF JW!TaskSettles
<1>2. UNCHANGED <<workerOptions, running, intervals, signalled, timed, phase, next, stop, waits>>
  BY DEF JW!TaskSettles
<1>3. n \in Nat \ {0} /\ task \in [Ticks -> Seq({"pending", "done", "failed"})]
  BY SuiteAssumption DEF WorkerInv, JW!TypeOK, JW!Options, JW!WorkerAssumption
<1>4. phase[t] # "unused" /\ task[t] \in [1..n -> {"pending", "done", "failed"}] /\ k \in 1..n
  BY <1>3 DEF WorkerInv, TicksAgree
<1>5. /\ task'[t] = [task[t] EXCEPT ![k] = outcome]
      /\ task'[t] \in [1..n -> {"pending", "done", "failed"}]
      /\ task'[t] \in Seq({"pending", "done", "failed"})
      /\ \A u \in Ticks : u # t => task'[u] = task[u]
  BY <1>1, <1>3, <1>4
<1>6. task' \in [Ticks -> Seq({"pending", "done", "failed"})]
  BY <1>1, <1>3, <1>5
<1>7. \A u \in Ticks, m \in 1..n : Settled(u, m) => Settled(u, m)'
  BY <1>1, <1>3, <1>4, <1>5 DEF Settled
<1>8. JW!TypeOK'
  BY <1>2, <1>6 DEF WorkerInv, JW!TypeOK
<1>9. TicksAgree'
  <2>. SUFFICES ASSUME NEW u \in Ticks
                PROVE  (/\ phase[u] # "unused" =>
                             task[u] \in [1..n -> {"pending", "done", "failed"}]
                        /\ phase[u] = "unused" => task[u] = <<>> /\ next[u] = 1
                        /\ phase[u] = "awaiting" => \A m \in 1..(next[u] - 1) : Settled(u, m)
                        /\ phase[u] = "throwing" => workerOptions.stopOnError
                        /\ phase[u] = "settled" /\ ~workerOptions.stopOnError =>
                             \A m \in 1..n : Settled(u, m))'
    BY DEF TicksAgree
  <2>1. next[u] \in 1..n
    BY DEF WorkerInv, JW!TypeOK
  <2>2. \A m \in 1..(next[u] - 1) : m \in 1..n
    BY <1>3, <2>1
  <2>3. task'[u] = task[u] \/ u = t
    BY <1>5
  <2>. QED
    BY <1>2, <1>4, <1>5, <1>7, <2>2, <2>3 DEF WorkerInv, TicksAgree
<1>10. StopsAgree' /\ OneInterval'
  BY <1>2 DEF WorkerInv, StopsAgree, OneInterval
<1>. QED
  BY <1>8, <1>9, <1>10 DEF WorkerInv

LEMMA TickStepKeeps ==
  ASSUME WorkerInv, NEW t \in Ticks, JW!TickStep(t)
  PROVE  WorkerInv'
<1> DEFINE n == workerOptions.concurrency
<1>1. /\ n \in Nat \ {0} /\ next[t] \in 1..n
      /\ phase[t] \in {"awaiting", "throwing"}
      /\ phase \in [Ticks -> {"unused", "awaiting", "throwing", "settled"}]
      /\ next \in [Ticks -> 1..n]
      /\ task[t] \in [1..n -> {"pending", "done", "failed"}]
      /\ Len(task[t]) = n
  <2>1. n \in Nat \ {0} /\ next[t] \in 1..n /\ phase[t] \in {"awaiting", "throwing"}
    BY SuiteAssumption DEF WorkerInv, JW!TypeOK, JW!Options, JW!WorkerAssumption,
       JW!TickStep, JW!LoopContinues, JW!ErrorStops, JW!TickRejects
  <2>2. task[t] \in [1..n -> {"pending", "done", "failed"}]
    BY <2>1 DEF WorkerInv, TicksAgree
  <2>3. task[t] \in Seq({"pending", "done", "failed"})
    BY DEF WorkerInv, JW!TypeOK
  <2>. QED
    BY <2>1, <2>2, <2>3 DEF WorkerInv, JW!TypeOK
<1>2. UNCHANGED <<workerOptions, signalled, timed, task, stop, waits>>
  BY DEF JW!TickStep, JW!LoopContinues, JW!ErrorStops, JW!TickRejects
<1>3. running' \in BOOLEAN /\ intervals' \in Nat /\ OneInterval'
  BY StopIfRunningKeeps DEF JW!TickStep, JW!LoopContinues, JW!ErrorStops, JW!TickRejects,
     WorkerInv, OneInterval, JW!TypeOK
<1>4. \A u \in Ticks : u # t => phase'[u] = phase[u] /\ next'[u] = next[u]
  BY <1>1 DEF JW!TickStep, JW!LoopContinues, JW!ErrorStops, JW!TickRejects
<1>5. /\ phase' \in [Ticks -> {"unused", "awaiting", "throwing", "settled"}]
      /\ next' \in [Ticks -> 1..n]
  BY <1>1 DEF JW!TickStep, JW!LoopContinues, JW!ErrorStops, JW!TickRejects
<1>6. /\ phase'[t] \in {"awaiting", "throwing", "settled"}
      /\ phase'[t] = "awaiting" => \A k \in 1..(next'[t] - 1) : Settled(t, k)
      /\ phase'[t] = "throwing" => workerOptions.stopOnError
      /\ phase'[t] = "settled" /\ ~workerOptions.stopOnError => \A k \in 1..n : Settled(t, k)
  <2>1. CASE JW!LoopContinues(t)
    <3>1. phase[t] = "awaiting" /\ Settled(t, next[t])
      BY <2>1 DEF JW!LoopContinues, Settled
    <3>2. \A k \in 1..next[t] : Settled(t, k)
      <4>1. \A k \in 1..next[t] : k = next[t] \/ k \in 1..(next[t] - 1)
        BY <1>1
      <4>. QED
        BY <3>1, <4>1 DEF WorkerInv, TicksAgree
    <3>3. CASE next[t] < n
      <4>1. phase'[t] = "awaiting" /\ next'[t] - 1 = next[t]
        BY <1>1, <2>1, <3>1, <3>3 DEF JW!LoopContinues
      <4>. QED
        BY <3>2, <4>1
    <3>4. CASE ~(next[t] < n)
      <4>1. phase'[t] = "settled" /\ next[t] = n
        BY <1>1, <2>1, <3>4 DEF JW!LoopContinues
      <4>. QED
        BY <3>2, <4>1
    <3>. QED
      BY <3>3, <3>4
  <2>2. CASE JW!ErrorStops(t)
    BY <1>1, <2>2 DEF JW!ErrorStops
  <2>3. CASE JW!TickRejects(t)
    <3>1. phase[t] = "throwing" /\ phase'[t] = "settled"
      BY <1>1, <2>3 DEF JW!TickRejects
    <3>. QED
      BY <3>1 DEF WorkerInv, TicksAgree
  <2>. QED
    BY <2>1, <2>2, <2>3 DEF JW!TickStep
<1>7. JW!TypeOK'
  BY <1>2, <1>3, <1>5 DEF WorkerInv, JW!TypeOK
<1>8. TicksAgree'
  <2>. SUFFICES ASSUME NEW u \in Ticks
                PROVE  (/\ phase[u] # "unused" =>
                             task[u] \in [1..n -> {"pending", "done", "failed"}]
                        /\ phase[u] = "unused" => task[u] = <<>> /\ next[u] = 1
                        /\ phase[u] = "awaiting" => \A k \in 1..(next[u] - 1) : Settled(u, k)
                        /\ phase[u] = "throwing" => workerOptions.stopOnError
                        /\ phase[u] = "settled" /\ ~workerOptions.stopOnError =>
                             \A k \in 1..n : Settled(u, k))'
    BY DEF TicksAgree
  <2>1. CASE u = t
    BY <1>1, <1>2, <1>6, <2>1 DEF Settled
  <2>2. CASE u # t
    BY <1>2, <1>4, <2>2 DEF WorkerInv, TicksAgree, Settled
  <2>. QED
    BY <2>1, <2>2
<1>9. StopsAgree'
  <2>1. \A u \in Ticks : /\ phase[u] # "unused" => phase'[u] # "unused"
                         /\ phase[u] = "settled" => phase'[u] = "settled"
    BY <1>1, <1>4, <1>6
  <2>2. timed \subseteq Ticks
    BY DEF WorkerInv, JW!TypeOK
  <2>. QED
    BY <1>2, <2>1, <2>2 DEF WorkerInv, StopsAgree
<1>. QED
  BY <1>3, <1>7, <1>8, <1>9 DEF WorkerInv

LEMMA NextWorker == WorkerInv /\ [JW!Next]_JW!vars => WorkerInv'
<1>. SUFFICES ASSUME WorkerInv, [JW!Next]_JW!vars PROVE WorkerInv'
  OBVIOUS
<1>1. ASSUME UNCHANGED <<workerOptions, timed, phase, next, task>>, JW!TypeOK', OneInterval', StopsAgree'
      PROVE  WorkerInv'
  BY <1>1 DEF WorkerInv, TicksAgree, Settled
<1>2. CASE JW!Start
  BY <1>1, <1>2 DEF JW!Start, JW!tickVars, WorkerInv, JW!TypeOK, OneInterval, StopsAgree
<1>3. CASE JW!Abort
  BY <1>1, <1>3 DEF JW!Abort, JW!tickVars, WorkerInv, JW!TypeOK, OneInterval, StopsAgree
<1>4. ASSUME NEW s \in Stops, JW!Stop(s) PROVE WorkerInv'
  <2>1. /\ JW!StopIfRunning /\ stop[s] = "unused"
        /\ stop' = [stop EXCEPT ![s] = "waiting"] /\ waits' = [waits EXCEPT ![s] = JW!Active]
        /\ UNCHANGED <<workerOptions, signalled, timed, phase, next, task>>
    BY <1>4 DEF JW!Stop, JW!tickVars
  <2>2. running' \in BOOLEAN /\ intervals' \in Nat /\ OneInterval'
    BY <2>1, StopIfRunningKeeps
  <2>3. JW!Active \subseteq timed /\ timed \subseteq Ticks
    BY DEF JW!Active, WorkerInv, JW!TypeOK
  <2>4. JW!TypeOK'
    BY <2>1, <2>2, <2>3 DEF WorkerInv, JW!TypeOK
  <2>5. StopsAgree'
    BY <2>1, <2>3 DEF WorkerInv, StopsAgree, JW!TypeOK
  <2>. QED
    BY <1>1, <2>1, <2>2, <2>4, <2>5
<1>5. ASSUME NEW s \in Stops, JW!StopResolves(s) PROVE WorkerInv'
  <2>1. /\ waits[s] \cap JW!Active = {}
        /\ stop' = [stop EXCEPT ![s] = "resolved"]
        /\ UNCHANGED <<workerOptions, running, intervals, signalled, timed, phase, next, task, waits>>
    BY <1>5 DEF JW!StopResolves, JW!tickVars
  <2>2. \A t \in waits[s] : phase[t] = "settled"
    BY <2>1 DEF JW!Active, WorkerInv, StopsAgree, JW!TypeOK
  <2>3. JW!TypeOK'
    BY <2>1 DEF WorkerInv, JW!TypeOK
  <2>4. StopsAgree'
    BY <2>1, <2>2 DEF WorkerInv, StopsAgree, JW!TypeOK
  <2>. QED
    BY <1>1, <2>1, <2>3, <2>4 DEF WorkerInv, OneInterval
<1>6. ASSUME NEW t \in Ticks, JW!IntervalFires(t) \/ JW!OwnerTicks(t) PROVE WorkerInv'
  BY <1>6, BeginTickKeeps DEF JW!IntervalFires, JW!OwnerTicks
<1>7. CASE UNCHANGED JW!vars
  BY <1>1, <1>7 DEF JW!vars, WorkerInv, JW!TypeOK, OneInterval, StopsAgree
<1>. QED
  BY <1>2, <1>3, <1>4, <1>5, <1>6, <1>7, TickStepKeeps, TaskSettlesKeeps DEF JW!Next

LEMMA WorkerInvariant == SuiteSpec => []WorkerInv
BY SuiteSpecs, InitWorker, NextWorker, PTL DEF JW!Spec

(* stop() without stopOnError resolves only when no job of the ticks it found *)
(* is still processed (RootwareJobWorker.stop, StopIsGraceful).              *)
THEOREM StopWaitsForJobs == SuiteSpec => []StopIsGraceful
<1>1. WorkerInv => StopIsGraceful
  <2>. SUFFICES ASSUME WorkerInv, ~workerOptions.stopOnError, NEW s \in Stops, NEW t \in waits[s],
                       NEW k \in DOMAIN task[t], stop[s] = "resolved"
                PROVE  task[t][k] # "pending"
    BY DEF StopIsGraceful, JW!StopIsGraceful
  <2>1. t \in Ticks /\ phase[t] = "settled"
    BY DEF WorkerInv, StopsAgree, JW!TypeOK
  <2>2. k \in 1..workerOptions.concurrency
    BY <2>1 DEF WorkerInv, TicksAgree
  <2>. QED
    BY <2>1, <2>2 DEF WorkerInv, TicksAgree, Settled
<1>. QED
  BY <1>1, WorkerInvariant, PTL

(* No tick of an interval begins while the worker is stopped, in whatever      *)
(* order it is started, stopped and fails (start, stop, stopIfRunning,        *)
(* StoppedMeansQuiet).                                                       *)
THEOREM StoppedStaysQuiet == SuiteSpec => StoppedMeansQuiet
<1>1. WorkerInv /\ [JW!Next]_JW!vars => [timed' # timed => running]_JW!vars
  <2>. SUFFICES ASSUME WorkerInv, JW!Next, timed' # timed PROVE running
    OBVIOUS
  <2>1. PICK t \in Ticks : JW!IntervalFires(t)
    BY DEF JW!Next, JW!Start, JW!Abort, JW!Stop, JW!StopResolves, JW!OwnerTicks, JW!TickStep,
       JW!LoopContinues, JW!ErrorStops, JW!TickRejects, JW!TaskSettles, JW!tickVars
  <2>. QED
    BY <2>1 DEF JW!IntervalFires, WorkerInv, OneInterval
<1>. QED
  BY <1>1, SuiteSpecs, WorkerInvariant, PTL DEF JW!Spec, StoppedMeansQuiet, JW!StoppedMeansQuiet

-----------------------------------------------------------------------------
(* The http client.  A call has sent its request once per attempt it began,   *)
(* the one at hand excepted until fetch; only a GET begins a second one.      *)
Begun(r) == attempt[r] + (IF place[r] \in {"idle", "cache", "send", "wait"} THEN 0 ELSE 1)

CallInv(r) ==
  /\ options[r].method # "GET" => attempt[r] = 0
  /\ sent[r] <= Begun(r)
  /\ result[r] # None => place[r] = "done"
  /\ result[r] = "HTTP_RETRY_EXHAUSTED" => attempt[r] = Attempts /\ Attempts > 0

(* What the server got was sent, and what is still on the wire besides.       *)
OnTheWay(r) == {w \in wire : w.call = r /\ ~w.reached}

WireInv ==
  /\ IsFiniteSet(wire)
  /\ \A r \in Requests : reached[r] + Cardinality(OnTheWay(r)) <= sent[r]

ClientInv == HC!TypeOK /\ (\A r \in Requests : CallInv(r)) /\ WireInv

LEMMA InitClient == HC!Init => ClientInv
<1>. SUFFICES ASSUME HC!Init PROVE ClientInv
  OBVIOUS
<1>1. Attempts \in Nat /\ None \notin HC!Codes
  BY SuiteAssumption DEF HC!HttpAssumption
<1>2. HC!TypeOK
  <2>1. /\ options \in [Requests -> HC!Options]
        /\ place \in [Requests -> {"idle", "cache", "send", "fetch", "body", "store", "wait", "done"}]
        /\ aborted \in [Requests -> HC!Reasons \cup {None}]
        /\ wire \subseteq [call: Requests, try: 0..Attempts, reached: BOOLEAN]
        /\ cache \in {"ok", None}
        /\ result \in [Requests -> HC!Statuses \cup HC!Codes \cup {None}]
    BY DEF HC!Init
  <2>2. /\ attempt \in [Requests -> 0..Attempts]
        /\ sent \in [Requests -> Nat] /\ reached \in [Requests -> Nat]
    BY <1>1 DEF HC!Init
  <2>. QED
    BY <2>1, <2>2 DEF HC!TypeOK
<1>3. \A r \in Requests : CallInv(r)
  BY <1>1 DEF HC!Init, CallInv, Begun, HC!Codes
<1>4. WireInv
  <2>1. wire = {} /\ \A r \in Requests : OnTheWay(r) = {}
    BY DEF HC!Init, OnTheWay
  <2>. QED
    BY <2>1, FS_EmptySet DEF HC!Init, WireInv
<1>. QED
  BY <1>2, <1>3, <1>4 DEF ClientInv

(* The wire may lose anything at any time.                                    *)
LEMMA LossKeepsWire ==
  ASSUME ClientInv, wire' \subseteq wire, UNCHANGED <<sent, reached>>
  PROVE  WireInv' /\ wire' \subseteq [call: Requests, try: 0..Attempts, reached: BOOLEAN]
<1>1. IsFiniteSet(wire')
  BY FS_Subset DEF ClientInv, WireInv
<1>2. ASSUME NEW r \in Requests PROVE (reached[r] + Cardinality(OnTheWay(r)) <= sent[r])'
  <2>1. OnTheWay(r)' \subseteq OnTheWay(r) /\ OnTheWay(r) \subseteq wire
    BY DEF OnTheWay
  <2>2. IsFiniteSet(OnTheWay(r)) /\ IsFiniteSet(OnTheWay(r)')
    BY <2>1, FS_Subset DEF ClientInv, WireInv
  <2>3. /\ Cardinality(OnTheWay(r)') <= Cardinality(OnTheWay(r))
        /\ Cardinality(OnTheWay(r)) \in Nat /\ Cardinality(OnTheWay(r)') \in Nat
    BY <2>1, <2>2, FS_Subset, FS_CardinalityType
  <2>4. reached[r] + Cardinality(OnTheWay(r)) <= sent[r] /\ reached[r] \in Nat /\ sent[r] \in Nat
    BY DEF ClientInv, WireInv, HC!TypeOK
  <2>. QED
    BY <2>3, <2>4
<1>. QED
  BY <1>1, <1>2 DEF WireInv, ClientInv, HC!TypeOK

(* A step of call r leaves the other calls alone.                             *)
LEMMA OneCallSteps ==
  ASSUME ClientInv, NEW r \in Requests, NEW there,
         place' = [place EXCEPT ![r] = there], UNCHANGED options,
         \A q \in Requests : q # r =>
           attempt'[q] = attempt[q] /\ sent'[q] = sent[q] /\ result'[q] = result[q],
         CallInv(r)'
  PROVE  \A q \in Requests : CallInv(q)'
<1>1. ASSUME NEW q \in Requests, q # r PROVE CallInv(q)'
  <2>1. place'[q] = place[q]
    BY <1>1 DEF ClientInv, HC!TypeOK
  <2>. QED
    BY <1>1, <2>1 DEF ClientInv, CallInv, Begun
<1>. QED
  BY <1>1

LEMMA GotoKeeps ==
  ASSUME ClientInv, NEW r \in Requests, place[r] # "done",
         NEW there \in {"cache", "send", "fetch", "body", "store"},
         HC!Goto(r, there), UNCHANGED <<options, attempt, sent, result>>,
         place[r] \in {"fetch", "body", "store"} => there \in {"fetch", "body", "store"}
  PROVE  /\ place' \in [Requests -> {"idle", "cache", "send", "fetch", "body", "store", "wait", "done"}]
         /\ \A q \in Requests : CallInv(q)'
<1>1. /\ place' = [place EXCEPT ![r] = there] /\ place'[r] = there
      /\ place' \in [Requests -> {"idle", "cache", "send", "fetch", "body", "store", "wait", "done"}]
  BY DEF HC!Goto, ClientInv, HC!TypeOK
<1>2. attempt[r] \in Nat /\ sent[r] \in Nat
  BY SuiteAssumption DEF ClientInv, HC!TypeOK, HC!HttpAssumption
<1>3. CallInv(r)'
  <2>1. Begun(r) <= Begun(r)' /\ Begun(r) \in Nat /\ Begun(r)' \in Nat
    BY <1>1, <1>2 DEF Begun, ClientInv, HC!TypeOK
  <2>2. CallInv(r)
    BY DEF ClientInv
  <2>3. sent'[r] <= Begun(r)'
    BY <1>2, <2>1, <2>2 DEF CallInv
  <2>. QED
    BY <1>1, <2>2, <2>3, SuiteAssumption DEF CallInv, HC!HttpAssumption, HC!Codes
<1>. QED
  BY <1>1, <1>3, OneCallSteps

(* A call that ends does so with what it may end with.                        *)
LEMMA FinishKeeps ==
  ASSUME ClientInv, NEW r \in Requests, place[r] # "done",
         NEW what \in HC!Statuses \cup HC!Codes, HC!Finish(r, what),
         what = "HTTP_RETRY_EXHAUSTED" => attempt[r] = Attempts /\ Attempts > 0,
         UNCHANGED <<options, attempt, sent>>
  PROVE  /\ place' \in [Requests -> {"idle", "cache", "send", "fetch", "body", "store", "wait", "done"}]
         /\ result' \in [Requests -> HC!Statuses \cup HC!Codes \cup {None}]
         /\ \A q \in Requests : CallInv(q)'
<1>1. /\ place' = [place EXCEPT ![r] = "done"] /\ place'[r] = "done"
      /\ result' = [result EXCEPT ![r] = what] /\ result'[r] = what
      /\ place' \in [Requests -> {"idle", "cache", "send", "fetch", "body", "store", "wait", "done"}]
      /\ result' \in [Requests -> HC!Statuses \cup HC!Codes \cup {None}]
  BY DEF HC!Finish, HC!Goto, ClientInv, HC!TypeOK
<1>2. attempt[r] \in Nat /\ sent[r] \in Nat
  BY SuiteAssumption DEF ClientInv, HC!TypeOK, HC!HttpAssumption
<1>3. CallInv(r)'
  <2>1. Begun(r) <= Begun(r)' /\ Begun(r) \in Nat /\ Begun(r)' \in Nat
    BY <1>1, <1>2 DEF Begun, ClientInv, HC!TypeOK
  <2>2. CallInv(r)
    BY DEF ClientInv
  <2>3. sent'[r] <= Begun(r)'
    BY <1>2, <2>1, <2>2 DEF CallInv
  <2>. QED
    BY <1>1, <2>2, <2>3 DEF CallInv
<1>4. \A q \in Requests : q # r => result'[q] = result[q]
  BY <1>1 DEF ClientInv, HC!TypeOK
<1>. QED
  BY <1>1, <1>3, <1>4, OneCallSteps

(* One that tries again is a GET with an attempt left.                        *)
LEMMA RetryKeeps ==
  ASSUME ClientInv, NEW r \in Requests, place[r] \in {"fetch", "body"},
         NEW retryable, HC!ShouldRetry(r, retryable), HC!Retry(r), UNCHANGED <<options, sent>>
  PROVE  /\ place' \in [Requests -> {"idle", "cache", "send", "fetch", "body", "store", "wait", "done"}]
         /\ attempt' \in [Requests -> 0..Attempts]
         /\ UNCHANGED result
         /\ \A q \in Requests : CallInv(q)'
<1>1. /\ place' = [place EXCEPT ![r] = "wait"] /\ place'[r] = "wait"
      /\ place' \in [Requests -> {"idle", "cache", "send", "fetch", "body", "store", "wait", "done"}]
      /\ attempt' = [attempt EXCEPT ![r] = @ + 1] /\ UNCHANGED result
      /\ attempt[r] < Attempts /\ options[r].method = "GET"
  BY DEF HC!Retry, HC!Goto, HC!ShouldRetry, ClientInv, HC!TypeOK
<1>2. attempt[r] \in Nat /\ sent[r] \in Nat /\ Attempts \in Nat
  BY SuiteAssumption DEF ClientInv, HC!TypeOK, HC!HttpAssumption
<1>3. /\ attempt'[r] = attempt[r] + 1
      /\ \A q \in Requests : q # r => attempt'[q] = attempt[q]
      /\ attempt' \in [Requests -> 0..Attempts]
  BY <1>1, <1>2 DEF ClientInv, HC!TypeOK
<1>4. CallInv(r)'
  <2>1. CallInv(r) /\ Begun(r) = attempt[r] + 1
    BY <1>1 DEF ClientInv, Begun
  <2>2. result[r] = None
    BY <2>1 DEF CallInv
  <2>3. sent'[r] <= Begun(r)'
    BY <1>1, <1>2, <1>3, <2>1 DEF CallInv, Begun
  <2>. QED
    BY <1>1, <1>2, <1>3, <2>2, <2>3, SuiteAssumption DEF CallInv, HC!HttpAssumption, HC!Codes
<1>. QED
  BY <1>1, <1>3, <1>4, OneCallSteps

LEMMA FailedKeeps ==
  ASSUME ClientInv, NEW r \in Requests, place[r] \in {"fetch", "body"},
         NEW code \in HC!Codes \ {"HTTP_RETRY_EXHAUSTED"}, HC!Failed(r, code),
         UNCHANGED <<options, sent>>
  PROVE  /\ place' \in [Requests -> {"idle", "cache", "send", "fetch", "body", "store", "wait", "done"}]
         /\ attempt' \in [Requests -> 0..Attempts]
         /\ result' \in [Requests -> HC!Statuses \cup HC!Codes \cup {None}]
         /\ \A q \in Requests : CallInv(q)'
<1>1. CASE HC!ShouldRetry(r, HC!IsRetryableError(code))
  BY <1>1, RetryKeeps DEF HC!Failed, ClientInv, HC!TypeOK
<1>2. CASE ~HC!ShouldRetry(r, HC!IsRetryableError(code))
  <2> DEFINE what == IF HC!Exhausted(r, code) THEN "HTTP_RETRY_EXHAUSTED" ELSE code
  <2>1. HC!Finish(r, what) /\ UNCHANGED attempt
    BY <1>2 DEF HC!Failed
  <2>2. what \in HC!Codes
    BY DEF HC!Codes
  <2>3. what = "HTTP_RETRY_EXHAUSTED" => attempt[r] = Attempts /\ Attempts > 0
    BY SuiteAssumption DEF HC!Exhausted, ClientInv, HC!TypeOK, HC!HttpAssumption
  <2>. HIDE DEF what
  <2>. QED
    BY <2>1, <2>2, <2>3, FinishKeeps DEF ClientInv, HC!TypeOK
<1>. QED
  BY <1>1, <1>2

LEMMA SendKeeps ==
  ASSUME ClientInv, NEW r \in Requests, HC!Send(r)
  PROVE  ClientInv'
<1> DEFINE w == [call |-> r, try |-> attempt[r], reached |-> FALSE]
<1>1. /\ place[r] = "send" /\ HC!Goto(r, "fetch")
      /\ UNCHANGED <<options, attempt, aborted, reached, cache, result>>
  BY DEF HC!Send
<1>2. CASE aborted[r] # None
  <2>1. UNCHANGED <<wire, sent>>
    BY <1>2 DEF HC!Send
  <2>2. /\ place' \in [Requests -> {"idle", "cache", "send", "fetch", "body", "store", "wait", "done"}]
        /\ \A q \in Requests : CallInv(q)'
    BY <1>1, <2>1, GotoKeeps
  <2>. QED
    BY <1>1, <2>1, <2>2, LossKeepsWire DEF ClientInv, HC!TypeOK
<1>3. CASE aborted[r] = None
  <2>1. wire' = wire \cup {w} /\ sent' = [sent EXCEPT ![r] = @ + 1]
    BY <1>3 DEF HC!Send
  <2>2. /\ place' = [place EXCEPT ![r] = "fetch"] /\ place'[r] = "fetch"
        /\ place' \in [Requests -> {"idle", "cache", "send", "fetch", "body", "store", "wait", "done"}]
    BY <1>1 DEF HC!Goto, ClientInv, HC!TypeOK
  <2>3. /\ attempt[r] \in Nat /\ sent[r] \in Nat /\ sent'[r] = sent[r] + 1
        /\ \A q \in Requests : q # r => sent'[q] = sent[q]
        /\ sent' \in [Requests -> Nat] /\ reached \in [Requests -> Nat]
    BY <2>1, SuiteAssumption DEF ClientInv, HC!TypeOK, HC!HttpAssumption
  <2>4. CallInv(r)'
    <3>1. CallInv(r) /\ Begun(r) = attempt[r] /\ Begun(r)' = attempt[r] + 1
      BY <1>1, <2>2, <2>3 DEF ClientInv, Begun
    <3>2. sent'[r] <= Begun(r)'
      BY <2>3, <3>1 DEF CallInv
    <3>3. result[r] = None
      BY <1>1, <3>1 DEF CallInv
    <3>. QED
      BY <1>1, <3>1, <3>2, <3>3, SuiteAssumption DEF CallInv, HC!HttpAssumption, HC!Codes
  <2>5. \A q \in Requests : CallInv(q)'
    BY <1>1, <2>2, <2>3, <2>4, OneCallSteps
  <2>6. IsFiniteSet(wire')
    BY <2>1, FS_AddElement DEF ClientInv, WireInv
  <2>7. ASSUME NEW q \in Requests PROVE (reached[q] + Cardinality(OnTheWay(q)) <= sent[q])'
    <3>1. IsFiniteSet(OnTheWay(q)) /\ Cardinality(OnTheWay(q)) \in Nat
      BY FS_Subset, FS_CardinalityType DEF ClientInv, WireInv, OnTheWay
    <3>2. /\ reached[q] + Cardinality(OnTheWay(q)) <= sent[q]
          /\ reached[q] \in Nat /\ sent[q] \in Nat /\ reached'[q] = reached[q]
      BY <1>1, <2>3 DEF ClientInv, WireInv, HC!TypeOK
    <3>3. CASE q = r
      <4>1. OnTheWay(q)' = OnTheWay(q) \cup {w}
        BY <2>1, <3>3 DEF OnTheWay
      <4> DEFINE before == OnTheWay(q)
      <4>2. IsFiniteSet(before) /\ Cardinality(before) \in Nat
        BY <3>1
      <4>. HIDE DEF before
      <4>3. Cardinality(before \cup {w}) \in {Cardinality(before), Cardinality(before) + 1}
        BY <4>2, FS_AddElement
      <4>4. Cardinality(OnTheWay(q)') \in {Cardinality(OnTheWay(q)), Cardinality(OnTheWay(q)) + 1}
        BY <4>1, <4>3 DEF before
      <4>. QED
        BY <2>3, <3>1, <3>2, <3>3, <4>4
    <3>4. CASE q # r
      <4>1. OnTheWay(q)' = OnTheWay(q)
        BY <2>1, <3>4 DEF OnTheWay
      <4>. QED
        BY <2>3, <3>2, <3>4, <4>1
    <3>. QED
      BY <3>3, <3>4
  <2>8. wire' \subseteq [call: Requests, try: 0..Attempts, reached: BOOLEAN]
    <3>1. attempt[r] \in 0..Attempts
      BY DEF ClientInv, HC!TypeOK
    <3>2. w \in [call: Requests, try: 0..Attempts, reached: BOOLEAN]
      BY <3>1
    <3>. QED
      BY <2>1, <3>2 DEF ClientInv, HC!TypeOK
  <2>9. HC!TypeOK'
    BY <1>1, <2>2, <2>3, <2>8 DEF ClientInv, HC!TypeOK
  <2>. QED
    BY <2>5, <2>6, <2>7, <2>9 DEF ClientInv, WireInv
<1>. QED
  BY <1>2, <1>3

LEMMA ReachesKeeps ==
  ASSUME ClientInv, NEW w \in wire, HC!Reaches(w)
  PROVE  ClientInv'
<1> DEFINE v == [w EXCEPT !.reached = TRUE]
           r == w.call
<1>1. /\ ~w.reached /\ wire' = (wire \ {w}) \cup {v}
      /\ reached' = [reached EXCEPT ![w.call] = @ + 1]
      /\ UNCHANGED <<options, place, attempt, aborted, sent, cache, result>>
  BY DEF HC!Reaches
<1>2. w \in [call: Requests, try: 0..Attempts, reached: BOOLEAN]
  BY DEF ClientInv, HC!TypeOK
<1>3. /\ r \in Requests /\ v.call = r /\ v.reached = TRUE
      /\ v \in [call: Requests, try: 0..Attempts, reached: BOOLEAN]
  BY <1>2
<1>4. /\ reached[r] \in Nat /\ reached'[r] = reached[r] + 1
      /\ \A q \in Requests : q # r => reached'[q] = reached[q]
      /\ reached' \in [Requests -> Nat]
  BY <1>1, <1>3 DEF ClientInv, HC!TypeOK
<1>5. wire' \subseteq [call: Requests, try: 0..Attempts, reached: BOOLEAN]
  BY <1>1, <1>3 DEF ClientInv, HC!TypeOK
<1>6. IsFiniteSet(wire')
  BY <1>1, FS_AddElement, FS_RemoveElement DEF ClientInv, WireInv
<1>. HIDE DEF v, r
<1>7. ASSUME NEW q \in Requests PROVE (reached[q] + Cardinality(OnTheWay(q)) <= sent[q])'
  <2>1. IsFiniteSet(OnTheWay(q)) /\ Cardinality(OnTheWay(q)) \in Nat
    BY FS_Subset, FS_CardinalityType DEF ClientInv, WireInv, OnTheWay
  <2>2. /\ reached[q] + Cardinality(OnTheWay(q)) <= sent[q]
        /\ reached[q] \in Nat /\ sent[q] \in Nat /\ sent'[q] = sent[q]
    BY <1>1 DEF ClientInv, WireInv, HC!TypeOK
  <2>3. CASE q = r
    <3>1. OnTheWay(q)' = OnTheWay(q) \ {w} /\ w \in OnTheWay(q)
      BY <1>1, <1>3, <2>3 DEF OnTheWay, r
    <3>2. Cardinality(OnTheWay(q)') = Cardinality(OnTheWay(q)) - 1
      BY <2>1, <3>1, FS_RemoveElement
    <3>. QED
      BY <1>4, <2>1, <2>2, <2>3, <3>2
  <2>4. CASE q # r
    <3>1. OnTheWay(q)' = OnTheWay(q)
      BY <1>1, <1>3, <2>4 DEF OnTheWay, r
    <3>. QED
      BY <1>4, <2>2, <2>4, <3>1
  <2>. QED
    BY <2>3, <2>4
<1>8. HC!TypeOK'
  BY <1>1, <1>4, <1>5 DEF ClientInv, HC!TypeOK
<1>9. \A q \in Requests : CallInv(q)'
  BY <1>1 DEF ClientInv, CallInv, Begun
<1>. QED
  BY <1>6, <1>7, <1>8, <1>9 DEF ClientInv, WireInv

LEMMA AnswerKeeps ==
  ASSUME ClientInv, NEW r \in Requests, place[r] = "fetch", NEW status \in HC!Statuses,
         HC!Respond(r, status), UNCHANGED <<options, sent>>
  PROVE  /\ place' \in [Requests -> {"idle", "cache", "send", "fetch", "body", "store", "wait", "done"}]
         /\ attempt' \in [Requests -> 0..Attempts]
         /\ result' \in [Requests -> HC!Statuses \cup HC!Codes \cup {None}]
         /\ \A q \in Requests : CallInv(q)'
<1>1. CASE HC!ShouldRetry(r, HC!IsRetryableStatus(status))
  BY <1>1, RetryKeeps DEF HC!Respond, ClientInv, HC!TypeOK
<1>2. CASE /\ ~HC!ShouldRetry(r, HC!IsRetryableStatus(status))
           /\ \E there \in {"body", "store"} :
                HC!Goto(r, there) /\ UNCHANGED <<attempt, result>>
  BY <1>2, GotoKeeps DEF ClientInv, HC!TypeOK
<1>3. CASE /\ ~HC!ShouldRetry(r, HC!IsRetryableStatus(status))
           /\ HC!Finish(r, status) /\ UNCHANGED attempt
  BY <1>3, FinishKeeps DEF ClientInv, HC!TypeOK, HC!Statuses
<1>. QED
  BY <1>1, <1>2, <1>3 DEF HC!Respond

(* The steps of one call before and after its fetch, but for Send.            *)
LEMMA StepKeeps ==
  ASSUME ClientInv, NEW r \in Requests,
         HC!Begin(r) \/ HC!CacheHit(r) \/ HC!CacheMiss(r) \/ HC!BodyRead(r) \/ HC!CacheStored(r)
           \/ HC!WaitOver(r)
  PROVE  ClientInv'
<1>1. /\ UNCHANGED <<options, aborted, wire, sent, reached>> /\ cache' \in {"ok", None}
  BY DEF HC!Begin, HC!CacheHit, HC!CacheMiss, HC!BodyRead, HC!CacheStored, HC!WaitOver,
     ClientInv, HC!TypeOK
<1>2. /\ place' \in [Requests -> {"idle", "cache", "send", "fetch", "body", "store", "wait", "done"}]
      /\ attempt' \in [Requests -> 0..Attempts]
      /\ result' \in [Requests -> HC!Statuses \cup HC!Codes \cup {None}]
      /\ \A q \in Requests : CallInv(q)'
  <2>1. CASE HC!Begin(r)
    <3> DEFINE there == IF HC!IsCacheable(options[r]) THEN "cache" ELSE "send"
    <3>1. place[r] = "idle" /\ HC!Goto(r, there) /\ there \in {"cache", "send"}
          /\ UNCHANGED <<attempt, result>>
      BY <2>1 DEF HC!Begin
    <3>. HIDE DEF there
    <3>. QED
      BY <1>1, <3>1, GotoKeeps DEF ClientInv, HC!TypeOK
  <2>2. CASE HC!CacheMiss(r) \/ HC!WaitOver(r)
    BY <1>1, <2>2, GotoKeeps DEF HC!CacheMiss, HC!WaitOver, ClientInv, HC!TypeOK
  <2>3. CASE HC!CacheHit(r)
    <3>1. /\ place[r] = "cache" /\ cache = "ok" /\ HC!Finish(r, "ok") /\ UNCHANGED attempt
      BY <2>3 DEF HC!CacheHit, ClientInv, HC!TypeOK
    <3>. QED
      BY <1>1, <3>1, FinishKeeps DEF ClientInv, HC!TypeOK, HC!Statuses
  <2>4. CASE HC!CacheStored(r)
    <3>1. /\ place[r] = "store" /\ HC!Finish(r, "ok") /\ UNCHANGED attempt
      BY <2>4 DEF HC!CacheStored
    <3>. QED
      BY <1>1, <3>1, FinishKeeps DEF ClientInv, HC!TypeOK, HC!Statuses
  <2>5. CASE HC!BodyRead(r)
    BY <1>1, <2>5, FailedKeeps DEF HC!BodyRead, HC!Codes
  <2>. QED
    BY <2>1, <2>2, <2>3, <2>4, <2>5
<1>3. WireInv' /\ wire' \subseteq [call: Requests, try: 0..Attempts, reached: BOOLEAN]
  BY <1>1, LossKeepsWire
<1>4. HC!TypeOK'
  BY <1>1, <1>2, <1>3 DEF ClientInv, HC!TypeOK
<1>. QED
  BY <1>2, <1>3, <1>4 DEF ClientInv

LEMMA FetchKeeps ==
  ASSUME ClientInv, NEW r \in Requests, HC!FetchSettles(r)
  PROVE  ClientInv'
<1>1. /\ UNCHANGED <<options, aborted, sent, reached, cache>> /\ wire' \subseteq wire
  BY DEF HC!FetchSettles, HC!TimesOut, HC!FetchAborts, HC!NetworkFails, HC!Answered
<1>2. /\ place' \in [Requests -> {"idle", "cache", "send", "fetch", "body", "store", "wait", "done"}]
      /\ attempt' \in [Requests -> 0..Attempts]
      /\ result' \in [Requests -> HC!Statuses \cup HC!Codes \cup {None}]
      /\ \A q \in Requests : CallInv(q)'
  <2>1. CASE HC!TimesOut(r)
    BY <1>1, <2>1, FailedKeeps DEF HC!TimesOut, HC!Codes
  <2>2. CASE HC!FetchAborts(r)
    <3>1. aborted[r] \in HC!Reasons /\ place[r] = "fetch"
          /\ HC!Failed(r, HC!ClassifyAbort(aborted[r]))
      BY <2>2 DEF HC!FetchAborts, ClientInv, HC!TypeOK
    <3>2. HC!ClassifyAbort(aborted[r]) \in HC!Codes \ {"HTTP_RETRY_EXHAUSTED"}
      BY <3>1 DEF HC!ClassifyAbort, HC!Reasons, HC!Codes
    <3>. QED
      BY <1>1, <3>1, <3>2, FailedKeeps
  <2>3. ASSUME NEW w \in wire, w.call = r, HC!NetworkFails(w)
        PROVE  /\ place' \in [Requests -> {"idle", "cache", "send", "fetch", "body", "store", "wait", "done"}]
               /\ attempt' \in [Requests -> 0..Attempts]
               /\ result' \in [Requests -> HC!Statuses \cup HC!Codes \cup {None}]
               /\ \A q \in Requests : CallInv(q)'
    BY <1>1, <2>3, FailedKeeps DEF HC!NetworkFails, HC!Current, HC!Codes
  <2>4. ASSUME NEW w \in wire, w.call = r, NEW status \in HC!Statuses, HC!Answered(w, status)
        PROVE  /\ place' \in [Requests -> {"idle", "cache", "send", "fetch", "body", "store", "wait", "done"}]
               /\ attempt' \in [Requests -> 0..Attempts]
               /\ result' \in [Requests -> HC!Statuses \cup HC!Codes \cup {None}]
               /\ \A q \in Requests : CallInv(q)'
    BY <1>1, <2>4, AnswerKeeps DEF HC!Answered, HC!Current
  <2>. QED
    BY <2>1, <2>2, <2>3, <2>4 DEF HC!FetchSettles
<1>3. WireInv' /\ wire' \subseteq [call: Requests, try: 0..Attempts, reached: BOOLEAN]
  BY <1>1, LossKeepsWire
<1>4. HC!TypeOK'
  BY <1>1, <1>2, <1>3 DEF ClientInv, HC!TypeOK
<1>. QED
  BY <1>2, <1>3, <1>4 DEF ClientInv

LEMMA NextClient == ClientInv /\ [HC!Next]_HC!vars => ClientInv'
<1>. SUFFICES ASSUME ClientInv, [HC!Next]_HC!vars PROVE ClientInv'
  OBVIOUS
<1>1. ASSUME NEW r \in Requests, NEW why \in HC!Reasons, HC!Abort(r, why) PROVE ClientInv'
  BY <1>1 DEF HC!Abort, ClientInv, HC!TypeOK, CallInv, Begun, WireInv, OnTheWay
<1>2. ASSUME NEW w \in wire, HC!Lost(w) PROVE ClientInv'
  <2>1. wire' \subseteq wire /\ UNCHANGED <<options, place, attempt, aborted, sent, reached, cache, result>>
    BY <1>2 DEF HC!Lost
  <2>2. WireInv' /\ wire' \subseteq [call: Requests, try: 0..Attempts, reached: BOOLEAN]
    BY <2>1, LossKeepsWire
  <2>. QED
    BY <2>1, <2>2 DEF ClientInv, HC!TypeOK, CallInv, Begun
<1>3. CASE UNCHANGED HC!vars
  BY <1>3 DEF HC!vars, ClientInv, HC!TypeOK, CallInv, Begun, WireInv, OnTheWay
<1>. QED
  BY <1>1, <1>2, <1>3, StepKeeps, SendKeeps, FetchKeeps, ReachesKeeps DEF HC!Next, HC!Steps

LEMMA ClientInvariant == SuiteSpec => []ClientInv
BY SuiteSpecs, InitClient, NextClient, PTL DEF HC!Spec

(* Nothing goes beyond what it was granted: the units of a limiter within a    *)
(* time, the requests a call with retries sends, those of them that the       *)
(* server gets of a method that is not idempotent, and the word exhausted     *)
(* (rate limiters, executeRequest, BudgetsAreKept).                          *)
THEOREM BudgetsHold == SuiteSpec => []BudgetsAreKept
<1>1. ClientInv => HC!SentWithinBudget
  <2>. SUFFICES ASSUME ClientInv, NEW r \in Requests
                PROVE  /\ reached[r] <= sent[r]
                       /\ sent[r] <= IF options[r].method = "GET" THEN Attempts + 1 ELSE 1
    BY DEF HC!SentWithinBudget
  <2>1. /\ reached[r] \in Nat /\ sent[r] \in Nat /\ attempt[r] \in 0..Attempts /\ Attempts \in Nat
    BY SuiteAssumption DEF ClientInv, HC!TypeOK, HC!HttpAssumption
  <2>2. CallInv(r) /\ reached[r] + Cardinality(OnTheWay(r)) <= sent[r]
    BY DEF ClientInv, WireInv
  <2>3. Cardinality(OnTheWay(r)) \in Nat
    BY FS_Subset, FS_CardinalityType DEF ClientInv, WireInv, OnTheWay
  <2>4. Begun(r) \in Nat /\ Begun(r) <= attempt[r] + 1
    BY <2>1 DEF Begun
  <2>. QED
    BY <2>1, <2>2, <2>3, <2>4 DEF CallInv
<1>2. ClientInv => HC!ExhaustedMeansTried
  BY DEF ClientInv, CallInv, HC!ExhaustedMeansTried
<1>. QED
  BY <1>1, <1>2, SuiteSpecs, ClientInvariant, GrantsWithinBudget, PTL DEF BudgetsAreKept

-----------------------------------------------------------------------------
(* The log sinks.  Every batch under way has lines, and a sink that is not   *)
(* asynchronous never has one under way.                                     *)
BatchesAgree ==
  /\ ~async => flights = <<>>
  /\ \A i \in DOMAIN flights : flights[i].batch # <<>>

(* Where the lines of a buffer c would stand: the lines a single sink took,   *)
(* the batches under way and c follow one another without a gap.             *)
InLine(c) ==
  /\ LS!GoesOn(out["first"], 0)
  /\ \A i \in DOMAIN flights : LS!GoesOn(flights[i].batch, LS!EndOf(i - 1))
  /\ LS!GoesOn(c, LS!EndOf(Len(flights)))

Held(c) == LS!ToSet(c) \cup LS!UnderWay \cup LS!Taken

SinkInv == LS!TypeOK /\ BatchesAgree /\ LS!NoLineLost /\ LS!InOrder

LEMMA ConcatHolds ==
  ASSUME NEW S, NEW s \in Seq(S), NEW t \in Seq(S)
  PROVE  /\ s \o t \in Seq(S) /\ Len(s \o t) = Len(s) + Len(t)
         /\ LS!ToSet(s \o t) = LS!ToSet(s) \cup LS!ToSet(t)
<1>1. /\ s \o t \in Seq(S)
      /\ Len(s \o t) = Len(s) + Len(t)
      /\ \A k \in 1..Len(s) + Len(t) :
           (s \o t)[k] = IF k <= Len(s) THEN s[k] ELSE t[k - Len(s)]
  BY ConcatProperties
<1>2. LS!ToSet(s \o t) \subseteq LS!ToSet(s) \cup LS!ToSet(t)
  BY <1>1 DEF LS!ToSet
<1>3. LS!ToSet(s) \subseteq LS!ToSet(s \o t)
  BY <1>1 DEF LS!ToSet
<1>4. ASSUME NEW k \in 1..Len(t) PROVE t[k] \in LS!ToSet(s \o t)
  <2>1. Len(s) + k \in 1..Len(s) + Len(t) /\ (s \o t)[Len(s) + k] = t[k]
    BY <1>1, <1>4
  <2>2. DOMAIN (s \o t) = 1..Len(s) + Len(t)
    BY <1>1
  <2>. QED
    BY <2>1, <2>2, Zenon DEF LS!ToSet
<1>5. LS!ToSet(t) \subseteq LS!ToSet(s \o t)
  <2>1. DOMAIN t = 1..Len(t)
    OBVIOUS
  <2>. QED
    BY <1>4, <2>1, Zenon DEF LS!ToSet
<1>. QED
  BY <1>1, <1>2, <1>3, <1>5

LEMMA AppendHolds ==
  ASSUME NEW S, NEW s \in Seq(S), NEW e \in S
  PROVE  /\ Append(s, e) \in Seq(S) /\ Len(Append(s, e)) = Len(s) + 1
         /\ LS!ToSet(Append(s, e)) = LS!ToSet(s) \cup {e}
BY AppendProperties DEF LS!ToSet

LEMMA RemoveAtHolds ==
  ASSUME NEW S, NEW s \in Seq(S), NEW i \in 1..Len(s)
  PROVE  /\ LS!RemoveAt(s, i) \in Seq(S)
         /\ Len(LS!RemoveAt(s, i)) = Len(s) - 1
         /\ \A k \in 1..Len(s) - 1 :
              LS!RemoveAt(s, i)[k] = IF k < i THEN s[k] ELSE s[k + 1]
<1>. DEFINE a == SubSeq(s, 1, i - 1)
            b == SubSeq(s, i + 1, Len(s))
<1>1. a \in Seq(S) /\ Len(a) = i - 1 /\ \A k \in 1..i - 1 : a[k] = s[k]
  BY SubSeqProperties
<1>2. b \in Seq(S) /\ Len(b) = Len(s) - i /\ \A k \in 1..Len(s) - i : b[k] = s[k + i]
  BY SubSeqProperties
<1>3. LS!RemoveAt(s, i) = a \o b
  BY DEF LS!RemoveAt
<1>. HIDE DEF a, b
<1>4. /\ a \o b \in Seq(S) /\ Len(a \o b) = Len(a) + Len(b)
      /\ \A k \in 1..Len(a) + Len(b) :
           (a \o b)[k] = IF k <= Len(a) THEN a[k] ELSE b[k - Len(a)]
  BY <1>1, <1>2, ConcatProperties
<1>. QED
  BY <1>1, <1>2, <1>3, <1>4

LEMMA ElementOf ==
  ASSUME NEW S, NEW s \in Seq(S), NEW i \in DOMAIN s
  PROVE  s[i] \in S
OBVIOUS

LEMMA InitSink == LS!Init => SinkInv
<1>. SUFFICES ASSUME LS!Init PROVE SinkInv
  OBVIOUS
<1>1. MaxLines \in Nat /\ MaxFailures \in Nat
  BY SuiteAssumption DEF LS!SinkAssumption
<1>2. LS!TypeOK
  <2>1. /\ tree \in Trees /\ async \in BOOLEAN /\ closed \in BOOLEAN /\ ended \in BOOLEAN
        /\ crashed \in BOOLEAN /\ disturbed \in BOOLEAN
    BY Zenon DEF LS!Init
  <2>3. out \in [LS!Leaves -> Seq(LS!Lines)]
    BY DEF LS!Init
  <2>2. /\ logged \in 0..MaxLines /\ failures \in 0..MaxFailures /\ chunks \in Seq(LS!Lines)
        /\ flights \in Seq([batch: Seq(LS!Lines), by: {"write", "flush", "interval", "close"}])
    BY <1>1 DEF LS!Init
  <2>. QED
    BY <2>1, <2>2, <2>3 DEF LS!TypeOK
<1>3. LS!Taken = {} /\ LS!UnderWay = {} /\ LS!ToSet(chunks) = {}
  BY DEF LS!Init, LS!Taken, LS!UnderWay, LS!ToSet, LS!Leaves
<1>4. LS!NoLineLost
  BY <1>3 DEF LS!Init, LS!NoLineLost
<1>5. LS!InOrder
  BY DEF LS!Init, LS!InOrder, LS!GoesOn, LS!EndOf, LS!Leaves
<1>. QED
  BY <1>2, <1>4, <1>5 DEF LS!Init, BatchesAgree, SinkInv

(* Where the lines taken and the batches under way end is a line or 0.        *)
LEMMA EndIsLine ==
  ASSUME LS!TypeOK, BatchesAgree, NEW i \in 0..Len(flights)
  PROVE  LS!EndOf(i) \in Nat
<1>1. Len(out["first"]) \in Nat
  BY DEF LS!TypeOK, LS!Leaves
<1>2. CASE i = 0
  BY <1>1, <1>2 DEF LS!EndOf
<1>3. CASE i # 0
  <2>0. flights \in Seq([batch: Seq(LS!Lines), by: {"write", "flush", "interval", "close"}])
    BY DEF LS!TypeOK
  <2>4. i \in DOMAIN flights
    BY <1>3, <2>0
  <2>5. flights[i] \in [batch: Seq(LS!Lines), by: {"write", "flush", "interval", "close"}]
    BY <2>0, <2>4, ElementOf, Zenon
  <2>1. flights[i].batch \in Seq(LS!Lines) /\ flights[i].batch # <<>>
    BY <2>4, <2>5 DEF BatchesAgree
  <2>2. \A b \in Seq(LS!Lines) : b # <<>> => b[Len(b)] \in LS!Lines
    OBVIOUS
  <2>3. flights[i].batch[Len(flights[i].batch)] \in LS!Lines
    BY <2>1, <2>2
  <2>. QED
    BY <1>3, <2>3 DEF LS!EndOf, LS!Last, LS!Lines
<1>. QED
  BY <1>2, <1>3

(* A write keeps what the leaves took; one that succeeds adds the batch.      *)
LEMMA DeliverGives ==
  ASSUME LS!TypeOK, NEW batch \in Seq(LS!Lines), NEW ok \in SUBSET LS!Leaves, LS!Deliver(batch, ok)
  PROVE  /\ failures' \in 0..MaxFailures
         /\ out' \in [LS!Leaves -> Seq(LS!Lines)]
         /\ LS!Taken \subseteq LS!Taken'
         /\ LS!Taken' \subseteq LS!Taken \cup LS!ToSet(batch)
         /\ LS!Succeeds(ok) => LS!ToSet(batch) \subseteq LS!Taken'
         /\ tree = "plain" =>
              out'["first"] = IF LS!Succeeds(ok) THEN out["first"] \o batch ELSE out["first"]
<1>1. failures' \in 0..MaxFailures
  BY SuiteAssumption DEF LS!TypeOK, LS!Deliver, LS!SinkAssumption
<1>2. out' = [l \in LS!Leaves |-> IF l \in LS!Takes(ok) THEN out[l] \o batch ELSE out[l]]
  BY DEF LS!Deliver
<1>3. \A l \in LS!Leaves : out[l] \in Seq(LS!Lines)
  BY DEF LS!TypeOK
<1>4. \A l \in LS!Leaves :
         /\ out'[l] \in Seq(LS!Lines)
         /\ LS!ToSet(out'[l]) = IF l \in LS!Takes(ok) THEN LS!ToSet(out[l]) \cup LS!ToSet(batch)
                                                     ELSE LS!ToSet(out[l])
  <2>. TAKE l \in LS!Leaves
  <2>1. /\ out[l] \o batch \in Seq(LS!Lines)
        /\ LS!ToSet(out[l] \o batch) = LS!ToSet(out[l]) \cup LS!ToSet(batch)
    BY <1>3, ConcatHolds
  <2>. QED
    BY <1>2, <1>3, <2>1
<1>5. out' \in [LS!Leaves -> Seq(LS!Lines)]
  BY <1>2, <1>4
<1>6. LS!Taken \subseteq LS!Taken' /\ LS!Taken' \subseteq LS!Taken \cup LS!ToSet(batch)
  BY <1>4 DEF LS!Taken
<1>7. ASSUME LS!Succeeds(ok) PROVE LS!ToSet(batch) \subseteq LS!Taken'
  <2>1. PICK l \in LS!Leaves : l \in LS!Takes(ok)
    BY <1>7, SuiteAssumption DEF LS!Succeeds, LS!Takes, LS!FanoutTakes, LS!FailoverTakes,
       LS!Leaves, LS!TypeOK, LS!SinkAssumption
  <2>. QED
    BY <1>4, <2>1 DEF LS!Taken
<1>8. tree = "plain" => (LS!Succeeds(ok) <=> "first" \in LS!Takes(ok))
  BY DEF LS!Succeeds, LS!Takes
<1>. QED
  BY <1>1, <1>2, <1>5, <1>6, <1>7, <1>8 DEF LS!Leaves

(* flush() of a buffer c moves its lines on: nothing that was held is lost,   *)
(* and what was in line stays in line up to the same end.                    *)
LEMMA FlushKeeps ==
  ASSUME SinkInv, NEW c \in Seq(LS!Lines), NEW by \in {"write", "flush", "interval", "close"},
         LS!Flushes(c, by), UNCHANGED <<tree, async>>
  PROVE  /\ chunks' \in Seq(LS!Lines)
         /\ flights' \in Seq([batch: Seq(LS!Lines), by: {"write", "flush", "interval", "close"}])
         /\ out' \in [LS!Leaves -> Seq(LS!Lines)]
         /\ failures' \in 0..MaxFailures
         /\ BatchesAgree'
         /\ Held(chunks)' = Held(c)
         /\ tree = "plain" /\ InLine(c) =>
              /\ InLine(chunks)'
              /\ LS!EndOf(Len(flights))' + Len(chunks') = LS!EndOf(Len(flights)) + Len(c)
<1>. DEFINE Flight == [batch: Seq(LS!Lines), by: {"write", "flush", "interval", "close"}]
<1>t. /\ LS!TypeOK /\ BatchesAgree /\ chunks \in Seq(LS!Lines) /\ flights \in Seq(Flight)
      /\ out \in [LS!Leaves -> Seq(LS!Lines)] /\ failures \in 0..MaxFailures
  BY DEF SinkInv, LS!TypeOK
<1>e. LS!EndOf(Len(flights)) \in Nat /\ \A i \in 0..Len(flights) : LS!EndOf(i) \in Nat
  BY <1>t, EndIsLine
<1>1. CASE LS!FlushNothing(c)
  <2>1. c = <<>> /\ chunks' = c /\ UNCHANGED <<flights, out, failures>>
    BY <1>1 DEF LS!FlushNothing
  <2>2. BatchesAgree' /\ Held(chunks)' = Held(c) /\ (InLine(c) <=> InLine(chunks)')
    BY <2>1 DEF SinkInv, BatchesAgree, Held, InLine, LS!UnderWay, LS!Taken, LS!EndOf
  <2>3. LS!EndOf(Len(flights))' + Len(chunks') = LS!EndOf(Len(flights)) + Len(c)
    BY <2>1 DEF LS!EndOf
  <2>. QED
    BY <1>t, <2>1, <2>2, <2>3
<1>2. CASE LS!FlushBegins(c, by)
  <2>. DEFINE f == [batch |-> c, by |-> by]
  <2>1. /\ c # <<>> /\ async /\ chunks' = <<>> /\ flights' = Append(flights, f)
        /\ out' = out /\ failures' = failures
    BY <1>2 DEF LS!FlushBegins
  <2>2. f \in Flight /\ f.batch = c
    OBVIOUS
  <2>. HIDE DEF f, Flight
  <2>n. PICK n \in Nat : n = Len(flights)
    BY <1>t
  <2>3. /\ flights' \in Seq(Flight) /\ Len(flights') = n + 1
        /\ \A i \in 1..n : flights'[i] = flights[i]
        /\ flights'[n + 1] = f
        /\ DOMAIN flights = 1..n /\ DOMAIN flights' = 1..n + 1
    BY <1>t, <2>1, <2>2, <2>n, AppendProperties
  <2>4. BatchesAgree'
    BY <1>t, <2>1, <2>2, <2>3 DEF BatchesAgree
  <2>5. LS!UnderWay' = LS!UnderWay \cup LS!ToSet(c)
    BY <2>2, <2>3 DEF LS!UnderWay
  <2>6. Held(chunks)' = Held(c)
    <3>1. LS!ToSet(chunks') = {} /\ LS!Taken' = LS!Taken
      BY <2>1 DEF LS!ToSet, LS!Taken
    <3>. QED
      BY <2>5, <3>1 DEF Held
  <2>7. ASSUME InLine(c)
        PROVE  /\ InLine(chunks)'
               /\ LS!EndOf(Len(flights))' + Len(chunks') = LS!EndOf(Len(flights)) + Len(c)
    <3>1. \A i \in 0..n : LS!EndOf(i)' = LS!EndOf(i)
      BY <2>1, <2>3 DEF LS!EndOf
    <3>2. Len(c) \in DOMAIN c /\ Len(c) \in Nat
      BY <2>1
    <3>3. LS!EndOf(n + 1)' = c[Len(c)]
      BY <2>2, <2>3 DEF LS!EndOf, LS!Last
    <3>4. c[Len(c)] = LS!EndOf(n) + Len(c)
      BY <2>7, <2>n, <3>2 DEF InLine, LS!GoesOn
    <3>5. LS!GoesOn(out'["first"], 0) /\ LS!GoesOn(chunks', LS!EndOf(n + 1)')
      BY <2>1, <2>7 DEF InLine, LS!GoesOn
    <3>6. \A i \in 1..n + 1 : LS!GoesOn(flights'[i].batch, LS!EndOf(i - 1)')
      <4>1. ASSUME NEW i \in 1..n
            PROVE  LS!GoesOn(flights'[i].batch, LS!EndOf(i - 1)')
        <5>1. LS!GoesOn(flights[i].batch, LS!EndOf(i - 1))
          BY <2>3, <2>7 DEF InLine
        <5>2. LS!EndOf(i - 1)' = LS!EndOf(i - 1)
          BY <2>3, <3>1
        <5>. QED
          BY <2>3, <5>1, <5>2
      <4>2. LS!GoesOn(flights'[n + 1].batch, LS!EndOf(n)')
        <5>1. LS!GoesOn(c, LS!EndOf(n))
          BY <2>7, <2>n DEF InLine
        <5>2. LS!EndOf(n)' = LS!EndOf(n)
          BY <2>3, <3>1
        <5>. QED
          BY <2>2, <2>3, <5>1, <5>2
      <4>3. \A i \in 1..n + 1 :
              i \in 1..n \/ (i = n + 1 /\ i - 1 = n)
        BY <2>3
      <4>. QED
        BY <4>1, <4>2, <4>3
    <3>7. InLine(chunks)'
      BY <2>3, <3>5, <3>6 DEF InLine
    <3>. QED
      BY <1>e, <2>1, <2>3, <2>n, <3>2, <3>3, <3>4, <3>7
  <2>. QED
    BY <1>t, <2>1, <2>3, <2>4, <2>6, <2>7 DEF Flight
<1>3. ASSUME NEW ok \in SUBSET LS!Leaves, LS!FlushWrites(c, ok)
      PROVE  /\ chunks' \in Seq(LS!Lines) /\ flights' \in Seq(Flight)
             /\ out' \in [LS!Leaves -> Seq(LS!Lines)] /\ failures' \in 0..MaxFailures
             /\ BatchesAgree' /\ Held(chunks)' = Held(c)
             /\ tree = "plain" /\ InLine(c) =>
                  /\ InLine(chunks)'
                  /\ LS!EndOf(Len(flights))' + Len(chunks') = LS!EndOf(Len(flights)) + Len(c)
  <2>1. /\ c # <<>> /\ ~async /\ LS!Deliver(c, ok) /\ flights' = flights /\ flights = <<>>
        /\ chunks' = IF LS!Succeeds(ok) THEN <<>> ELSE c \o <<>>
    BY <1>3, <1>t DEF LS!FlushWrites, LS!Restore, BatchesAgree
  <2>2. c \o <<>> = c
    OBVIOUS
  <2>3. chunks' = IF LS!Succeeds(ok) THEN <<>> ELSE c
    BY <2>1, <2>2
  <2>4. BatchesAgree'
    BY <2>1, <1>t DEF BatchesAgree
  <2>5. /\ failures' \in 0..MaxFailures /\ out' \in [LS!Leaves -> Seq(LS!Lines)]
        /\ LS!Taken \subseteq LS!Taken'
        /\ LS!Taken' \subseteq LS!Taken \cup LS!ToSet(c)
        /\ LS!Succeeds(ok) => LS!ToSet(c) \subseteq LS!Taken'
        /\ tree = "plain" =>
             out'["first"] = IF LS!Succeeds(ok) THEN out["first"] \o c ELSE out["first"]
    BY <1>t, <2>1, DeliverGives
  <2>6. Held(chunks)' = Held(c)
    <3>1. LS!UnderWay' = LS!UnderWay /\ LS!ToSet(<<>>) = {}
      BY <2>1 DEF LS!UnderWay, LS!ToSet
    <3>. QED
      BY <2>3, <2>5, <3>1 DEF Held
  <2>7. ASSUME tree = "plain", InLine(c)
        PROVE  /\ InLine(chunks)'
               /\ LS!EndOf(Len(flights))' + Len(chunks') = LS!EndOf(Len(flights)) + Len(c)
    <3>1. /\ LS!EndOf(Len(flights)) = Len(out["first"])
          /\ LS!EndOf(Len(flights))' = Len(out'["first"])
      BY <2>1 DEF LS!EndOf
    <3>2. /\ out["first"] \in Seq(LS!Lines) /\ Len(out["first"]) \in Nat
      BY <1>t DEF LS!Leaves
    <3>3. /\ \A k \in 1..Len(out["first"]) : out["first"][k] = 0 + k
          /\ \A k \in 1..Len(c) : c[k] = Len(out["first"]) + k
      <4>1. LS!GoesOn(out["first"], 0) /\ LS!GoesOn(c, Len(out["first"]))
        BY <2>7, <3>1 DEF InLine
      <4>. QED
        BY <3>2, <4>1 DEF LS!GoesOn
    <3>4. CASE LS!Succeeds(ok)
      <4>1. out'["first"] = out["first"] \o c /\ chunks' = <<>>
        BY <2>3, <2>5, <2>7, <3>4
      <4>2. /\ Len(out["first"] \o c) = Len(out["first"]) + Len(c)
            /\ DOMAIN (out["first"] \o c) = 1..Len(out["first"]) + Len(c)
            /\ \A k \in 1..Len(out["first"]) + Len(c) :
                 (out["first"] \o c)[k] =
                   IF k <= Len(out["first"]) THEN out["first"][k] ELSE c[k - Len(out["first"])]
        BY <3>2, ConcatProperties
      <4>3. \A k \in 1..Len(out["first"]) + Len(c) : (out["first"] \o c)[k] = 0 + k
        BY <3>2, <3>3, <4>2
      <4>4. LS!GoesOn(out'["first"], 0) /\ LS!GoesOn(chunks', LS!EndOf(Len(flights))')
        BY <4>1, <4>2, <4>3 DEF LS!GoesOn
      <4>5. InLine(chunks)'
        BY <2>1, <4>4 DEF InLine
      <4>. QED
        BY <3>1, <3>2, <4>1, <4>2, <4>5
    <3>5. CASE ~LS!Succeeds(ok)
      <4>1. out'["first"] = out["first"] /\ chunks' = c
        BY <2>3, <2>5, <2>7, <3>5
      <4>. QED
        BY <2>1, <2>7, <3>1, <4>1 DEF InLine
    <3>. QED
      BY <3>4, <3>5
  <2>. QED
    BY <1>t, <2>1, <2>3, <2>4, <2>5, <2>6, <2>7
<1>. QED
  BY <1>1, <1>2, <1>3 DEF LS!Flushes

LEMMA LogKeeps == ASSUME SinkInv, LS!Log PROVE SinkInv'
<1>. DEFINE c == Append(chunks, logged + 1)
<1>t. /\ LS!TypeOK /\ BatchesAgree /\ logged \in Nat /\ chunks \in Seq(LS!Lines)
      /\ logged' = logged + 1 /\ logged < MaxLines
      /\ UNCHANGED <<tree, async, closed, ended, crashed, disturbed>>
  BY DEF SinkInv, LS!TypeOK, LS!Log
<1>1. /\ c \in Seq(LS!Lines) /\ Len(c) = Len(chunks) + 1
      /\ LS!ToSet(c) = LS!ToSet(chunks) \cup {logged + 1}
      /\ \A k \in 1..Len(chunks) : c[k] = chunks[k]
      /\ c[Len(chunks) + 1] = logged + 1
      /\ DOMAIN c = 1..Len(chunks) + 1 /\ DOMAIN chunks = 1..Len(chunks) /\ Len(chunks) \in Nat
  <2>1. logged + 1 \in LS!Lines
    BY <1>t, SuiteAssumption DEF LS!Lines, LS!SinkAssumption
  <2>. QED
    BY <1>t, <2>1, AppendHolds, AppendProperties
<1>2. Held(c) = 1..logged'
  <2>1. Held(chunks) = 1..logged
    BY DEF SinkInv, LS!NoLineLost, Held
  <2>. QED
    BY <1>t, <1>1, <2>1 DEF Held
<1>3. \/ LS!Flushes(c, "write")
      \/ chunks' = c /\ UNCHANGED <<flights, out, failures>>
  BY DEF LS!Log
<1>. HIDE DEF c
<1>e. LS!EndOf(Len(flights)) \in Nat
  BY <1>t, EndIsLine DEF LS!TypeOK
<1>4. tree = "plain" /\ ~disturbed =>
        InLine(c) /\ logged' = LS!EndOf(Len(flights)) + Len(c)
  <2>. SUFFICES ASSUME tree = "plain", ~disturbed
                PROVE  InLine(c) /\ logged' = LS!EndOf(Len(flights)) + Len(c)
    OBVIOUS
  <2>1. InLine(chunks) /\ logged = LS!EndOf(Len(flights)) + Len(chunks)
    BY DEF SinkInv, LS!InOrder, InLine
  <2>2. LS!GoesOn(chunks, LS!EndOf(Len(flights)))
    BY <2>1 DEF InLine
  <2>3. LS!GoesOn(c, LS!EndOf(Len(flights)))
    <3>. DEFINE e == LS!EndOf(Len(flights))
    <3>1. /\ e \in Nat /\ logged = e + Len(chunks)
          /\ \A k \in 1..Len(chunks) : chunks[k] = e + k
      BY <1>e, <1>1, <2>1, <2>2 DEF LS!GoesOn
    <3>. HIDE DEF e
    <3>2. \A k \in 1..Len(chunks) + 1 : c[k] = e + k
      BY <1>1, <3>1
    <3>3. LS!GoesOn(c, e)
      BY <1>1, <3>2 DEF LS!GoesOn
    <3>. QED
      BY <3>3 DEF e
  <2>. QED
    BY <1>t, <1>e, <1>1, <2>1, <2>3 DEF InLine
<1>5. /\ chunks' \in Seq(LS!Lines)
      /\ flights' \in Seq([batch: Seq(LS!Lines), by: {"write", "flush", "interval", "close"}])
      /\ out' \in [LS!Leaves -> Seq(LS!Lines)]
      /\ failures' \in 0..MaxFailures
      /\ BatchesAgree'
      /\ Held(chunks)' = Held(c)
      /\ tree = "plain" /\ InLine(c) =>
           /\ InLine(chunks)'
           /\ LS!EndOf(Len(flights))' + Len(chunks') = LS!EndOf(Len(flights)) + Len(c)
  <2>1. CASE LS!Flushes(c, "write")
    BY <1>t, <1>1, <2>1, FlushKeeps
  <2>2. CASE chunks' = c /\ UNCHANGED <<flights, out, failures>>
    <3>1. /\ chunks' \in Seq(LS!Lines) /\ failures' \in 0..MaxFailures
          /\ flights' \in Seq([batch: Seq(LS!Lines), by: {"write", "flush", "interval", "close"}])
          /\ out' \in [LS!Leaves -> Seq(LS!Lines)]
      BY <1>t, <1>1, <2>2 DEF LS!TypeOK
    <3>2. BatchesAgree'
      BY <1>t, <2>2 DEF BatchesAgree
    <3>3. Held(chunks)' = Held(c)
      BY <2>2 DEF Held, LS!UnderWay, LS!Taken
    <3>4. \A i : LS!EndOf(i)' = LS!EndOf(i)
      BY <2>2 DEF LS!EndOf
    <3>5. InLine(c) => InLine(chunks)'
      BY <2>2, <3>4 DEF InLine
    <3>. QED
      BY <2>2, <3>1, <3>2, <3>3, <3>4, <3>5
  <2>. QED
    BY <1>3, <2>1, <2>2
<1>6. LS!TypeOK'
  <2>1. logged' \in 0..MaxLines
    BY <1>t, SuiteAssumption DEF LS!SinkAssumption
  <2>2. /\ tree' \in Trees /\ async' \in BOOLEAN /\ closed' \in BOOLEAN /\ ended' \in BOOLEAN
        /\ crashed' \in BOOLEAN /\ disturbed' \in BOOLEAN
    BY <1>t DEF LS!TypeOK
  <2>3. LS!Leaves' = LS!Leaves /\ LS!Lines' = LS!Lines
    BY DEF LS!Leaves, LS!Lines
  <2>. QED
    BY <1>5, <2>1, <2>2, <2>3 DEF LS!TypeOK
<1>7. LS!NoLineLost'
  BY <1>2, <1>5 DEF LS!NoLineLost, Held
<1>8. LS!InOrder'
  BY <1>t, <1>4, <1>5 DEF LS!InOrder, InLine
<1>. QED
  BY <1>5, <1>6, <1>7, <1>8 DEF SinkInv

(* flush(), the interval and close() flush what is buffered and log nothing.  *)
LEMMA FlushingKeeps ==
  ASSUME SinkInv, NEW by \in {"write", "flush", "interval", "close"}, LS!Flushes(chunks, by),
         UNCHANGED <<tree, async, logged, disturbed>>,
         closed' \in BOOLEAN, ended' \in BOOLEAN, crashed' \in BOOLEAN
  PROVE  SinkInv'
<1>t. LS!TypeOK /\ chunks \in Seq(LS!Lines)
  BY DEF SinkInv, LS!TypeOK
<1>1. /\ chunks' \in Seq(LS!Lines)
      /\ flights' \in Seq([batch: Seq(LS!Lines), by: {"write", "flush", "interval", "close"}])
      /\ out' \in [LS!Leaves -> Seq(LS!Lines)]
      /\ failures' \in 0..MaxFailures
      /\ BatchesAgree'
      /\ Held(chunks)' = Held(chunks)
      /\ tree = "plain" /\ InLine(chunks) =>
           /\ InLine(chunks)'
           /\ LS!EndOf(Len(flights))' + Len(chunks') = LS!EndOf(Len(flights)) + Len(chunks)
  BY <1>t, FlushKeeps
<1>2. LS!TypeOK'
  BY <1>t, <1>1 DEF LS!TypeOK, LS!Leaves, LS!Lines
<1>3. LS!NoLineLost'
  BY <1>1 DEF SinkInv, LS!NoLineLost, Held
<1>4. LS!InOrder'
  <2>. SUFFICES ASSUME tree = "plain", ~disturbed
                PROVE  InLine(chunks)' /\ logged' = LS!EndOf(Len(flights))' + Len(chunks')
    BY DEF LS!InOrder, InLine
  <2>1. InLine(chunks) /\ logged = LS!EndOf(Len(flights)) + Len(chunks)
    BY DEF SinkInv, LS!InOrder, InLine
  <2>. QED
    BY <1>1, <2>1
<1>. QED
  BY <1>1, <1>2, <1>3, <1>4 DEF SinkInv

(* A batch settles: a failed one returns in front of the buffer.              *)
LEMMA SettleKeeps ==
  ASSUME SinkInv, NEW i \in DOMAIN flights, NEW ok \in SUBSET LS!Leaves, LS!Settle(i, ok)
  PROVE  SinkInv'
<1>. DEFINE Flight == [batch: Seq(LS!Lines), by: {"write", "flush", "interval", "close"}]
            b == flights[i].batch
<1>n. PICK n \in Nat : n = Len(flights)
  BY DEF SinkInv, LS!TypeOK
<1>t. /\ LS!TypeOK /\ BatchesAgree /\ chunks \in Seq(LS!Lines) /\ flights \in Seq(Flight)
      /\ DOMAIN flights = 1..n /\ n \in Nat /\ DOMAIN chunks = 1..Len(chunks) /\ Len(chunks) \in Nat
  BY <1>n DEF SinkInv, LS!TypeOK
<1>1. b \in Seq(LS!Lines) /\ b # <<>>
  <2>1. flights[i] \in Flight
    BY <1>t, ElementOf, Zenon
  <2>. QED
    BY <1>t, <2>1 DEF BatchesAgree
<1>2. /\ LS!Deliver(b, ok)
      /\ flights' = LS!RemoveAt(flights, i)
      /\ chunks' = IF LS!Succeeds(ok) THEN chunks ELSE b \o chunks
      /\ disturbed' = (disturbed \/ i # 1 \/ (~LS!Succeeds(ok) /\ Len(flights) > 1))
      /\ UNCHANGED <<tree, async, logged, closed>>
  BY DEF LS!Settle, LS!Restore
<1>3. ended' \in BOOLEAN /\ crashed' \in BOOLEAN /\ disturbed' \in BOOLEAN
  BY Zenon DEF LS!Settle
<1>b. DOMAIN b = 1..Len(b) /\ Len(b) \in Nat \ {0}
  BY <1>1
<1>. HIDE DEF b, Flight
<1>4. /\ flights' \in Seq(Flight) /\ Len(flights') = n - 1 /\ DOMAIN flights' = 1..n - 1
      /\ \A k \in 1..n - 1 : flights'[k] = IF k < i THEN flights[k] ELSE flights[k + 1]
  <2>1. i \in 1..Len(flights)
    BY <1>n, <1>t
  <2>2. /\ LS!RemoveAt(flights, i) \in Seq(Flight)
        /\ Len(LS!RemoveAt(flights, i)) = Len(flights) - 1
        /\ \A k \in 1..Len(flights) - 1 :
             LS!RemoveAt(flights, i)[k] = IF k < i THEN flights[k] ELSE flights[k + 1]
    BY <1>t, <2>1, RemoveAtHolds
  <2>. QED
    BY <1>n, <1>2, <2>2
<1>5. /\ failures' \in 0..MaxFailures /\ out' \in [LS!Leaves -> Seq(LS!Lines)]
      /\ LS!Taken \subseteq LS!Taken'
      /\ LS!Taken' \subseteq LS!Taken \cup LS!ToSet(b)
      /\ LS!Succeeds(ok) => LS!ToSet(b) \subseteq LS!Taken'
      /\ tree = "plain" =>
           out'["first"] = IF LS!Succeeds(ok) THEN out["first"] \o b ELSE out["first"]
  BY <1>t, <1>1, <1>2, DeliverGives
<1>6. /\ b \o chunks \in Seq(LS!Lines)
      /\ LS!ToSet(b \o chunks) = LS!ToSet(b) \cup LS!ToSet(chunks)
  BY <1>t, <1>1, ConcatHolds
<1>7. LS!TypeOK'
  <2>1. chunks' \in Seq(LS!Lines)
    BY <1>t, <1>2, <1>6
  <2>2. tree' \in Trees /\ async' \in BOOLEAN /\ logged' \in 0..MaxLines /\ closed' \in BOOLEAN
    BY <1>t, <1>2 DEF LS!TypeOK
  <2>. QED
    BY <1>3, <1>4, <1>5, <2>1, <2>2 DEF LS!TypeOK, Flight, LS!Lines, LS!Leaves
<1>8. BatchesAgree'
  <2>1. async
    BY <1>t DEF BatchesAgree
  <2>2. ASSUME NEW k \in 1..n - 1 PROVE flights'[k].batch # <<>>
    <3>1. k \in 1..n /\ k + 1 \in 1..n /\ (flights'[k] = flights[k] \/ flights'[k] = flights[k + 1])
      BY <1>n, <1>4
    <3>. QED
      BY <1>t, <3>1 DEF BatchesAgree
  <2>. QED
    BY <1>2, <1>4, <2>1, <2>2 DEF BatchesAgree
<1>9. LS!NoLineLost'
  <2>1. LS!UnderWay' \cup LS!ToSet(b) = LS!UnderWay
    <3>1. LS!UnderWay' \subseteq LS!UnderWay
      <4>1. \A k \in 1..n - 1 : \E j \in 1..n : flights'[k] = flights[j]
        BY <1>t, <1>4
      <4>. QED
        BY <1>t, <1>4, <4>1 DEF LS!UnderWay
    <3>2. LS!ToSet(b) \subseteq LS!UnderWay
      BY DEF LS!UnderWay, b
    <3>3. ASSUME NEW j \in 1..n PROVE LS!ToSet(flights[j].batch) \subseteq LS!UnderWay' \cup LS!ToSet(b)
      <4>1. j = i \/ \E k \in 1..n - 1 : flights'[k] = flights[j]
        <5>1. CASE j < i
          <6>1. j \in 1..n - 1 /\ flights'[j] = flights[j]
            BY <1>t, <1>4, <5>1
          <6>. QED
            BY <6>1
        <5>2. CASE j > i
          <6>1. j - 1 \in 1..n - 1 /\ flights'[j - 1] = flights[j - 1 + 1] /\ j - 1 + 1 = j
            BY <1>t, <1>4, <5>2
          <6>. QED
            BY <6>1
        <5>. QED
          BY <1>t, <5>1, <5>2
      <4>. QED
        BY <1>4, <4>1 DEF LS!UnderWay, b
    <3>. QED
      BY <1>t, <3>1, <3>2, <3>3 DEF LS!UnderWay
  <2>2. LS!ToSet(chunks') = IF LS!Succeeds(ok) THEN LS!ToSet(chunks)
                                              ELSE LS!ToSet(b) \cup LS!ToSet(chunks)
    BY <1>2, <1>6
  <2>3. 1..logged = LS!ToSet(chunks) \cup LS!UnderWay \cup LS!Taken
    BY DEF SinkInv, LS!NoLineLost
  <2>4. 1..logged' = LS!ToSet(chunks') \cup LS!UnderWay' \cup LS!Taken'
    BY <1>2, <1>5, <2>1, <2>2, <2>3
  <2>. QED
    BY <2>4 DEF LS!NoLineLost
<1>10. LS!InOrder'
  <2>. SUFFICES ASSUME tree = "plain", ~disturbed, i = 1, LS!Succeeds(ok) \/ ~(n > 1)
                PROVE  InLine(chunks)' /\ logged = LS!EndOf(Len(flights))' + Len(chunks')
    BY <1>n, <1>2 DEF LS!InOrder, InLine
  <2>1. InLine(chunks) /\ logged = LS!EndOf(n) + Len(chunks)
    BY <1>n DEF SinkInv, LS!InOrder, InLine
  <2>2. /\ LS!EndOf(0) = Len(out["first"]) /\ LS!EndOf(1) = b[Len(b)]
        /\ out["first"] \in Seq(LS!Lines) /\ Len(out["first"]) \in Nat
    BY <1>t DEF LS!EndOf, LS!Last, b, LS!TypeOK, LS!Leaves
  <2>3. \A k \in 1..Len(b) : b[k] = LS!EndOf(0) + k
    <3>1. LS!GoesOn(flights[1].batch, LS!EndOf(1 - 1))
      BY <1>t, <2>1 DEF InLine
    <3>2. 1 - 1 = 0
      OBVIOUS
    <3>. QED
      BY <1>b, <3>1, <3>2 DEF LS!GoesOn, b
  <2>4. LS!EndOf(1) = LS!EndOf(0) + Len(b)
    BY <1>b, <2>2, <2>3
  <2>5. \A k \in 1..Len(out["first"]) : out["first"][k] = 0 + k
    <3>1. LS!GoesOn(out["first"], 0)
      BY <2>1 DEF InLine
    <3>. QED
      BY <2>2, <3>1 DEF LS!GoesOn
  <2>6. CASE LS!Succeeds(ok)
    <3>1. out'["first"] = out["first"] \o b /\ chunks' = chunks
      BY <1>2, <1>5, <2>6
    <3>2. /\ Len(out["first"] \o b) = Len(out["first"]) + Len(b)
          /\ DOMAIN (out["first"] \o b) = 1..Len(out["first"]) + Len(b)
          /\ \A k \in 1..Len(out["first"]) + Len(b) :
               (out["first"] \o b)[k] =
                 IF k <= Len(out["first"]) THEN out["first"][k] ELSE b[k - Len(out["first"])]
      BY <1>1, <2>2, ConcatProperties
    <3>3. ASSUME NEW k \in 1..Len(out["first"]) + Len(b) PROVE (out["first"] \o b)[k] = 0 + k
      <4>1. CASE k <= Len(out["first"])
        BY <2>2, <2>5, <3>2, <4>1
      <4>2. CASE k > Len(out["first"])
        <5>1. k - Len(out["first"]) \in 1..Len(b)
          BY <1>b, <2>2, <4>2
        <5>2. b[k - Len(out["first"])] = Len(out["first"]) + (k - Len(out["first"]))
          BY <2>2, <2>3, <5>1
        <5>. QED
          BY <2>2, <3>2, <4>2, <5>2
      <4>. QED
        BY <2>2, <4>1, <4>2
    <3>4. LS!GoesOn(out'["first"], 0)
      BY <3>1, <3>2, <3>3 DEF LS!GoesOn
    <3>5. \A k \in 1..n - 1 : flights'[k] = flights[k + 1]
      BY <1>4, <1>t
    <3>6. ASSUME NEW k \in 0..n - 1 PROVE LS!EndOf(k)' = LS!EndOf(k + 1)
      <4>1. CASE k = 0
        <5>1. LS!EndOf(0)' = Len(out'["first"])
          BY DEF LS!EndOf
        <5>2. LS!EndOf(k)' = LS!EndOf(0)' /\ LS!EndOf(k + 1) = LS!EndOf(1)
          BY <4>1
        <5>. QED
          BY <2>2, <2>4, <3>1, <3>2, <5>1, <5>2
      <4>2. CASE k # 0
        <5>1. k \in 1..n - 1 /\ k + 1 # 0
          BY <1>t, <4>2
        <5>. QED
          BY <3>5, <4>2, <5>1 DEF LS!EndOf
      <4>. QED
        BY <4>1, <4>2
    <3>7. ASSUME NEW k \in 1..n - 1 PROVE LS!GoesOn(flights'[k].batch, LS!EndOf(k - 1)')
      <4>0. k + 1 \in DOMAIN flights
        BY <1>n, <1>t
      <4>1. LS!GoesOn(flights[k + 1].batch, LS!EndOf(k + 1 - 1))
        BY <2>1, <4>0 DEF InLine
      <4>2. k - 1 \in 0..n - 1 /\ k - 1 + 1 = k /\ k + 1 - 1 = k
        BY <1>t
      <4>3. LS!EndOf(k - 1)' = LS!EndOf(k)
        BY <3>6, <4>2
      <4>. QED
        BY <3>5, <4>1, <4>2, <4>3
    <3>8. LS!EndOf(n - 1)' = LS!EndOf(n)
      <4>1. n - 1 \in 0..n - 1 /\ n - 1 + 1 = n
        BY <1>t
      <4>. QED
        BY <3>6, <4>1
    <3>9. LS!GoesOn(chunks, LS!EndOf(n))
      BY <1>n, <2>1 DEF InLine
    <3>. QED
      BY <1>4, <1>n, <2>1, <3>1, <3>4, <3>7, <3>8, <3>9 DEF InLine
  <2>7. CASE ~LS!Succeeds(ok)
    <3>1. out'["first"] = out["first"] /\ chunks' = b \o chunks /\ n = 1
      BY <1>2, <1>5, <1>t, <2>7
    <3>2. /\ Len(b \o chunks) = Len(b) + Len(chunks)
          /\ DOMAIN (b \o chunks) = 1..Len(b) + Len(chunks)
          /\ \A k \in 1..Len(b) + Len(chunks) :
               (b \o chunks)[k] = IF k <= Len(b) THEN b[k] ELSE chunks[k - Len(b)]
      BY <1>t, <1>1, ConcatProperties
    <3>3. \A k \in 1..Len(chunks) : chunks[k] = LS!EndOf(1) + k
      <4>1. LS!GoesOn(chunks, LS!EndOf(1))
        BY <1>n, <2>1, <3>1 DEF InLine
      <4>. QED
        BY <1>t, <4>1 DEF LS!GoesOn
    <3>4. LS!EndOf(0) \in Nat
      BY <2>2
    <3>5. ASSUME NEW k \in 1..Len(b) + Len(chunks) PROVE (b \o chunks)[k] = LS!EndOf(0) + k
      <4>1. CASE k <= Len(b)
        BY <1>b, <2>3, <3>2, <4>1
      <4>2. CASE k > Len(b)
        <5>1. k - Len(b) \in 1..Len(chunks)
          BY <1>b, <1>t, <4>2
        <5>2. chunks[k - Len(b)] = LS!EndOf(1) + (k - Len(b))
          BY <3>3, <5>1
        <5>. QED
          BY <1>b, <2>4, <3>2, <3>4, <4>2, <5>2
      <4>. QED
        BY <1>b, <4>1, <4>2
    <3>6. LS!EndOf(0)' = LS!EndOf(0) /\ Len(flights') = 0 /\ DOMAIN flights' = {}
      BY <1>4, <3>1 DEF LS!EndOf
    <3>7. LS!GoesOn(chunks', LS!EndOf(0)')
      BY <3>1, <3>2, <3>5, <3>6 DEF LS!GoesOn
    <3>8. InLine(chunks)'
      BY <2>1, <3>1, <3>6, <3>7 DEF InLine
    <3>. QED
      BY <1>b, <1>t, <2>1, <2>4, <3>1, <3>2, <3>4, <3>6, <3>8
  <2>. QED
    BY <2>6, <2>7
<1>. QED
  BY <1>7, <1>8, <1>9, <1>10 DEF SinkInv

LEMMA NextSink == SinkInv /\ [LS!Next]_LS!vars => SinkInv'
<1>. SUFFICES ASSUME SinkInv, [LS!Next]_LS!vars PROVE SinkInv'
  OBVIOUS
<1>t. ended \in BOOLEAN /\ crashed \in BOOLEAN /\ closed \in BOOLEAN
  BY DEF SinkInv, LS!TypeOK
<1>1. CASE LS!Flush
  BY <1>1, <1>t, FlushingKeeps DEF LS!Flush
<1>2. CASE LS!IntervalFires
  <2>1. crashed' \in BOOLEAN
    BY <1>2, Zenon DEF LS!IntervalFires
  <2>. QED
    BY <1>2, <1>t, <2>1, FlushingKeeps DEF LS!IntervalFires
<1>3. CASE LS!Close
  <2>1. ended' \in BOOLEAN
    BY <1>3, Zenon DEF LS!Close
  <2>. QED
    BY <1>3, <1>t, <2>1, FlushingKeeps DEF LS!Close
<1>4. CASE LS!SomeBatchSettles
  BY <1>4, SettleKeeps DEF LS!SomeBatchSettles
<1>5. CASE UNCHANGED LS!vars
  BY <1>5 DEF LS!vars, SinkInv, LS!TypeOK, BatchesAgree, LS!NoLineLost, LS!InOrder, LS!UnderWay,
     LS!Taken, LS!EndOf
<1>. QED
  BY <1>1, <1>2, <1>3, <1>4, <1>5, LogKeeps DEF LS!Next

LEMMA SinkInvariant == SuiteSpec => []SinkInv
BY SuiteSpecs, InitSink, NextSink, PTL DEF LS!Spec

(* No line the buffered sink took is dropped, in whatever order batches settle, *)
(* fail and come back, and a single sink gets every line once and in the order  *)
(* it was logged as long as batches do not overlap and fail (bufferedSink).     *)
THEOREM LinesKept == SuiteSpec => []LinesAreKept
<1>1. SinkInv => LinesAreKept
  BY DEF SinkInv, LinesAreKept
<1>. QED
  BY <1>1, SinkInvariant, PTL

(* The state of all four components stays what it is declared to be, beyond   *)
(* every bound that TLC tries (TypesOK).                                     *)
THEOREM TypesHold == SuiteSpec => []TypesOK
<1>1. WorkerInv => JW!TypeOK
  BY DEF WorkerInv
<1>2. SinkInv => LS!TypeOK
  BY DEF SinkInv
<1>3. ClientInv => HC!TypeOK
  BY DEF ClientInv
<1>. QED
  BY <1>1, <1>2, <1>3, SuiteSpecs, TypeCorrect, WorkerInvariant, SinkInvariant, ClientInvariant, PTL
     DEF TypesOK
=============================================================================
