--------------------------- MODULE StateSuiteProofs ---------------------------
(***************************************************************************)
(* Theorems about the sessions, the object stores and the job listing, for  *)
(* every number of requests, callers, ids, keys and jobs.                   *)
(***************************************************************************)
EXTENDS MCStateSuite, SequenceTheorems, TLAPS

(* What removing one position leaves of a sequence.                          *)
IsCut(t, s, i) ==
  /\ Len(t) = Len(s) - 1
  /\ \A k \in 1..Len(s) - 1 : t[k] = IF k < i THEN s[k] ELSE s[k + 1]
  /\ \A k \in DOMAIN t : \E j \in DOMAIN s : j # i /\ t[k] = s[j]
  /\ \A j \in DOMAIN s : j # i => \E k \in DOMAIN t : t[k] = s[j]

LEMMA CutOut ==
  ASSUME NEW S, NEW s \in Seq(S), NEW i \in DOMAIN s
  PROVE  /\ SubSeq(s, 1, i - 1) \o SubSeq(s, i + 1, Len(s)) \in Seq(S)
         /\ IsCut(SubSeq(s, 1, i - 1) \o SubSeq(s, i + 1, Len(s)), s, i)
<1>. DEFINE a == SubSeq(s, 1, i - 1)
            b == SubSeq(s, i + 1, Len(s))
            t == a \o b
<1>0. i \in 1..Len(s) /\ Len(s) \in Nat /\ DOMAIN s = 1..Len(s)
  OBVIOUS
<1>1. a \in Seq(S) /\ Len(a) = i - 1 /\ \A k \in 1..i - 1 : a[k] = s[k]
  BY <1>0, SubSeqProperties
<1>2. b \in Seq(S) /\ Len(b) = Len(s) - i /\ \A k \in 1..Len(s) - i : b[k] = s[k + i]
  BY <1>0, SubSeqProperties
<1>. HIDE DEF a, b
<1>3. /\ t \in Seq(S) /\ Len(t) = Len(a) + Len(b)
      /\ \A k \in 1..Len(a) + Len(b) : t[k] = IF k <= Len(a) THEN a[k] ELSE b[k - Len(a)]
  BY <1>1, <1>2, ConcatProperties
<1>. HIDE DEF t
<1>4. Len(t) = Len(s) - 1 /\ DOMAIN t = 1..Len(s) - 1
  BY <1>0, <1>1, <1>2, <1>3
<1>5. ASSUME NEW k \in 1..Len(s) - 1 PROVE t[k] = IF k < i THEN s[k] ELSE s[k + 1]
  <2>1. CASE k < i
    BY <1>0, <1>1, <1>3, <1>4, <2>1
  <2>2. CASE ~(k < i)
    <3>1. k - Len(a) \in 1..Len(s) - i /\ k - Len(a) + i = k + 1 /\ ~(k <= Len(a))
      BY <1>0, <1>1, <2>2
    <3>. QED
      BY <1>2, <1>3, <1>4, <2>2, <3>1
  <2>. QED
    BY <2>1, <2>2
<1>6. ASSUME NEW k \in DOMAIN t PROVE \E j \in DOMAIN s : j # i /\ t[k] = s[j]
  <2>1. k \in 1..Len(s) /\ k + 1 \in 1..Len(s) /\ k # k + 1
    BY <1>0, <1>4
  <2>. QED
    BY <1>0, <1>4, <1>5, <2>1
<1>7. ASSUME NEW j \in DOMAIN s, j # i PROVE \E k \in DOMAIN t : t[k] = s[j]
  <2>1. CASE j < i
    <3>1. j \in DOMAIN t /\ t[j] = s[j]
      BY <1>0, <1>4, <1>5, <2>1
    <3>. QED
      BY <3>1
  <2>2. CASE j > i
    <3>1. j - 1 \in DOMAIN t /\ t[j - 1] = s[j - 1 + 1] /\ j - 1 + 1 = j
      BY <1>0, <1>4, <1>5, <2>2
    <3>. QED
      BY <3>1
  <2>. QED
    BY <1>0, <1>7, <2>1, <2>2
<1>. QED
  BY <1>3, <1>4, <1>5, <1>6, <1>7 DEF IsCut, t, a, b

-----------------------------------------------------------------------------
(* The sessions.  The store holds an id once.                                *)
Distinct(s) == \A i, j \in DOMAIN s : s[i].id = s[j].id => i = j

LEMMA WithoutHolds ==
  ASSUME NEW s \in Seq(Stored), Distinct(s), NEW id
  PROVE  /\ Without(s, id) \in Seq(Stored) /\ Distinct(Without(s, id))
         /\ \A e \in ToSet(Without(s, id)) : e \in ToSet(s) /\ e.id # id
<1>1. CASE \E i \in DOMAIN s : s[i].id = id
  <2>. DEFINE i == CHOOSE i \in DOMAIN s : s[i].id = id
              t == Without(s, id)
  <2>1. i \in DOMAIN s /\ s[i].id = id
    BY <1>1
  <2>2. t = SubSeq(s, 1, i - 1) \o SubSeq(s, i + 1, Len(s))
    BY <1>1 DEF Without, RemoveAt
  <2>. HIDE DEF i, t
  <2>3. t \in Seq(Stored) /\ IsCut(t, s, i)
    BY <2>1, <2>2, CutOut
  <2>4. \A k \in DOMAIN t : \E j \in DOMAIN s : j # i /\ t[k] = s[j]
    BY <2>3 DEF IsCut
  <2>5. \A e \in ToSet(t) : e \in ToSet(s) /\ e.id # id
    BY <2>1, <2>4 DEF ToSet, Distinct
  <2>6. Distinct(t)
    <3>1. SUFFICES ASSUME NEW k \in DOMAIN t, NEW l \in DOMAIN t, t[k].id = t[l].id PROVE k = l
      BY DEF Distinct
    <3>2. k \in 1..Len(s) - 1 /\ l \in 1..Len(s) - 1 /\ i \in 1..Len(s) /\ Len(s) \in Nat
      <4>1. Len(t) = Len(s) - 1
        BY <2>3 DEF IsCut
      <4>2. DOMAIN t = 1..Len(t) /\ DOMAIN s = 1..Len(s) /\ Len(s) \in Nat
        BY <2>3
      <4>. QED
        BY <2>1, <3>1, <4>1, <4>2
    <3>3. /\ k \in DOMAIN s /\ k + 1 \in DOMAIN s /\ l \in DOMAIN s /\ l + 1 \in DOMAIN s
      BY <3>2
    <3>4. /\ t[k] = IF k < i THEN s[k] ELSE s[k + 1]
          /\ t[l] = IF l < i THEN s[l] ELSE s[l + 1]
      BY <2>3, <3>2 DEF IsCut
    <3>. QED
      BY <3>1, <3>2, <3>3, <3>4 DEF Distinct
  <2>. QED
    BY <2>3, <2>5, <2>6 DEF t
<1>2. CASE ~ \E i \in DOMAIN s : s[i].id = id
  BY <1>2 DEF Without, ToSet
<1>. QED
  BY <1>1, <1>2

LEMMA EvictHolds ==
  ASSUME NEW s \in Seq(Stored), Distinct(s)
  PROVE  /\ EvictOldestSessions(s) \in Seq(Stored) /\ Distinct(EvictOldestSessions(s))
         /\ ToSet(EvictOldestSessions(s)) \subseteq ToSet(s)
<1>1. CASE Len(s) <= MaxSessions
  BY <1>1 DEF EvictOldestSessions
<1>2. CASE ~(Len(s) <= MaxSessions)
  <2>. DEFINE m == Len(s) - MaxSessions
              t == SubSeq(s, m + 1, Len(s))
  <2>1. m \in Nat /\ MaxSessions \in Nat /\ Len(s) \in Nat /\ m + 1 \in 1..Len(s) + 1
    BY <1>2, SessionAssumption
  <2>2. EvictOldestSessions(s) = t
    BY <1>2 DEF EvictOldestSessions
  <2>3. t \in Seq(Stored) /\ Len(t) = MaxSessions /\ \A k \in 1..MaxSessions : t[k] = s[m + k]
    BY <2>1, SubSeqProperties, SessionAssumption
  <2>4. \A k \in DOMAIN t : m + k \in DOMAIN s /\ t[k] = s[m + k]
    <3>. HIDE DEF t
    <3>. QED
      BY <2>1, <2>3
  <2>. HIDE DEF t
  <2>5. ToSet(t) \subseteq ToSet(s)
    BY <2>4 DEF ToSet
  <2>6. \A k \in DOMAIN t : k \in Nat
    BY <2>3
  <2>7. Distinct(t)
    BY <2>1, <2>4, <2>6 DEF Distinct
  <2>. QED
    BY <2>2, <2>3, <2>5, <2>7
<1>. QED
  BY <1>1, <1>2

(* A write adds the caller's copy, and keeps nothing else that was not there. *)
LEMMA StoreSetHolds ==
  ASSUME TypeOK, Distinct(sessions), NEW x \in Record
  PROVE  /\ StoreSet(sessions, x) \in Seq(Stored) /\ Distinct(StoreSet(sessions, x))
         /\ \A e \in ToSet(StoreSet(sessions, x)) :
              e \in ToSet(sessions) \/ (e.id = x.id /\ e.login = x.login)
<1>. DEFINE w == Without(sessions, x.id)
<1>1. w \in Seq(Stored) /\ Distinct(w) /\ \A e \in ToSet(w) : e \in ToSet(sessions) /\ e.id # x.id
  BY WithoutHolds DEF TypeOK
<1>. HIDE DEF w
<1>2. ASSUME NEW e \in Stored, e.id = x.id, e.login = x.login
      PROVE  /\ Append(w, e) \in Seq(Stored) /\ Distinct(Append(w, e))
             /\ \A f \in ToSet(Append(w, e)) :
                  f \in ToSet(sessions) \/ (f.id = x.id /\ f.login = x.login)
  <2>1. /\ Append(w, e) \in Seq(Stored) /\ Len(Append(w, e)) = Len(w) + 1
        /\ \A k \in 1..Len(w) : Append(w, e)[k] = w[k] /\ k \in DOMAIN w
        /\ Append(w, e)[Len(w) + 1] = e
        /\ DOMAIN Append(w, e) = 1..Len(w) + 1 /\ Len(w) \in Nat
    BY <1>1, <1>2, AppendProperties
  <2>2. \A k \in 1..Len(w) + 1 : k \in 1..Len(w) \/ k = Len(w) + 1
    BY <2>1
  <2>3. \A k \in 1..Len(w) : Append(w, e)[k] \in ToSet(w)
    BY <2>1 DEF ToSet
  <2>4. \A f \in ToSet(Append(w, e)) : f \in ToSet(w) \/ f = e
    BY <2>1, <2>2, <2>3 DEF ToSet
  <2>5. Distinct(Append(w, e))
    BY <1>1, <1>2, <2>1, <2>2, <2>3 DEF Distinct
  <2>. QED
    BY <1>1, <1>2, <2>1, <2>4, <2>5
<1>3. /\ Never \in Nat /\ x.id \in 1..MaxIds /\ x.login \in 1..MaxIds /\ x.expiresAt \in 0..Never
      /\ CacheUntil(x) \in 0..Never
  BY SessionAssumption DEF Never, Record, CacheUntil
<1>4. CASE manager.store = "memory"
  <2>. DEFINE e == [id |-> x.id, login |-> x.login, expiresAt |-> x.expiresAt, until |-> Never]
  <2>1. e \in Stored /\ e.id = x.id /\ e.login = x.login
    BY <1>3 DEF Stored
  <2>2. StoreSet(sessions, x) = EvictOldestSessions(Append(w, e))
    BY <1>4 DEF StoreSet, MemorySet, w
  <2>. HIDE DEF e
  <2>. QED
    BY <1>2, <2>1, <2>2, EvictHolds
<1>5. CASE manager.store = "cache"
  <2>. DEFINE e == [id |-> x.id, login |-> x.login, expiresAt |-> x.expiresAt,
                    until |-> CacheUntil(x)]
  <2>1. e \in Stored /\ e.id = x.id /\ e.login = x.login
    BY <1>3 DEF Stored
  <2>2. StoreSet(sessions, x) = Append(w, e)
    BY <1>5 DEF StoreSet, CacheSet, w
  <2>. HIDE DEF e
  <2>. QED
    BY <1>2, <2>1, <2>2
<1>6. CASE manager.store \notin {"memory", "cache"}
  BY <1>6 DEF StoreSet, TypeOK
<1>. QED
  BY <1>4, <1>5, <1>6

(* Every id and login was given out.                                          *)
IdsIssued ==
  /\ ended \subseteq 1..issued
  /\ \A e \in ToSet(sessions) : e.id <= issued /\ e.login <= issued
  /\ \A r \in Requests : held[r] # NoSession => held[r].id <= issued /\ held[r].login <= issued

(* A request under way holds a record; who holds one that ended is late, or   *)
(* its login is contested already.                                           *)
HoldersAgree ==
  \A r \in Requests :
    /\ pc[r] # "idle" => held[r] # NoSession
    /\ held[r] # NoSession /\ held[r].id \in ended => r \in late \/ held[r].login \in contested

(* An id of a login is live if it is stored or held by a request that is not  *)
(* late.                                                                     *)
IsStored(l, i) == \E e \in ToSet(sessions) : e.id = i /\ e.login = l
Holds(r, l, i) == held[r] # NoSession /\ held[r].id = i /\ held[r].login = l
Live(l, i) == IsStored(l, i) \/ \E r \in Requests : r \notin late /\ Holds(r, l, i)

(* A login is quiet unless it is contested, or will be when the rotation of a *)
(* late request ends.  Of the live ids of a quiet login all but the newest    *)
(* are being rotated away.                                                   *)
Rotating(r, l) == pc[r] = "rotated" /\ held[r].login = l
Quiet(l) == l \notin contested /\ \A r \in Requests : Rotating(r, l) => r \notin late

OneNext ==
  \A l, i, j \in 1..MaxIds :
    Quiet(l) /\ Live(l, i) /\ Live(l, j) /\ i < j
      => \E r \in Requests : Rotating(r, l) /\ held[r].id = i

SessionInv ==
  /\ TypeOK /\ Distinct(sessions) /\ IdsIssued /\ HoldersAgree
  /\ EndedStaysDead /\ OneNext

LEMMA InitSessions == Init => SessionInv
<1>. SUFFICES ASSUME Init PROVE SessionInv
  OBVIOUS
<1>1. TypeOK
  BY SessionAssumption DEF Init, TypeOK
<1>2. Distinct(sessions) /\ ToSet(sessions) = {}
  BY DEF Init, Distinct, ToSet
<1>3. \A r \in Requests : held[r] = NoSession /\ pc[r] = "idle"
  BY DEF Init
<1>4. IdsIssued /\ HoldersAgree
  BY <1>2, <1>3 DEF Init, IdsIssued, HoldersAgree
<1>5. EndedStaysDead
  BY <1>2 DEF EndedStaysDead
<1>6. OneNext
  BY <1>2, <1>3 DEF OneNext, Live, IsStored, Holds
<1>. QED
  BY <1>1, <1>2, <1>4, <1>5, <1>6 DEF SessionInv

(* What a step may do that brings no id of a quiet login to life.             *)
LEMMA OneNextKeeps ==
  ASSUME OneNext,
         \A l \in 1..MaxIds : Quiet(l)' => Quiet(l),
         \A l, i \in 1..MaxIds : Quiet(l)' /\ Live(l, i)' => Live(l, i),
         \A l, i \in 1..MaxIds, r \in Requests :
           Quiet(l)' /\ Live(l, i)' /\ Rotating(r, l) /\ held[r].id = i
             => Rotating(r, l)' /\ held'[r].id = i
  PROVE  OneNext'
<1>. SUFFICES ASSUME NEW l \in 1..MaxIds, NEW i \in 1..MaxIds, NEW j \in 1..MaxIds,
                     Quiet(l)', Live(l, i)', Live(l, j)', i < j
              PROVE  \E r \in Requests : Rotating(r, l)' /\ held'[r].id = i
  BY DEF OneNext
<1>1. PICK r \in Requests : Rotating(r, l) /\ held[r].id = i
  BY DEF OneNext
<1>. QED
  BY <1>1

(* A request that holds a session ends: its copy is gone.                     *)
LEMMA EndHolds ==
  ASSUME TypeOK, NEW r \in Requests, End(r)
  PROVE  /\ pc' \in [Requests -> {"idle", "got", "ready", "rotated"}]
         /\ held' \in [Requests -> Record \cup {NoSession}]
         /\ pc'[r] = "idle" /\ held'[r] = NoSession
         /\ \A q \in Requests \ {r} : pc'[q] = pc[q] /\ held'[q] = held[q]
BY DEF TypeOK, End

(* Records go, and who holds a session becomes late or ends.                  *)
LEMMA LossKeeps ==
  ASSUME SessionInv, UNCHANGED issued,
         Distinct(sessions'), ToSet(sessions') \subseteq ToSet(sessions),
         contested \subseteq contested', ended' \subseteq 1..issued,
         \A e \in ToSet(sessions') : e.id \in ended' => e.id \in ended,
         \A q \in Requests :
           \/ pc'[q] = "idle" /\ held'[q] = NoSession /\ (pc[q] = "rotated" /\ q \in late => held[q].login \in contested')
           \/ /\ held'[q] = held[q] /\ pc'[q] = pc[q] /\ (q \in late => q \in late')
              /\ held[q] # NoSession /\ held[q].id \in ended' => held[q].id \in ended \/ q \in late',
         \A q \in Requests :
           pc[q] = "rotated" /\ pc'[q] # "rotated" =>
             \/ held[q].login \in contested'
             \/ /\ \A e \in ToSet(sessions') : e.id # held[q].id
                /\ \A p \in Requests : held'[p] # NoSession /\ held'[p].id = held[q].id => p \in late'
  PROVE  Distinct(sessions)' /\ IdsIssued' /\ HoldersAgree' /\ EndedStaysDead' /\ OneNext'
<1>1. IdsIssued'
  BY DEF SessionInv, IdsIssued
<1>2. HoldersAgree'
  BY DEF SessionInv, HoldersAgree
<1>3. EndedStaysDead'
  BY DEF SessionInv, EndedStaysDead
<1>4. \A l \in 1..MaxIds : Quiet(l)' => Quiet(l)
  <2>. SUFFICES ASSUME NEW l \in 1..MaxIds, Quiet(l)', NEW r \in Requests, Rotating(r, l), r \in late
                PROVE  FALSE
    BY DEF Quiet
  <2>. QED
    BY DEF Quiet, Rotating
<1>5. \A l, i \in 1..MaxIds : Live(l, i)' => Live(l, i)
  BY DEF Live, IsStored, Holds
<1>6. ASSUME NEW l \in 1..MaxIds, NEW i \in 1..MaxIds, NEW r \in Requests,
             Quiet(l)', Live(l, i)', Rotating(r, l), held[r].id = i
      PROVE  Rotating(r, l)' /\ held'[r].id = i
  <2>1. CASE pc'[r] = "rotated"
    BY <1>6, <2>1 DEF Rotating
  <2>2. CASE pc'[r] # "rotated"
    BY <1>6, <2>2 DEF Rotating, Quiet, Live, IsStored, Holds
  <2>. QED
    BY <2>1, <2>2
<1>7. OneNext'
  BY <1>4, <1>5, <1>6, OneNextKeeps DEF SessionInv
<1>. QED
  BY <1>1, <1>2, <1>3, <1>7

(* A request writes its copy, under the same id: that contests the login if   *)
(* the request is late, and is no news otherwise.                            *)
LEMMA WriteKeeps ==
  ASSUME SessionInv, NEW r \in Requests, held[r] # NoSession, UNCHANGED <<issued, ended>>,
         Distinct(sessions'),
         \A e \in ToSet(sessions') :
           e \in ToSet(sessions) \/ (e.id = held[r].id /\ e.login = held[r].login),
         contested' = Writes(r),
         pc[r] # "rotated", pc'[r] # "rotated",
         \A q \in Requests \ {r} :
           held'[q] = held[q] /\ pc'[q] = pc[q] /\ (q \in late <=> q \in late'),
         \/ held'[r] = NoSession /\ pc'[r] = "idle"
         \/ /\ held'[r] # NoSession /\ held'[r].id = held[r].id /\ held'[r].login = held[r].login
            /\ r \in late <=> r \in late'
  PROVE  Distinct(sessions)' /\ IdsIssued' /\ HoldersAgree' /\ EndedStaysDead' /\ OneNext'
<1>0. contested \subseteq contested' /\ (r \in late => held[r].login \in contested')
  BY DEF Writes
<1>1. IdsIssued'
  BY DEF SessionInv, IdsIssued
<1>2. HoldersAgree'
  BY <1>0 DEF SessionInv, HoldersAgree
<1>3. EndedStaysDead'
  BY <1>0 DEF SessionInv, EndedStaysDead, HoldersAgree
<1>4. \A l \in 1..MaxIds : Quiet(l)' => Quiet(l)
  BY <1>0 DEF Quiet, Rotating
<1>5. \A l, i \in 1..MaxIds : Quiet(l)' /\ Live(l, i)' => Live(l, i)
  <2>. SUFFICES ASSUME NEW l \in 1..MaxIds, NEW i \in 1..MaxIds, Quiet(l)', Live(l, i)' PROVE Live(l, i)
    OBVIOUS
  <2>1. CASE \E e \in ToSet(sessions') : e.id = i /\ e.login = l
    BY <1>0, <2>1 DEF Live, IsStored, Holds, Quiet
  <2>2. CASE \E q \in Requests : q \notin late' /\ Holds(q, l, i)'
    BY <2>2 DEF Live, Holds
  <2>. QED
    BY <2>1, <2>2 DEF Live, IsStored
<1>6. \A l, i \in 1..MaxIds, q \in Requests :
        Rotating(q, l) /\ held[q].id = i => Rotating(q, l)' /\ held'[q].id = i
  BY DEF Rotating
<1>7. OneNext'
  BY <1>4, <1>5, <1>6, OneNextKeeps DEF SessionInv
<1>. QED
  BY <1>1, <1>2, <1>3, <1>7

(* The state of a session action, as its parts change it.                     *)
LEMMA SessionTypes ==
  ASSUME TypeOK, manager' = manager, issued' \in 0..MaxIds, now' \in 0..MaxTime,
         sessions' \in Seq(Stored),
         pc' \in [Requests -> {"idle", "got", "ready", "rotated"}],
         held' \in [Requests -> Record \cup {NoSession}],
         ended' \subseteq 1..MaxIds, late' \subseteq Requests, contested' \subseteq 1..MaxIds
  PROVE  TypeOK'
BY DEF TypeOK

LEMMA HeldIsRecord ==
  ASSUME SessionInv, NEW r \in Requests, pc[r] # "idle"
  PROVE  held[r] # NoSession /\ held[r] \in Record /\ held[r].id \in 1..issued
         /\ held[r].id \in 1..MaxIds /\ held[r].login \in 1..MaxIds
<1>1. held[r] # NoSession /\ held[r] \in Record /\ held[r].id <= issued
  BY DEF SessionInv, HoldersAgree, TypeOK, IdsIssued
<1>2. issued \in 0..MaxIds /\ MaxIds \in Nat
  BY SessionAssumption DEF SessionInv, TypeOK
<1>. QED
  BY <1>1, <1>2 DEF Record

(* Who holds a session when it ends or moves on is late, but for the caller.  *)
LEMMA OvertakenHolds ==
  ASSUME SessionInv, NEW r \in Requests, held[r] # NoSession
  PROVE  /\ Overtaken(r) \subseteq Requests
         /\ \A q \in Requests \ {r} : q \in late => q \in Overtaken(r)
         /\ \A q \in Requests \ {r} :
              held[q] # NoSession /\ held[q].id = held[r].id => q \in Overtaken(r)
BY DEF Overtaken, Holders, SessionInv, TypeOK

LEMMA CreateKeeps == ASSUME SessionInv, Create PROVE SessionInv'
<1>. DEFINE x == CreateSessionRecord(issued + 1, manager.maxAgeMs)
<1>1. /\ issued < MaxIds /\ issued' = issued + 1 /\ sessions' = StoreSet(sessions, x)
      /\ UNCHANGED <<manager, now, pc, held, ended, late, contested>>
  BY DEF Create
<1>2. /\ issued \in Nat /\ MaxIds \in Nat /\ issued + 1 \in 1..MaxIds /\ now \in 0..MaxTime
      /\ manager.maxAgeMs \in 0..MaxAge /\ MaxAge \in Nat /\ MaxTime \in Nat /\ Never \in Nat
  BY <1>1, SessionAssumption DEF SessionInv, TypeOK, Never
<1>3. x \in Record /\ x.id = issued + 1 /\ x.login = issued + 1
  BY <1>2 DEF CreateSessionRecord, Record, Never
<1>. HIDE DEF x
<1>4. /\ sessions' \in Seq(Stored) /\ Distinct(sessions')
      /\ \A e \in ToSet(sessions') :
           e \in ToSet(sessions) \/ (e.id = issued + 1 /\ e.login = issued + 1)
  BY <1>1, <1>3, StoreSetHolds DEF SessionInv
<1>5. TypeOK'
  BY <1>1, <1>2, <1>4 DEF SessionInv, TypeOK
<1>6. IdsIssued'
  <2>1. \A e \in ToSet(sessions) : e.id \in Nat /\ e.login \in Nat
    <3>1. \A e \in ToSet(sessions) : e \in Stored
      BY DEF SessionInv, TypeOK, ToSet
    <3>. QED
      BY <3>1 DEF Stored
  <2>2. \A r \in Requests : held[r] # NoSession => held[r].id \in Nat /\ held[r].login \in Nat
    BY DEF SessionInv, TypeOK, Record
  <2>3. ended' \subseteq 1..issued'
    BY <1>1, <1>2 DEF SessionInv, IdsIssued
  <2>4. \A e \in ToSet(sessions') : e.id <= issued' /\ e.login <= issued'
    BY <1>1, <1>2, <1>4, <2>1 DEF SessionInv, IdsIssued
  <2>5. \A r \in Requests : held'[r] # NoSession => held'[r].id <= issued' /\ held'[r].login <= issued'
    BY <1>1, <1>2, <2>2 DEF SessionInv, IdsIssued
  <2>. QED
    BY <2>3, <2>4, <2>5 DEF IdsIssued
<1>7. HoldersAgree'
  BY <1>1 DEF SessionInv, HoldersAgree
<1>8. EndedStaysDead'
  <2>1. issued + 1 \notin ended
    BY <1>2 DEF SessionInv, IdsIssued
  <2>. QED
    BY <1>1, <1>4, <2>1 DEF SessionInv, EndedStaysDead
<1>9. OneNext'
  <2>. SUFFICES ASSUME NEW l \in 1..MaxIds, NEW i \in 1..MaxIds, NEW j \in 1..MaxIds,
                       Quiet(l)', Live(l, i)', Live(l, j)', i < j
                PROVE  \E r \in Requests : Rotating(r, l)' /\ held'[r].id = i
    BY DEF OneNext
  <2>1. \A k \in 1..MaxIds : Live(l, k)' => Live(l, k) \/ (l = issued + 1 /\ k = issued + 1)
    BY <1>1, <1>4 DEF Live, IsStored, Holds
  <2>2. \A k \in 1..MaxIds : Live(l, k) => l <= issued
    BY DEF Live, IsStored, Holds, SessionInv, IdsIssued
  <2>3. Live(l, i) /\ Live(l, j)
    BY <1>2, <2>1, <2>2
  <2>4. Quiet(l)
    BY <1>1 DEF Quiet, Rotating
  <2>. QED
    BY <1>1, <2>3, <2>4 DEF SessionInv, OneNext, Rotating
<1>. QED
  BY <1>4, <1>5, <1>6, <1>7, <1>8, <1>9 DEF SessionInv

LEMMA GetKeeps ==
  ASSUME SessionInv, NEW r \in Requests, NEW id \in 1..issued, Get(r, id)
  PROVE  SessionInv'
<1>1. pc[r] = "idle" /\ UNCHANGED <<manager, issued, now, ended, late, contested>>
  BY DEF Get
<1>t. TypeOK /\ Distinct(sessions) /\ sessions \in Seq(Stored)
  BY DEF SessionInv, TypeOK
<1>2. CASE Found(id) = {}
  <2>1. sessions' = Without(sessions, id) /\ UNCHANGED <<pc, held>>
    BY <1>2 DEF Get, AfterGet
  <2>2. /\ sessions' \in Seq(Stored) /\ Distinct(sessions')
        /\ \A e \in ToSet(sessions') : e \in ToSet(sessions)
    BY <1>t, <2>1, WithoutHolds
  <2>3. TypeOK'
    BY <1>1, <1>t, <2>1, <2>2 DEF TypeOK
  <2>4. Distinct(sessions)' /\ IdsIssued' /\ HoldersAgree' /\ EndedStaysDead' /\ OneNext'
    <3>1. ended \subseteq 1..issued
      BY DEF SessionInv, IdsIssued
    <3>. QED
      BY <1>1, <2>1, <2>2, <3>1, LossKeeps
  <2>. QED
    BY <2>3, <2>4 DEF SessionInv
<1>3. CASE Found(id) # {}
  <2>. DEFINE e == CHOOSE e \in Found(id) : TRUE
  <2>1. e \in ToSet(sessions) /\ e.id = id
    BY <1>3 DEF Found, MemoryFinds, CacheFinds
  <2>2. sessions' = sessions /\ pc' = [pc EXCEPT ![r] = "got"] /\ held' = [held EXCEPT ![r] = Copy(e)]
    BY <1>3 DEF Get, AfterGet
  <2>. HIDE DEF e
  <2>3. e \in Stored
    BY <1>t, <2>1 DEF ToSet
  <2>4. Copy(e) \in Record /\ Copy(e).id = e.id /\ Copy(e).login = e.login
    BY <2>3 DEF Copy, Stored, Record
  <2>5. Copy(e) # NoSession
    BY <2>4, SessionAssumption
  <2>6. /\ held'[r] = Copy(e) /\ pc'[r] = "got"
        /\ \A q \in Requests \ {r} : held'[q] = held[q] /\ pc'[q] = pc[q]
    BY <1>t, <2>2 DEF TypeOK
  <2>7. TypeOK'
    BY <1>1, <1>t, <2>2, <2>4 DEF TypeOK
  <2>8. IdsIssued'
    BY <1>1, <2>1, <2>2, <2>4, <2>6 DEF SessionInv, IdsIssued
  <2>9. HoldersAgree'
    BY <1>1, <2>1, <2>4, <2>5, <2>6 DEF SessionInv, HoldersAgree, EndedStaysDead
  <2>10. EndedStaysDead'
    BY <1>1, <2>2 DEF SessionInv, EndedStaysDead
  <2>11. OneNext'
    <3>1. \A l \in 1..MaxIds : Quiet(l)' => Quiet(l)
      BY <1>1, <2>6 DEF Quiet, Rotating
    <3>2. \A l, i \in 1..MaxIds : Live(l, i)' => Live(l, i)
      BY <1>1, <2>1, <2>2, <2>4, <2>6 DEF Live, IsStored, Holds
    <3>3. \A l, i \in 1..MaxIds, q \in Requests :
            Rotating(q, l) /\ held[q].id = i => Rotating(q, l)' /\ held'[q].id = i
      BY <1>1, <2>6 DEF Rotating
    <3>. QED
      BY <3>1, <3>2, <3>3, OneNextKeeps DEF SessionInv
  <2>. QED
    BY <1>t, <2>2, <2>7, <2>8, <2>9, <2>10, <2>11 DEF SessionInv
<1>. QED
  BY <1>2, <1>3

LEMMA GetExpiredKeeps ==
  ASSUME SessionInv, NEW r \in Requests, GetExpired(r)
  PROVE  SessionInv'
<1>1. /\ pc[r] = "got" /\ sessions' = Without(sessions, held[r].id)
      /\ ended' = ended \cup {held[r].id} /\ late' = Overtaken(r)
      /\ End(r) /\ UNCHANGED <<manager, issued, now, contested>>
  BY DEF GetExpired
<1>2. /\ held[r] # NoSession /\ held[r].id \in 1..issued /\ held[r].id \in 1..MaxIds
  BY <1>1, HeldIsRecord
<1>3. /\ sessions' \in Seq(Stored) /\ Distinct(sessions')
      /\ \A e \in ToSet(sessions') : e \in ToSet(sessions) /\ e.id # held[r].id
  BY <1>1, WithoutHolds DEF SessionInv, TypeOK
<1>4. /\ pc' \in [Requests -> {"idle", "got", "ready", "rotated"}]
      /\ held' \in [Requests -> Record \cup {NoSession}]
      /\ pc'[r] = "idle" /\ held'[r] = NoSession
      /\ \A q \in Requests \ {r} : pc'[q] = pc[q] /\ held'[q] = held[q]
  BY <1>1, EndHolds DEF SessionInv
<1>5. /\ late' \subseteq Requests /\ \A q \in Requests \ {r} : q \in late => q \in late'
      /\ \A q \in Requests \ {r} : held[q] # NoSession /\ held[q].id = held[r].id => q \in late'
  BY <1>1, <1>2, OvertakenHolds
<1>6. TypeOK'
  BY <1>1, <1>2, <1>3, <1>4, <1>5 DEF SessionInv, TypeOK
<1>7. Distinct(sessions)' /\ IdsIssued' /\ HoldersAgree' /\ EndedStaysDead' /\ OneNext'
  <2>1. ended' \subseteq 1..issued
    BY <1>1, <1>2 DEF SessionInv, IdsIssued
  <2>. QED
    BY <1>1, <1>2, <1>3, <1>4, <1>5, <2>1, LossKeeps
<1>. QED
  BY <1>6, <1>7 DEF SessionInv

(* RotateDeletes and RotateFails end a rotation.                              *)
LEMMA RotationEnds ==
  ASSUME SessionInv, NEW r \in Requests, RotateDeletes(r) \/ RotateFails(r)
  PROVE  SessionInv'
<1>1. pc[r] = "rotated" /\ End(r) /\ UNCHANGED <<manager, issued, now>>
  BY DEF RotateDeletes, RotateFails
<1>2. /\ held[r] # NoSession /\ held[r].id \in 1..issued /\ held[r].id \in 1..MaxIds
      /\ held[r].login \in 1..MaxIds
  BY <1>1, HeldIsRecord
<1>4. /\ pc' \in [Requests -> {"idle", "got", "ready", "rotated"}]
      /\ held' \in [Requests -> Record \cup {NoSession}]
      /\ pc'[r] = "idle" /\ held'[r] = NoSession
      /\ \A q \in Requests \ {r} : pc'[q] = pc[q] /\ held'[q] = held[q]
  BY <1>1, EndHolds DEF SessionInv
<1>e. ended \subseteq 1..issued
  BY DEF SessionInv, IdsIssued
<1>5. CASE RotateDeletes(r)
  <2>1. /\ sessions' = Without(sessions, held[r].id)
        /\ ended' = ended \cup {held[r].id} /\ late' = Overtaken(r) /\ contested' = Writes(r)
    BY <1>5 DEF RotateDeletes
  <2>2. /\ sessions' \in Seq(Stored) /\ Distinct(sessions')
        /\ \A e \in ToSet(sessions') : e \in ToSet(sessions) /\ e.id # held[r].id
    BY <2>1, WithoutHolds DEF SessionInv, TypeOK
  <2>3. /\ late' \subseteq Requests /\ \A q \in Requests \ {r} : q \in late => q \in late'
        /\ \A q \in Requests \ {r} : held[q] # NoSession /\ held[q].id = held[r].id => q \in late'
    BY <1>2, <2>1, OvertakenHolds
  <2>4. contested \subseteq contested' /\ (r \in late => held[r].login \in contested')
    BY <2>1 DEF Writes
  <2>5. TypeOK'
    BY <1>1, <1>2, <1>4, <2>1, <2>2, <2>3 DEF SessionInv, TypeOK, Writes
  <2>6. Distinct(sessions)' /\ IdsIssued' /\ HoldersAgree' /\ EndedStaysDead' /\ OneNext'
    <3>1. ended' \subseteq 1..issued
      BY <1>2, <1>e, <2>1
    <3>2. \A e \in ToSet(sessions') : e.id \in ended' => e.id \in ended
      BY <2>1, <2>2
    <3>3. \A q \in Requests :
           \/ pc'[q] = "idle" /\ held'[q] = NoSession
              /\ (pc[q] = "rotated" /\ q \in late => held[q].login \in contested')
           \/ /\ held'[q] = held[q] /\ pc'[q] = pc[q] /\ (q \in late => q \in late')
              /\ held[q] # NoSession /\ held[q].id \in ended' => held[q].id \in ended \/ q \in late'
      BY <1>4, <2>1, <2>3, <2>4
    <3>4. \A q \in Requests :
           pc[q] = "rotated" /\ pc'[q] # "rotated" =>
             \/ held[q].login \in contested'
             \/ /\ \A e \in ToSet(sessions') : e.id # held[q].id
                /\ \A p \in Requests : held'[p] # NoSession /\ held'[p].id = held[q].id => p \in late'
      BY <1>4, <2>2, <2>3
    <3>. QED
      BY <1>1, <2>2, <2>4, <3>1, <3>2, <3>3, <3>4, LossKeeps
  <2>. QED
    BY <2>5, <2>6 DEF SessionInv
<1>6. CASE RotateFails(r)
  <2>1. /\ sessions' = sessions /\ ended' = ended /\ late' = late \ {r}
        /\ contested' = contested \cup {held[r].login}
    BY <1>6 DEF RotateFails
  <2>2. TypeOK'
    BY <1>1, <1>2, <1>4, <2>1 DEF SessionInv, TypeOK
  <2>3. Distinct(sessions)' /\ IdsIssued' /\ HoldersAgree' /\ EndedStaysDead' /\ OneNext'
    <3>1. Distinct(sessions') /\ ToSet(sessions') \subseteq ToSet(sessions)
      BY <2>1 DEF SessionInv
    <3>. QED
      BY <1>1, <1>4, <1>e, <2>1, <3>1, LossKeeps
  <2>. QED
    BY <2>2, <2>3 DEF SessionInv
<1>. QED
  BY <1>5, <1>6

(* GetRolling, Save and Update store the copy the request holds.              *)
LEMMA WritesKeep ==
  ASSUME SessionInv, NEW r \in Requests, NEW maxAgeMs \in MaxAges,
         GetRolling(r) \/ Save(r) \/ Update(r, maxAgeMs)
  PROVE  SessionInv'
<1>. DEFINE x == held[r]
<1>1. pc[r] \in {"got", "ready"} /\ contested' = Writes(r) /\ UNCHANGED <<manager, issued, now, ended>>
  BY DEF GetRolling, Save, Update
<1>2. /\ held[r] # NoSession /\ held[r] \in Record /\ held[r].id \in 1..MaxIds
      /\ held[r].login \in 1..MaxIds
  BY <1>1, HeldIsRecord
<1>t. /\ now \in 0..MaxTime /\ manager.maxAgeMs \in 0..MaxAge /\ MaxAge \in Nat /\ MaxTime \in Nat
      /\ Never \in Nat /\ pc \in [Requests -> {"idle", "got", "ready", "rotated"}]
      /\ held \in [Requests -> Record \cup {NoSession}]
      /\ contested \subseteq 1..MaxIds /\ late \subseteq Requests
  BY SessionAssumption DEF SessionInv, TypeOK, Never
<1>a. \A a \in 0..MaxAge :
        /\ RefreshSession(held[r], a) \in Record
        /\ RefreshSession(held[r], a).id = held[r].id
        /\ RefreshSession(held[r], a).login = held[r].login
  BY <1>2, <1>t DEF RefreshSession, Record, Never
<1>b. contested' \subseteq 1..MaxIds
  BY <1>1, <1>2, <1>t DEF Writes
<1>3. ASSUME NEW a \in 0..MaxAge, sessions' = StoreSet(sessions, RefreshSession(held[r], a))
      PROVE  /\ sessions' \in Seq(Stored) /\ Distinct(sessions')
             /\ \A e \in ToSet(sessions') :
                  e \in ToSet(sessions) \/ (e.id = held[r].id /\ e.login = held[r].login)
  BY <1>3, <1>a, StoreSetHolds DEF SessionInv
<1>4. CASE GetRolling(r)
  <2>1. /\ held' = [held EXCEPT ![r] = RefreshSession(held[r], manager.maxAgeMs)]
        /\ sessions' = StoreSet(sessions, held'[r]) /\ late' = late
        /\ pc' = [pc EXCEPT ![r] = "ready"]
    BY <1>4 DEF GetRolling
  <2>2. /\ held'[r] = RefreshSession(held[r], manager.maxAgeMs) /\ pc'[r] = "ready"
        /\ \A q \in Requests \ {r} : held'[q] = held[q] /\ pc'[q] = pc[q]
    BY <1>t, <2>1
  <2>3. /\ sessions' \in Seq(Stored) /\ Distinct(sessions')
        /\ \A e \in ToSet(sessions') :
             e \in ToSet(sessions) \/ (e.id = held[r].id /\ e.login = held[r].login)
    BY <1>t, <1>3, <2>1, <2>2
  <2>4. held' \in [Requests -> Record \cup {NoSession}]
    BY <1>t, <1>a, <2>1
  <2>5. held'[r] # NoSession
    BY <1>t, <1>a, <2>2, SessionAssumption
  <2>6. TypeOK'
    BY <1>1, <1>b, <1>t, <2>1, <2>3, <2>4 DEF SessionInv, TypeOK
  <2>7. Distinct(sessions)' /\ IdsIssued' /\ HoldersAgree' /\ EndedStaysDead' /\ OneNext'
    BY <1>1, <1>2, <1>a, <1>t, <2>1, <2>2, <2>3, <2>5, WriteKeeps
  <2>. QED
    BY <2>6, <2>7 DEF SessionInv
<1>5. CASE Save(r)
  <2>1. sessions' = StoreSet(sessions, RefreshSession(held[r], 0)) /\ late' = late \ {r} /\ End(r)
    BY <1>5 DEF Save
  <2>2. /\ pc' \in [Requests -> {"idle", "got", "ready", "rotated"}]
        /\ held' \in [Requests -> Record \cup {NoSession}]
        /\ pc'[r] = "idle" /\ held'[r] = NoSession
        /\ \A q \in Requests \ {r} : pc'[q] = pc[q] /\ held'[q] = held[q]
    BY <2>1, EndHolds DEF SessionInv
  <2>3. /\ sessions' \in Seq(Stored) /\ Distinct(sessions')
        /\ \A e \in ToSet(sessions') :
             e \in ToSet(sessions) \/ (e.id = held[r].id /\ e.login = held[r].login)
    BY <1>t, <1>3, <2>1
  <2>4. TypeOK'
    BY <1>1, <1>b, <1>t, <2>1, <2>2, <2>3 DEF SessionInv, TypeOK
  <2>5. Distinct(sessions)' /\ IdsIssued' /\ HoldersAgree' /\ EndedStaysDead' /\ OneNext'
    BY <1>1, <1>2, <2>1, <2>2, <2>3, WriteKeeps
  <2>. QED
    BY <2>4, <2>5 DEF SessionInv
<1>6. CASE Update(r, maxAgeMs)
  <2>0. maxAgeMs \in 0..MaxAge
    BY <1>t DEF MaxAges
  <2>1. /\ held' = [held EXCEPT ![r] = RefreshSession(held[r], maxAgeMs)]
        /\ sessions' = StoreSet(sessions, held'[r]) /\ late' = late /\ pc' = pc
    BY <1>6 DEF Update, UpdateSessionRecord
  <2>2. /\ held'[r] = RefreshSession(held[r], maxAgeMs)
        /\ \A q \in Requests \ {r} : held'[q] = held[q] /\ pc'[q] = pc[q]
    BY <1>t, <2>1
  <2>3. /\ sessions' \in Seq(Stored) /\ Distinct(sessions')
        /\ \A e \in ToSet(sessions') :
             e \in ToSet(sessions) \/ (e.id = held[r].id /\ e.login = held[r].login)
    BY <1>3, <2>0, <2>1, <2>2
  <2>4. held' \in [Requests -> Record \cup {NoSession}]
    BY <1>t, <1>a, <2>0, <2>1
  <2>5. held'[r] # NoSession
    BY <1>a, <2>0, <2>2, SessionAssumption
  <2>6. TypeOK'
    BY <1>1, <1>b, <1>t, <2>1, <2>3, <2>4 DEF SessionInv, TypeOK
  <2>7. Distinct(sessions)' /\ IdsIssued' /\ HoldersAgree' /\ EndedStaysDead' /\ OneNext'
    BY <1>1, <1>2, <1>a, <2>0, <2>1, <2>2, <2>3, <2>5, WriteKeeps
  <2>. QED
    BY <2>6, <2>7 DEF SessionInv
<1>. QED
  BY <1>4, <1>5, <1>6

(* A rotation stores a new id: the old one is rotated away, unless another    *)
(* rotation of it is under way, which is late from now on.                   *)
LEMMA RotateStoresKeeps ==
  ASSUME SessionInv, NEW r \in Requests, NEW maxAgeMs \in MaxAges, RotateStores(r, maxAgeMs)
  PROVE  SessionInv'
<1>. DEFINE x == Rotated(held[r], issued + 1, maxAgeMs)
<1>1. /\ pc[r] = "ready" /\ issued < MaxIds /\ issued' = issued + 1
      /\ sessions' = StoreSet(sessions, x) /\ contested' = Writes(r)
      /\ late' = Overtaken(r) \cup (late \cap {r}) /\ pc' = [pc EXCEPT ![r] = "rotated"]
      /\ UNCHANGED <<manager, now, held, ended>>
  BY DEF RotateStores
<1>2. /\ held[r] # NoSession /\ held[r] \in Record /\ held[r].id \in 1..issued
      /\ held[r].id \in 1..MaxIds /\ held[r].login \in 1..MaxIds
  BY <1>1, HeldIsRecord
<1>t. /\ now \in 0..MaxTime /\ manager.maxAgeMs \in 0..MaxAge /\ MaxAge \in Nat /\ MaxTime \in Nat
      /\ Never \in Nat /\ pc \in [Requests -> {"idle", "got", "ready", "rotated"}]
      /\ contested \subseteq 1..MaxIds /\ issued \in Nat /\ MaxIds \in Nat
      /\ issued + 1 \in 1..MaxIds /\ maxAgeMs \in 0..MaxAge
  BY <1>1, SessionAssumption DEF SessionInv, TypeOK, Never, MaxAges
<1>3. x \in Record /\ x.id = issued + 1 /\ x.login = held[r].login
  <2>. DEFINE y == RefreshSession(held[r], maxAgeMs)
  <2>1. y \in Record /\ y.login = held[r].login
    BY <1>2, <1>t DEF RefreshSession, Record, Never
  <2>2. x = [y EXCEPT !.id = issued + 1]
    BY DEF Rotated, UpdateSessionRecord
  <2>. HIDE DEF y, x
  <2>. QED
    BY <1>t, <2>1, <2>2 DEF Record
<1>. HIDE DEF x
<1>4. /\ sessions' \in Seq(Stored) /\ Distinct(sessions')
      /\ \A e \in ToSet(sessions') :
           e \in ToSet(sessions) \/ (e.id = issued + 1 /\ e.login = held[r].login)
  BY <1>1, <1>3, StoreSetHolds DEF SessionInv
<1>5. /\ late' \subseteq Requests /\ late \subseteq late'
      /\ \A q \in Requests \ {r} : held[q] # NoSession /\ held[q].id = held[r].id => q \in late'
      /\ r \in late' <=> r \in late
  <2>1. /\ Overtaken(r) \subseteq Requests /\ r \notin Overtaken(r)
        /\ \A q \in Requests \ {r} : q \in late => q \in Overtaken(r)
        /\ \A q \in Requests \ {r} :
             held[q] # NoSession /\ held[q].id = held[r].id => q \in Overtaken(r)
    BY <1>2, OvertakenHolds DEF Overtaken
  <2>2. late \subseteq Requests
    BY DEF SessionInv, TypeOK
  <2>. QED
    BY <1>1, <2>1, <2>2
<1>6. contested \subseteq contested' /\ (r \in late => held[r].login \in contested')
  BY <1>1 DEF Writes
<1>7. /\ pc'[r] = "rotated" /\ \A q \in Requests \ {r} : pc'[q] = pc[q]
      /\ pc' \in [Requests -> {"idle", "got", "ready", "rotated"}]
  BY <1>1, <1>t
<1>8. TypeOK'
  <2>1. contested' \subseteq 1..MaxIds
    BY <1>1, <1>2, <1>t DEF Writes
  <2>2. issued' \in 0..MaxIds
    BY <1>1, <1>t
  <2>. QED
    BY <1>1, <1>4, <1>5, <1>7, <2>1, <2>2 DEF SessionInv, TypeOK
<1>b. /\ \A e \in ToSet(sessions) : e.id \in Nat /\ e.login \in Nat
      /\ \A q \in Requests : held[q] # NoSession => held[q].id \in Nat /\ held[q].login \in Nat
  <2>1. \A e \in ToSet(sessions) : e \in Stored
    BY DEF SessionInv, TypeOK, ToSet
  <2>2. \A q \in Requests : held[q] # NoSession => held[q] \in Record
    BY DEF SessionInv, TypeOK
  <2>. QED
    BY <2>1, <2>2 DEF Stored, Record
<1>9. IdsIssued'
  <2>1. held[r].login <= issued
    BY <1>2 DEF SessionInv, IdsIssued
  <2>2. ended' \subseteq 1..issued'
    BY <1>1, <1>t DEF SessionInv, IdsIssued
  <2>3. \A e \in ToSet(sessions') : e.id <= issued' /\ e.login <= issued'
    BY <1>1, <1>2, <1>t, <1>4, <1>b, <2>1 DEF SessionInv, IdsIssued
  <2>4. \A q \in Requests : held'[q] # NoSession => held'[q].id <= issued' /\ held'[q].login <= issued'
    BY <1>1, <1>t, <1>b DEF SessionInv, IdsIssued
  <2>. QED
    BY <2>2, <2>3, <2>4 DEF IdsIssued
<1>10. HoldersAgree'
  BY <1>1, <1>2, <1>5, <1>6, <1>7 DEF SessionInv, HoldersAgree
<1>11. EndedStaysDead'
  <2>1. issued + 1 \notin ended
    BY <1>t DEF SessionInv, IdsIssued
  <2>. QED
    BY <1>1, <1>4, <1>6, <2>1 DEF SessionInv, EndedStaysDead
<1>12. OneNext'
  <2>. SUFFICES ASSUME NEW l \in 1..MaxIds, NEW i \in 1..MaxIds, NEW j \in 1..MaxIds,
                       Quiet(l)', Live(l, i)', Live(l, j)', i < j
                PROVE  \E q \in Requests : Rotating(q, l)' /\ held'[q].id = i
    BY DEF OneNext
  <2>1. Quiet(l)
    BY <1>1, <1>5, <1>6, <1>7 DEF Quiet, Rotating
  <2>2. \A k \in 1..MaxIds :
          Live(l, k)' => Live(l, k) \/ (l = held[r].login /\ k = issued + 1)
    BY <1>1, <1>4, <1>5 DEF Live, IsStored, Holds
  <2>3. \A k \in 1..MaxIds : Live(l, k) => k <= issued
    BY DEF Live, IsStored, Holds, SessionInv, IdsIssued
  <2>4. Live(l, i)
    BY <1>t, <2>2, <2>3
  <2>5. \A q \in Requests : Rotating(q, l) => Rotating(q, l)'
    BY <1>1, <1>7 DEF Rotating
  <2>6. CASE Live(l, j)
    BY <1>1, <2>1, <2>4, <2>5, <2>6 DEF SessionInv, OneNext
  <2>7. CASE l = held[r].login /\ j = issued + 1
    <3>1. r \notin late /\ Live(l, held[r].id)
      BY <1>2, <1>6, <2>7 DEF Quiet, Live, Holds
    <3>2. CASE i = held[r].id
      BY <1>1, <1>7, <2>7, <3>2 DEF Rotating
    <3>3. CASE i < held[r].id
      <4>1. \E q \in Requests : Rotating(q, l) /\ held[q].id = i
        BY <1>2, <2>1, <2>4, <3>1, <3>3 DEF SessionInv, OneNext
      <4>. QED
        BY <1>1, <2>5, <4>1
    <3>4. CASE held[r].id < i
      <4>1. PICK q \in Requests : Rotating(q, l) /\ held[q].id = held[r].id
        BY <1>2, <2>1, <2>4, <3>1, <3>4 DEF SessionInv, OneNext
      <4>2. q # r /\ held[q] # NoSession
        BY <1>1, <4>1 DEF Rotating, SessionInv, HoldersAgree
      <4>3. q \in late' /\ Rotating(q, l)'
        BY <1>5, <2>5, <4>1, <4>2
      <4>. QED
        BY <4>3 DEF Quiet
    <3>. QED
      BY <1>2, <3>2, <3>3, <3>4
  <2>. QED
    BY <2>2, <2>6, <2>7
<1>. QED
  BY <1>4, <1>8, <1>9, <1>10, <1>11, <1>12 DEF SessionInv

(* The steps that only end something, or move on with what they hold.         *)
LEMMA OtherSessionSteps ==
  ASSUME SessionInv,
         \/ Tick \/ Clear
         \/ \E id \in 1..issued : Destroy(id)
         \/ \E r \in Requests : GetAllowExpired(r) \/ GetHit(r) \/ Leave(r)
         \/ UNCHANGED vars
  PROVE  SessionInv'
<1>e. /\ ended \subseteq 1..issued /\ issued \in 0..MaxIds /\ MaxIds \in Nat /\ Distinct(sessions)
      /\ TypeOK
  BY SessionAssumption DEF SessionInv, IdsIssued, TypeOK
<1>1. CASE UNCHANGED <<sessions, issued, pc, held, ended, late, contested>> /\ TypeOK'
  BY <1>1, <1>e, LossKeeps DEF SessionInv
<1>2. CASE Tick
  <2>1. TypeOK'
    BY <1>2, SessionAssumption DEF SessionInv, TypeOK, Tick
  <2>. QED
    BY <1>1, <1>2, <2>1 DEF Tick
<1>3. CASE UNCHANGED vars
  BY <1>1, <1>3 DEF vars, SessionInv, TypeOK
<1>4. CASE Clear
  <2>1. /\ sessions' = <<>> /\ ended' = 1..issued /\ late' = {q \in Requests : held[q] # NoSession}
        /\ UNCHANGED <<manager, issued, now, pc, held, contested>>
    BY <1>4 DEF Clear
  <2>2. sessions' \in Seq(Stored) /\ Distinct(sessions') /\ ToSet(sessions') = {}
    BY <2>1 DEF Distinct, ToSet
  <2>3. TypeOK'
    BY <1>e, <2>1, <2>2 DEF TypeOK
  <2>4. IdsIssued'
    BY <2>1, <2>2 DEF SessionInv, IdsIssued
  <2>5. HoldersAgree'
    BY <2>1 DEF SessionInv, HoldersAgree
  <2>6. EndedStaysDead'
    BY <2>2 DEF EndedStaysDead
  <2>7. OneNext'
    BY <2>1, <2>2 DEF OneNext, Live, IsStored, Holds
  <2>. QED
    BY <2>2, <2>3, <2>4, <2>5, <2>6, <2>7 DEF SessionInv
<1>5. ASSUME NEW id \in 1..issued, Destroy(id) PROVE SessionInv'
  <2>1. /\ sessions' = Without(sessions, id) /\ ended' = ended \cup {id}
        /\ late' = late \cup Holders(id)
        /\ UNCHANGED <<manager, issued, now, pc, held, contested>>
    BY <1>5 DEF Destroy
  <2>2. /\ sessions' \in Seq(Stored) /\ Distinct(sessions')
        /\ \A e \in ToSet(sessions') : e \in ToSet(sessions) /\ e.id # id
    BY <1>e, <2>1, WithoutHolds DEF TypeOK
  <2>3. TypeOK'
    BY <1>e, <2>1, <2>2 DEF TypeOK, Holders
  <2>4. Distinct(sessions)' /\ IdsIssued' /\ HoldersAgree' /\ EndedStaysDead' /\ OneNext'
    <3>1. ended' \subseteq 1..issued
      BY <1>e, <2>1
    <3>2. \A q \in Requests : held[q] # NoSession /\ held[q].id = id => q \in late'
      BY <2>1 DEF Holders
    <3>. QED
      BY <2>1, <2>2, <3>1, <3>2, LossKeeps
  <2>. QED
    BY <2>3, <2>4 DEF SessionInv
<1>6. ASSUME NEW r \in Requests, GetAllowExpired(r) \/ GetHit(r) PROVE SessionInv'
  <2>1. /\ pc[r] = "got" /\ pc' = [pc EXCEPT ![r] = "ready"]
        /\ UNCHANGED <<manager, sessions, issued, now, held, ended, late, contested>>
    BY <1>6 DEF GetAllowExpired, GetHit
  <2>2. pc'[r] = "ready" /\ \A q \in Requests \ {r} : pc'[q] = pc[q]
    BY <1>e, <2>1 DEF TypeOK
  <2>3. TypeOK'
    BY <1>e, <2>1 DEF TypeOK
  <2>4. IdsIssued' /\ HoldersAgree' /\ EndedStaysDead'
    BY <2>1, <2>2 DEF SessionInv, IdsIssued, HoldersAgree, EndedStaysDead
  <2>5. \A l : \A q \in Requests : Rotating(q, l)' <=> Rotating(q, l)
    BY <2>1, <2>2 DEF Rotating
  <2>6. OneNext'
    BY <2>1, <2>5, OneNextKeeps DEF SessionInv, Quiet, Live, IsStored, Holds
  <2>. QED
    BY <1>e, <2>1, <2>3, <2>4, <2>6 DEF SessionInv
<1>7. ASSUME NEW r \in Requests, Leave(r) PROVE SessionInv'
  <2>1. /\ pc[r] \in {"got", "ready"} /\ late' = late \ {r} /\ End(r)
        /\ UNCHANGED <<manager, sessions, issued, now, ended, contested>>
    BY <1>7 DEF Leave
  <2>2. /\ pc' \in [Requests -> {"idle", "got", "ready", "rotated"}]
        /\ held' \in [Requests -> Record \cup {NoSession}]
        /\ pc'[r] = "idle" /\ held'[r] = NoSession
        /\ \A q \in Requests \ {r} : pc'[q] = pc[q] /\ held'[q] = held[q]
    BY <1>e, <2>1, EndHolds
  <2>3. TypeOK'
    BY <1>e, <2>1, <2>2 DEF TypeOK
  <2>4. Distinct(sessions)' /\ IdsIssued' /\ HoldersAgree' /\ EndedStaysDead' /\ OneNext'
    BY <1>e, <2>1, <2>2, LossKeeps
  <2>. QED
    BY <2>3, <2>4 DEF SessionInv
<1>. QED
  BY <1>2, <1>3, <1>4, <1>5, <1>6, <1>7

LEMMA NextSessions == SessionInv /\ [Next]_vars => SessionInv'
<1>. SUFFICES ASSUME SessionInv, [Next]_vars PROVE SessionInv'
  OBVIOUS
<1>1. ASSUME NEW r \in Requests, NEW id \in 1..issued, Get(r, id) PROVE SessionInv'
  BY <1>1, GetKeeps
<1>2. ASSUME NEW r \in Requests, GetRolling(r) \/ Save(r) PROVE SessionInv'
  <2>1. 0 \in MaxAges
    BY DEF MaxAges
  <2>. QED
    BY <1>2, <2>1, WritesKeep
<1>3. ASSUME NEW r \in Requests, NEW a \in MaxAges, Update(r, a) PROVE SessionInv'
  BY <1>3, WritesKeep
<1>4. ASSUME NEW r \in Requests, NEW a \in MaxAges, RotateStores(r, a) PROVE SessionInv'
  BY <1>4, RotateStoresKeeps
<1>5. ASSUME NEW r \in Requests, RotateDeletes(r) \/ RotateFails(r) PROVE SessionInv'
  BY <1>5, RotationEnds
<1>6. ASSUME NEW r \in Requests, GetAllowExpired(r) \/ GetHit(r) \/ Leave(r) PROVE SessionInv'
  BY <1>6, OtherSessionSteps
<1>7. ASSUME Tick \/ Clear \/ (\E id \in 1..issued : Destroy(id)) \/ UNCHANGED vars PROVE SessionInv'
  BY <1>7, OtherSessionSteps
<1>8. ASSUME NEW r \in Requests, GetExpired(r) PROVE SessionInv'
  BY <1>8, GetExpiredKeeps
<1>. QED
  BY <1>1, <1>2, <1>3, <1>4, <1>5, <1>6, <1>7, <1>8, CreateKeeps DEF Next

LEMMA SessionInvariant == Spec => []SessionInv
BY InitSessions, NextSessions, PTL DEF Spec

(* No session whose end was answered is stored again, unless a request that   *)
(* was under way at that end wrote its copy (destroyById, rotate, getById,    *)
(* EndedStaysDead).                                                          *)
THEOREM EndedStayDead == Spec => []EndedStaysDead
<1>1. SessionInv => EndedStaysDead
  BY DEF SessionInv
<1>. QED
  BY <1>1, SessionInvariant, PTL

(* One login has one session, but for a rotation that is under way or failed, *)
(* and for what a request wrote that a rotation overtook (rotate,             *)
(* OneSessionPerLogin).                                                      *)
THEOREM LoginsStaySingle == Spec => []OneSessionPerLogin
<1>1. SessionInv => OneSessionPerLogin
  <2>. SUFFICES ASSUME SessionInv, NEW i \in DOMAIN sessions, NEW j \in DOMAIN sessions, i # j,
                       sessions[i].login = sessions[j].login,
                       sessions[i].login \notin contested,
                       \A r \in Requests : ~(pc[r] = "rotated" /\ held[r].login = sessions[i].login)
                PROVE  FALSE
    BY DEF OneSessionPerLogin
  <2>. DEFINE l == sessions[i].login
              a == sessions[i].id
              b == sessions[j].id
  <2>1. sessions[i] \in Stored /\ sessions[j] \in Stored
    BY DEF SessionInv, TypeOK
  <2>2. l \in 1..MaxIds /\ a \in 1..MaxIds /\ b \in 1..MaxIds
    BY <2>1 DEF Stored
  <2>3. a # b
    BY DEF SessionInv, Distinct
  <2>4. Quiet(l) /\ Live(l, a) /\ Live(l, b)
    BY DEF Quiet, Rotating, Live, IsStored, ToSet
  <2>5. \A r \in Requests : ~Rotating(r, l)
    BY DEF Rotating
  <2>. HIDE DEF l, a, b
  <2>6. a < b \/ b < a
    BY <2>2, <2>3
  <2>. QED
    BY <2>2, <2>4, <2>5, <2>6 DEF SessionInv, OneNext
<1>. QED
  BY <1>1, SessionInvariant, PTL

-----------------------------------------------------------------------------
(* A step of the suite is a step of one component, or none, for each of them. *)
LEMMA StateSteps == [StateNext]_stateVars => [Next]_vars /\ [OS!Next]_OS!vars /\ [JL!Next]_JL!vars
BY DEF StateNext, SessionsAct, StorageActs, JobsAct, stateVars, vars, storageVars, listingVars,
   OS!vars, JL!vars

LEMMA StateSpecs == StateSpec => Spec /\ OS!Spec /\ JL!Spec
<1>1. StateInit => Init /\ OS!Init /\ JL!Init
  BY DEF StateInit
<1>. QED
  BY <1>1, StateSteps, PTL DEF StateSpec, Spec, OS!Spec, JL!Spec

-----------------------------------------------------------------------------
(* The object stores.  A call under way has a key.                            *)
CallsHaveKeys == \A c \in Callers : place[c] # "idle" => key[c] \in Keys

(* What a listing returned, then what it has still to read, then its cursor,  *)
(* all in the order of the keys, and all of them met below the prefix.        *)
PagesAscend ==
  /\ OS!Ascending(listing.seen) /\ OS!Ascending(listing.page)
  /\ \A i \in DOMAIN listing.seen, j \in DOMAIN listing.page : listing.seen[i] < listing.page[j]
  /\ OS!ToSet(listing.seen) \cup OS!ToSet(listing.page) \subseteq listing.met \cap Prefixed
  /\ listing.cursor # Nothing =>
       /\ \A i \in DOMAIN listing.seen : listing.seen[i] < listing.cursor
       /\ \A i \in DOMAIN listing.page : listing.page[i] < listing.cursor

CursorAgrees ==
  /\ listing.at # "reading" => listing.page = <<>>
  /\ listing.at = "begin" => listing.cursor = Nothing /\ listing.seen = <<>> /\ listing.kept = {}
  /\ listing.at = "between" => listing.cursor # Nothing
  /\ listing.at = "end" => listing.cursor = Nothing
  /\ listing.at \in {"reading", "between"} => OS!There(object) \subseteq listing.met

(* What was there all along is returned, on the page, or not before the       *)
(* cursor.                                                                   *)
KeptIsAhead ==
  /\ listing.kept \subseteq OS!There(object) \cap Prefixed
  /\ \A k \in listing.kept : \/ k \in OS!ToSet(listing.seen) \cup OS!ToSet(listing.page)
                             \/ listing.cursor # Nothing /\ listing.cursor <= k

StorageInv ==
  /\ OS!TypeOK /\ CallsHaveKeys /\ OS!TornNeedsCause
  /\ PagesAscend /\ CursorAgrees /\ KeptIsAhead

(* The job listing of the PostgreSQL store.  The pages go up to the cursor,   *)
(* and what was there all along is returned or comes after it.                *)
SeenAscends ==
  /\ \A i, j \in DOMAIN seen : i < j => seen[i] < seen[j]
  /\ cursor # Nothing => \A i \in DOMAIN seen : seen[i] <= cursor
  /\ at = "begin" => cursor = Nothing /\ seen = <<>>
  /\ at = "between" => cursor # Nothing

KeptIsAfter ==
  /\ at = "begin" => kept = {}
  /\ kept \subseteq JL!ToSet(enqueued)
  /\ \A id \in kept : id \in JL!ToSet(seen) \/ (cursor # Nothing /\ cursor < id)
  /\ at = "end" => cursor = Nothing

ListInv == JL!TypeOK /\ (store = "postgres" => SeenAscends /\ KeptIsAfter)

LEMMA InitStorage == OS!Init => StorageInv
<1>. SUFFICES ASSUME OS!Init PROVE StorageInv
  OBVIOUS
<1>1. /\ listing = OS!Fresh /\ order = <<>> /\ scarred = {}
      /\ object = [k \in Keys |-> "absent"] /\ place = [c \in Callers |-> "idle"]
      /\ key = [c \in Callers |-> Nothing] /\ todo = [c \in Callers |-> {}]
      /\ kind \in ObjectStores
  BY DEF OS!Init
<1>2. /\ listing.at = "begin" /\ listing.cursor = Nothing /\ listing.page = <<>>
      /\ listing.seen = <<>> /\ listing.kept = {} /\ listing.met = {}
  BY <1>1 DEF OS!Fresh
<1>3. listing \in OS!Listing
  <2>1. <<>> \in Seq(Keys)
    OBVIOUS
  <2>. QED
    BY <1>1, <2>1 DEF OS!Fresh, OS!Listing
<1>4. OS!TypeOK
  <2>1. order \in Seq(Keys)
    BY <1>1
  <2>. QED
    BY <1>1, <1>3, <2>1 DEF OS!TypeOK, OS!Contents
<1>5. CallsHaveKeys /\ OS!TornNeedsCause
  BY <1>1 DEF CallsHaveKeys, OS!TornNeedsCause
<1>6. PagesAscend /\ CursorAgrees /\ KeptIsAhead
  BY <1>2 DEF PagesAscend, CursorAgrees, KeptIsAhead, OS!Ascending, OS!ToSet
<1>. QED
  BY <1>4, <1>5, <1>6 DEF StorageInv

(* What a caller changes of the store takes nothing from a listing but what   *)
(* was not there all along.                                                  *)
LEMMA BecomesKeeps ==
  ASSUME StorageInv, NEW o \in [Keys -> OS!Contents], OS!Becomes(o)
  PROVE  /\ object' \in [Keys -> OS!Contents] /\ object' = o
         /\ listing' \in OS!Listing /\ PagesAscend' /\ CursorAgrees' /\ KeptIsAhead'
<1>1. /\ object' = o /\ OS!There(object)' = OS!There(o) /\ OS!There(o) \subseteq Keys
      /\ listing' = [listing EXCEPT
           !.kept = @ \cap OS!There(o),
           !.met = IF listing.at \in {"begin", "end"} THEN @ ELSE @ \cup OS!There(o)]
  BY DEF OS!Becomes, OS!There
<1>2. listing \in OS!Listing
  BY DEF StorageInv, OS!TypeOK
<1>3. /\ listing'.at = listing.at /\ listing'.cursor = listing.cursor
      /\ listing'.page = listing.page /\ listing'.seen = listing.seen
      /\ listing'.kept = listing.kept \cap OS!There(o)
      /\ listing'.met = IF listing.at \in {"begin", "end"} THEN listing.met
                        ELSE listing.met \cup OS!There(o)
  BY <1>1, <1>2 DEF OS!Listing
<1>4. listing' \in OS!Listing
  BY <1>1, <1>2 DEF OS!Listing
<1>5. PagesAscend'
  BY <1>3 DEF StorageInv, PagesAscend, OS!Ascending, OS!ToSet
<1>6. CursorAgrees'
  BY <1>1, <1>3 DEF StorageInv, CursorAgrees
<1>7. KeptIsAhead'
  BY <1>1, <1>3 DEF StorageInv, KeptIsAhead, OS!ToSet
<1>. QED
  BY <1>1, <1>4, <1>5, <1>6, <1>7

(* A caller ends its call.                                                    *)
LEMMA IdleHolds ==
  ASSUME StorageInv, NEW c \in Callers, OS!Idle(c)
  PROVE  /\ place' \in [Callers -> {"idle", "writing", "removing", "clearing"}]
         /\ key' \in [Callers -> Keys \cup {Nothing}] /\ CallsHaveKeys'
         /\ place'[c] = "idle"
         /\ \A d \in Callers \ {c} : place'[d] = place[d] /\ key'[d] = key[d]
BY DEF StorageInv, OS!TypeOK, CallsHaveKeys, OS!Idle

(* A call writes the whole store, or one object of it, and is over: the order *)
(* of the memory store stays a sequence of keys.                             *)
LEMMA WholeCallKeeps ==
  ASSUME StorageInv, NEW c \in Callers, place[c] # "writing", OS!Idle(c),
         NEW o \in [Keys -> OS!Contents], OS!Becomes(o),
         \A k \in Keys : o[k] = "torn" => object[k] = "torn",
         order' \in Seq(Keys), todo' \in [Callers -> SUBSET Keys], UNCHANGED <<kind, scarred>>
  PROVE  StorageInv'
<1>1. /\ object' \in [Keys -> OS!Contents] /\ object' = o
      /\ listing' \in OS!Listing /\ PagesAscend' /\ CursorAgrees' /\ KeptIsAhead'
  BY BecomesKeeps
<1>2. /\ place' \in [Callers -> {"idle", "writing", "removing", "clearing"}]
      /\ key' \in [Callers -> Keys \cup {Nothing}] /\ CallsHaveKeys'
      /\ place'[c] = "idle"
      /\ \A d \in Callers \ {c} : place'[d] = place[d] /\ key'[d] = key[d]
  BY IdleHolds
<1>3. OS!TypeOK'
  BY <1>1, <1>2 DEF StorageInv, OS!TypeOK
<1>4. \A k \in Keys : OS!Writers(k)' = OS!Writers(k)
  BY <1>2 DEF OS!Writers
<1>5. OS!TornNeedsCause'
  BY <1>1, <1>4 DEF StorageInv, OS!TornNeedsCause
<1>. QED
  BY <1>1, <1>2, <1>3, <1>5 DEF StorageInv

LEMMA OrderHolds ==
  ASSUME StorageInv, NEW k \in Keys
  PROVE  /\ OS!Without(order, k) \in Seq(Keys)
         /\ OS!EvictOldestObjects(Append(OS!Without(order, k), k)) \in Seq(Keys)
<1>1. order \in Seq(Keys)
  BY DEF StorageInv, OS!TypeOK
<1>2. OS!Without(order, k) \in Seq(Keys)
  <2>1. CASE k \in OS!ToSet(order)
    <3>. DEFINE i == CHOOSE i \in DOMAIN order : order[i] = k
    <3>1. i \in DOMAIN order
      BY <2>1 DEF OS!ToSet
    <3>2. OS!Without(order, k) = SubSeq(order, 1, i - 1) \o SubSeq(order, i + 1, Len(order))
      BY <2>1 DEF OS!Without, OS!RemoveAt
    <3>. HIDE DEF i
    <3>. QED
      BY <1>1, <3>1, <3>2, CutOut
  <2>2. CASE k \notin OS!ToSet(order)
    BY <1>1, <2>2 DEF OS!Without
  <2>. QED
    BY <2>1, <2>2
<1>. DEFINE s == Append(OS!Without(order, k), k)
<1>3. s \in Seq(Keys) /\ Len(s) \in Nat
  BY <1>2
<1>. HIDE DEF s
<1>4. OS!EvictOldestObjects(s) \in Seq(Keys)
  <2>1. CASE Len(s) <= MaxObjects
    BY <1>3, <2>1 DEF OS!EvictOldestObjects
  <2>2. CASE ~(Len(s) <= MaxObjects)
    <3>1. Len(s) - MaxObjects + 1 \in 1..Len(s) + 1
      BY <1>3, <2>2, StateAssumption DEF OS!StorageAssumption
    <3>2. SubSeq(s, Len(s) - MaxObjects + 1, Len(s)) \in Seq(Keys)
      BY <1>3, <3>1, SubSeqProperties
    <3>. QED
      BY <2>2, <3>2 DEF OS!EvictOldestObjects
  <2>. QED
    BY <2>1, <2>2
<1>. QED
  BY <1>2, <1>4 DEF s

(* put, delete and clear where a call answers what it did.                    *)
LEMMA WholeCallsKeep ==
  ASSUME StorageInv, NEW c \in Callers, NEW k \in Keys,
         OS!MemoryPut(c, k) \/ OS!S3Put(c, k) \/ OS!MemoryDelete(c, k) \/ OS!MemoryClear(c)
           \/ OS!DeleteRemoves(c)
  PROVE  StorageInv'
<1>1. /\ object \in [Keys -> OS!Contents] /\ order \in Seq(Keys)
      /\ todo \in [Callers -> SUBSET Keys]
      /\ {"absent", "whole"} \subseteq OS!Contents
  BY DEF StorageInv, OS!TypeOK, OS!Contents
<1>2. CASE OS!MemoryPut(c, k)
  <2>. DEFINE o == [j \in Keys |-> IF j \in OS!ToSet(order') THEN "whole" ELSE "absent"]
  <2>1. o \in [Keys -> OS!Contents] /\ \A j \in Keys : o[j] # "torn"
    BY <1>1
  <2>2. /\ OS!Becomes(o) /\ place[c] = "idle" /\ OS!Idle(c) /\ UNCHANGED <<kind, todo, scarred>>
        /\ order' = OS!EvictOldestObjects(Append(OS!Without(order, k), k))
    BY <1>2 DEF OS!MemoryPut
  <2>3. order' \in Seq(Keys) /\ todo' \in [Callers -> SUBSET Keys]
    BY <1>1, <2>2, OrderHolds
  <2>. HIDE DEF o
  <2>. QED
    BY <2>1, <2>2, <2>3, WholeCallKeeps
<1>3. CASE OS!S3Put(c, k)
  <2>. DEFINE o == [object EXCEPT ![k] = "whole"]
  <2>1. o \in [Keys -> OS!Contents] /\ \A j \in Keys : o[j] = "torn" => object[j] = "torn"
    BY <1>1
  <2>2. OS!Becomes(o) /\ place[c] = "idle" /\ OS!Idle(c) /\ UNCHANGED <<kind, order, todo, scarred>>
    BY <1>3 DEF OS!S3Put
  <2>. HIDE DEF o
  <2>. QED
    BY <1>1, <2>1, <2>2, WholeCallKeeps
<1>4. CASE OS!MemoryDelete(c, k)
  <2>. DEFINE o == [object EXCEPT ![k] = "absent"]
  <2>1. o \in [Keys -> OS!Contents] /\ \A j \in Keys : o[j] = "torn" => object[j] = "torn"
    BY <1>1
  <2>2. /\ OS!Becomes(o) /\ place[c] = "idle" /\ OS!Idle(c) /\ UNCHANGED <<kind, todo, scarred>>
        /\ order' = OS!Without(order, k)
    BY <1>4 DEF OS!MemoryDelete
  <2>3. order' \in Seq(Keys)
    BY <2>2, OrderHolds
  <2>. HIDE DEF o
  <2>. QED
    BY <1>1, <2>1, <2>2, <2>3, WholeCallKeeps
<1>5. CASE OS!MemoryClear(c)
  <2>. DEFINE o == [j \in Keys |-> "absent"]
  <2>1. o \in [Keys -> OS!Contents] /\ \A j \in Keys : o[j] # "torn"
    BY <1>1
  <2>2. /\ OS!Becomes(o) /\ place[c] = "idle" /\ OS!Idle(c) /\ UNCHANGED <<kind, todo, scarred>>
        /\ order' = <<>>
    BY <1>5 DEF OS!MemoryClear
  <2>3. order' \in Seq(Keys)
    BY <2>2
  <2>. HIDE DEF o
  <2>. QED
    BY <1>1, <2>1, <2>2, <2>3, WholeCallKeeps
<1>6. CASE OS!DeleteRemoves(c)
  <2>. DEFINE o == [object EXCEPT ![key[c]] = "absent"]
  <2>1. o \in [Keys -> OS!Contents] /\ \A j \in Keys : o[j] = "torn" => object[j] = "torn"
    BY <1>1
  <2>2. /\ OS!Becomes(o) /\ place[c] = "removing" /\ OS!Idle(c)
        /\ UNCHANGED <<kind, order, todo, scarred>>
    BY <1>6 DEF OS!DeleteRemoves
  <2>. HIDE DEF o
  <2>. QED
    BY <1>1, <2>1, <2>2, WholeCallKeeps
<1>. QED
  BY <1>2, <1>3, <1>4, <1>5, <1>6

(* delete and clear look first.                                               *)
LEMMA LooksKeep ==
  ASSUME StorageInv, NEW c \in Callers, NEW k \in Keys, OS!DeleteLooks(c, k) \/ OS!LocalClear(c)
  PROVE  StorageInv'
<1>1. PICK p \in {"removing", "clearing"}, j \in Keys :
        place[c] = "idle" /\ place' = [place EXCEPT ![c] = p] /\ key' = [key EXCEPT ![c] = j]
  BY DEF OS!DeleteLooks, OS!LocalClear, OS!There
<1>2. UNCHANGED <<kind, object, order, scarred, listing>>
  BY DEF OS!DeleteLooks, OS!LocalClear
<1>3. todo' \in [Callers -> SUBSET Keys]
  BY DEF OS!DeleteLooks, OS!LocalClear, StorageInv, OS!TypeOK, OS!There
<1>4. OS!TypeOK' /\ CallsHaveKeys'
  BY <1>1, <1>2, <1>3 DEF StorageInv, OS!TypeOK, CallsHaveKeys
<1>5. \A i \in Keys : OS!Writers(i)' = OS!Writers(i)
  BY <1>1 DEF OS!Writers, StorageInv, OS!TypeOK
<1>6. OS!TornNeedsCause'
  BY <1>2, <1>5 DEF StorageInv, OS!TornNeedsCause
<1>7. PagesAscend' /\ CursorAgrees' /\ KeptIsAhead'
  BY <1>2 DEF StorageInv, PagesAscend, CursorAgrees, KeptIsAhead, OS!Ascending, OS!ToSet, OS!There
<1>. QED
  BY <1>4, <1>6, <1>7 DEF StorageInv

(* clear removes the next file it had listed.                                 *)
LEMMA ClearRemovesKeeps ==
  ASSUME StorageInv, NEW c \in Callers, OS!LocalClearRemoves(c)
  PROVE  StorageInv'
<1>. DEFINE o == [object EXCEPT ![key[c]] = "absent"]
            rest == todo[c] \ {key[c]}
<1>1. /\ object \in [Keys -> OS!Contents] /\ order \in Seq(Keys) /\ "absent" \in OS!Contents
      /\ todo \in [Callers -> SUBSET Keys] /\ key \in [Callers -> Keys \cup {Nothing}]
      /\ place \in [Callers -> {"idle", "writing", "removing", "clearing"}]
  BY DEF StorageInv, OS!TypeOK, OS!Contents
<1>2. o \in [Keys -> OS!Contents] /\ \A j \in Keys : o[j] = "torn" => object[j] = "torn"
  BY <1>1
<1>3. /\ OS!Becomes(o) /\ place[c] = "clearing" /\ UNCHANGED <<kind, order, scarred>>
      /\ todo' = [todo EXCEPT ![c] = rest]
  BY DEF OS!LocalClearRemoves
<1>4. todo' \in [Callers -> SUBSET Keys]
  BY <1>1, <1>3
<1>. HIDE DEF o
<1>5. CASE OS!Idle(c)
  BY <1>1, <1>2, <1>3, <1>4, <1>5, WholeCallKeeps
<1>6. CASE place' = place /\ \E k \in rest : key' = [key EXCEPT ![c] = k]
  <2>1. PICK k \in Keys : key' = [key EXCEPT ![c] = k]
    BY <1>1, <1>6
  <2>2. /\ object' \in [Keys -> OS!Contents] /\ object' = o
        /\ listing' \in OS!Listing /\ PagesAscend' /\ CursorAgrees' /\ KeptIsAhead'
    BY <1>2, <1>3, BecomesKeeps
  <2>3. OS!TypeOK' /\ CallsHaveKeys'
    BY <1>1, <1>3, <1>4, <1>6, <2>1, <2>2 DEF StorageInv, OS!TypeOK, CallsHaveKeys
  <2>4. \A j \in Keys : OS!Writers(j)' = OS!Writers(j)
    BY <1>1, <1>3, <1>6, <2>1 DEF OS!Writers
  <2>5. OS!TornNeedsCause'
    BY <1>2, <1>3, <2>2, <2>4 DEF StorageInv, OS!TornNeedsCause
  <2>. QED
    BY <2>2, <2>3, <2>5 DEF StorageInv
<1>. QED
  BY <1>5, <1>6 DEF OS!LocalClearRemoves, OS!Least

(* writeFile truncates: the file is torn, and somebody writes it.             *)
LEMMA LocalPutKeeps ==
  ASSUME StorageInv, NEW c \in Callers, NEW k \in Keys, OS!LocalPut(c, k)
  PROVE  StorageInv'
<1>. DEFINE o == [object EXCEPT ![k] = "torn"]
<1>1. /\ object \in [Keys -> OS!Contents] /\ "torn" \in OS!Contents
      /\ key \in [Callers -> Keys \cup {Nothing}] /\ scarred \subseteq Keys
      /\ place \in [Callers -> {"idle", "writing", "removing", "clearing"}]
  BY DEF StorageInv, OS!TypeOK, OS!Contents
<1>2. /\ place[c] = "idle" /\ place' = [place EXCEPT ![c] = "writing"]
      /\ key' = [key EXCEPT ![c] = k] /\ OS!Becomes(o)
      /\ scarred \ {k} \subseteq scarred' /\ scarred' \subseteq scarred \cup {k}
      /\ UNCHANGED <<kind, order, todo>>
  BY DEF OS!LocalPut
<1>3. o \in [Keys -> OS!Contents]
  BY <1>1
<1>4. /\ object' = o /\ object' \in [Keys -> OS!Contents]
      /\ listing' \in OS!Listing /\ PagesAscend' /\ CursorAgrees' /\ KeptIsAhead'
  BY <1>2, <1>3, BecomesKeeps
<1>5. OS!TypeOK' /\ CallsHaveKeys'
  BY <1>1, <1>2, <1>4 DEF StorageInv, OS!TypeOK, CallsHaveKeys
<1>6. c \in OS!Writers(k)'
  BY <1>1, <1>2 DEF OS!Writers
<1>7. \A j \in Keys \ {k} : OS!Writers(j)' = OS!Writers(j)
  BY <1>1, <1>2 DEF OS!Writers
<1>8. OS!TornNeedsCause'
  <2>. SUFFICES ASSUME NEW j \in Keys, object'[j] = "torn", OS!Writers(j)' = {} PROVE j \in scarred'
    BY DEF OS!TornNeedsCause
  <2>1. j # k
    BY <1>6
  <2>2. object[j] = "torn" /\ OS!Writers(j) = {}
    BY <1>1, <1>4, <1>7, <2>1
  <2>. QED
    BY <1>2, <2>1, <2>2 DEF StorageInv, OS!TornNeedsCause
<1>. QED
  BY <1>4, <1>5, <1>8 DEF StorageInv

(* The write ends: what it leaves torn was scarred before.                    *)
LEMMA WrittenKeeps ==
  ASSUME StorageInv, NEW c \in Callers, OS!LocalPutWritten(c)
  PROVE  StorageInv'
<1>1. PICK k \in Keys : k = key[c]
  BY DEF OS!LocalPutWritten, StorageInv, CallsHaveKeys
<1>2. PICK content \in {"absent", "whole"} \cup (IF k \in scarred THEN {object[k]} ELSE {}) :
        OS!Becomes([object EXCEPT ![k] = content])
  BY <1>1 DEF OS!LocalPutWritten
<1>. DEFINE o == [object EXCEPT ![k] = content]
<1>3. /\ place[c] = "writing" /\ OS!Idle(c) /\ UNCHANGED <<kind, order, todo>>
      /\ scarred' = IF object'[k] = "whole" /\ OS!Writers(k) = {c} THEN scarred \ {k} ELSE scarred
  BY <1>1 DEF OS!LocalPutWritten
<1>4. /\ object \in [Keys -> OS!Contents] /\ {"absent", "whole"} \subseteq OS!Contents
      /\ scarred \subseteq Keys
  BY DEF StorageInv, OS!TypeOK, OS!Contents
<1>5. o \in [Keys -> OS!Contents]
  BY <1>4
<1>6. /\ object' = o /\ object' \in [Keys -> OS!Contents]
      /\ listing' \in OS!Listing /\ PagesAscend' /\ CursorAgrees' /\ KeptIsAhead'
  BY <1>2, <1>5, BecomesKeeps
<1>7. /\ place' \in [Callers -> {"idle", "writing", "removing", "clearing"}]
      /\ key' \in [Callers -> Keys \cup {Nothing}] /\ CallsHaveKeys'
      /\ \A d \in Callers \ {c} : place'[d] = place[d] /\ key'[d] = key[d]
      /\ place'[c] = "idle"
  BY <1>3, IdleHolds
<1>8. OS!TypeOK'
  BY <1>3, <1>4, <1>6, <1>7 DEF StorageInv, OS!TypeOK
<1>9. \A j \in Keys \ {k} : OS!Writers(j)' = OS!Writers(j)
  BY <1>1, <1>3, <1>7 DEF OS!Writers
<1>10. OS!TornNeedsCause'
  <2>. SUFFICES ASSUME NEW j \in Keys, object'[j] = "torn", OS!Writers(j)' = {} PROVE j \in scarred'
    BY DEF OS!TornNeedsCause
  <2>1. CASE j = k
    BY <1>2, <1>3, <1>4, <1>6, <2>1
  <2>2. CASE j # k
    <3>1. object[j] = "torn" /\ OS!Writers(j) = {}
      BY <1>4, <1>6, <1>9, <2>2
    <3>. QED
      BY <1>3, <2>2, <3>1 DEF StorageInv, OS!TornNeedsCause
  <2>. QED
    BY <2>1, <2>2
<1>. QED
  BY <1>6, <1>7, <1>8, <1>10 DEF StorageInv

(* The write is rejected and leaves a scar.                                   *)
LEMMA RejectedKeeps ==
  ASSUME StorageInv, NEW c \in Callers, OS!LocalPutRejected(c)
  PROVE  StorageInv'
<1>1. PICK k \in Keys : k = key[c]
  BY DEF OS!LocalPutRejected, StorageInv, CallsHaveKeys
<1>2. PICK content \in {"absent", "torn", "whole"} : OS!Becomes([object EXCEPT ![k] = content])
  BY <1>1 DEF OS!LocalPutRejected
<1>. DEFINE o == [object EXCEPT ![k] = content]
<1>3. /\ place[c] = "writing" /\ OS!Idle(c) /\ UNCHANGED <<kind, order, todo>>
      /\ scarred' = scarred \cup {k}
  BY <1>1 DEF OS!LocalPutRejected
<1>4. object \in [Keys -> OS!Contents] /\ scarred' \subseteq Keys
  BY <1>3 DEF StorageInv, OS!TypeOK
<1>5. o \in [Keys -> OS!Contents]
  BY <1>4 DEF OS!Contents
<1>6. /\ object' = o /\ object' \in [Keys -> OS!Contents]
      /\ listing' \in OS!Listing /\ PagesAscend' /\ CursorAgrees' /\ KeptIsAhead'
  BY <1>2, <1>5, BecomesKeeps
<1>7. /\ place' \in [Callers -> {"idle", "writing", "removing", "clearing"}]
      /\ key' \in [Callers -> Keys \cup {Nothing}] /\ CallsHaveKeys'
      /\ \A d \in Callers \ {c} : place'[d] = place[d] /\ key'[d] = key[d]
      /\ place'[c] = "idle"
  BY <1>3, IdleHolds
<1>8. OS!TypeOK'
  BY <1>3, <1>4, <1>6, <1>7 DEF StorageInv, OS!TypeOK
<1>9. OS!TornNeedsCause'
  <2>. SUFFICES ASSUME NEW j \in Keys, j # k, object'[j] = "torn", OS!Writers(j)' = {}
                PROVE  j \in scarred
    BY <1>3 DEF OS!TornNeedsCause
  <2>1. OS!Writers(j)' = OS!Writers(j)
    BY <1>1, <1>7 DEF OS!Writers
  <2>. QED
    BY <1>4, <1>6, <2>1 DEF StorageInv, OS!TornNeedsCause
<1>. QED
  BY <1>6, <1>7, <1>8, <1>9 DEF StorageInv

(* The process dies: whoever wrote leaves a scar.                             *)
LEMMA CrashKeeps ==
  ASSUME StorageInv, OS!Crash
  PROVE  StorageInv'
<1>1. /\ place' = [c \in Callers |-> "idle"] /\ key' = [c \in Callers |-> Nothing]
      /\ todo' = [c \in Callers |-> {}] /\ listing' = OS!Fresh /\ UNCHANGED <<kind, object, order>>
      /\ scarred' = scarred \cup {key[c] : c \in {c \in Callers : place[c] = "writing"}}
  BY DEF OS!Crash
<1>2. /\ listing'.at = "begin" /\ listing'.cursor = Nothing /\ listing'.page = <<>>
      /\ listing'.seen = <<>> /\ listing'.kept = {} /\ listing'.met = {}
  BY <1>1 DEF OS!Fresh
<1>3. listing' \in OS!Listing
  <2>1. <<>> \in Seq(Keys)
    OBVIOUS
  <2>. QED
    BY <1>1, <2>1 DEF OS!Fresh, OS!Listing
<1>4. scarred' \subseteq Keys
  BY <1>1 DEF StorageInv, OS!TypeOK, CallsHaveKeys
<1>5. OS!TypeOK' /\ CallsHaveKeys'
  BY <1>1, <1>3, <1>4 DEF StorageInv, OS!TypeOK, CallsHaveKeys
<1>6. OS!TornNeedsCause'
  <2>. SUFFICES ASSUME NEW j \in Keys, object[j] = "torn" PROVE j \in scarred'
    BY <1>1 DEF OS!TornNeedsCause
  <2>. QED
    BY <1>1 DEF StorageInv, OS!TornNeedsCause, OS!Writers
<1>7. PagesAscend' /\ CursorAgrees' /\ KeptIsAhead'
  BY <1>2 DEF PagesAscend, CursorAgrees, KeptIsAhead, OS!Ascending, OS!ToSet
<1>. QED
  BY <1>5, <1>6, <1>7 DEF StorageInv

(* A page ascends, and whatever it leaves out comes after it.                 *)
LEMMA PagesHold ==
  ASSUME NEW keys \in SUBSET Keys, NEW page \in OS!Pages(keys)
  PROVE  /\ page \in Seq(Keys) /\ OS!ToSet(page) \subseteq keys /\ OS!Ascending(page)
         /\ \A i \in DOMAIN page : page[i] \in keys
         /\ \A k \in keys \ OS!ToSet(page) : \A i \in DOMAIN page : page[i] < k
<1>1. PICK n \in 0..Limit : page \in [1..n -> keys]
  BY DEF OS!Pages
<1>2. n \in Nat
  BY <1>1, StateAssumption DEF OS!StorageAssumption
<1>3. page \in Seq(Keys) /\ \A i \in DOMAIN page : page[i] \in keys
  BY <1>1, <1>2
<1>. QED
  BY <1>3 DEF OS!Pages, OS!ToSet

LEMMA NextCursorsHold ==
  ASSUME NEW keys \in SUBSET Keys, NEW next \in OS!NextCursors(keys)
  PROVE  \/ keys = {} /\ next = Nothing
         \/ next \in keys /\ next # Nothing /\ \A k \in keys : next <= k
BY StateAssumption DEF OS!NextCursors, OS!Least, OS!StorageAssumption

(* The next page goes up to its cursor, whether it is returned at once or     *)
(* still to be read.                                                         *)
LEMMA PageKeeps ==
  ASSUME StorageInv, listing.at \in {"begin", "between"},
         NEW page \in OS!Pages(OS!Available),
         NEW next \in OS!NextCursors(OS!Available \ OS!ToSet(page)),
         \/ listing' = [OS!Opened EXCEPT !.seen = @ \o page, !.cursor = next,
                                         !.at = IF next = Nothing THEN "end" ELSE "between"]
         \/ listing' = [OS!Opened EXCEPT !.page = page, !.cursor = next, !.at = "reading"],
         UNCHANGED <<kind, object, order, place, key, todo, scarred>>
  PROVE  StorageInv'
<1>. DEFINE keys == OS!Available
            there == OS!There(object)
            open == OS!Opened
<1>1. /\ listing \in OS!Listing /\ there \subseteq Keys /\ Keys \subseteq Nat /\ Prefixed \subseteq Keys
      /\ Nothing \notin Keys
  BY StateAssumption DEF StorageInv, OS!TypeOK, OS!There, OS!StorageAssumption
<1>2. keys = {k \in there \cap Prefixed : listing.cursor # Nothing => k >= listing.cursor}
  BY DEF OS!Available, OS!FromCursor
<1>3. /\ page \in Seq(Keys) /\ OS!ToSet(page) \subseteq keys /\ OS!Ascending(page)
      /\ \A i \in DOMAIN page : page[i] \in keys
      /\ \A k \in keys \ OS!ToSet(page) : \A i \in DOMAIN page : page[i] < k
  BY <1>1, <1>2, PagesHold
<1>4. \/ keys \ OS!ToSet(page) = {} /\ next = Nothing
      \/ /\ next \in keys \ OS!ToSet(page) /\ next # Nothing
         /\ \A k \in keys \ OS!ToSet(page) : next <= k
  BY <1>1, <1>2, NextCursorsHold
<1>5. /\ open \in OS!Listing /\ open.at = listing.at /\ open.cursor = listing.cursor
      /\ open.page = listing.page /\ open.seen = listing.seen
      /\ open.kept = IF listing.at = "begin" THEN there \cap Prefixed ELSE listing.kept
      /\ open.met = IF listing.at = "begin" THEN there ELSE listing.met
  BY <1>1 DEF OS!Opened, OS!Listing
<1>. HIDE DEF keys, there, open
<1>6. /\ OS!Ascending(open.seen) /\ open.seen \in Seq(Keys) /\ open.page = <<>>
      /\ OS!ToSet(open.seen) \subseteq open.met \cap Prefixed
      /\ there \subseteq open.met
      /\ open.kept \subseteq there \cap Prefixed
      /\ \A k \in open.kept : k \in OS!ToSet(open.seen) \/ k \in keys
      /\ \A i \in DOMAIN open.seen : open.seen[i] \in Keys
      /\ \A i \in DOMAIN open.seen : \A k \in keys : open.seen[i] < k
  <2>1. open.seen \in Seq(Keys)
    BY <1>5 DEF OS!Listing
  <2>2. \A i \in DOMAIN open.seen : open.seen[i] \in Keys
    BY <2>1
  <2>3. CASE listing.at = "begin"
    <3>1. open.seen = <<>> /\ open.page = <<>> /\ listing.cursor = Nothing
      BY <1>5, <2>3 DEF StorageInv, CursorAgrees
    <3>2. OS!ToSet(open.seen) = {} /\ OS!Ascending(open.seen) /\ DOMAIN open.seen = {}
      BY <3>1 DEF OS!ToSet, OS!Ascending
    <3>. QED
      BY <1>2, <1>5, <2>1, <2>3, <3>1, <3>2
  <2>4. CASE listing.at = "between"
    <3>1. listing.page = <<>> /\ listing.cursor # Nothing /\ there \subseteq listing.met
      BY <2>4 DEF StorageInv, CursorAgrees, there
    <3>2. OS!ToSet(listing.page) = {}
      BY <3>1 DEF OS!ToSet
    <3>3. listing.kept \subseteq there \cap Prefixed
      BY DEF StorageInv, KeptIsAhead, there
    <3>4. \A k \in listing.kept : k \in OS!ToSet(listing.seen) \/ listing.cursor <= k
      BY <3>2 DEF StorageInv, KeptIsAhead
    <3>5. listing.cursor \in Keys
      BY <1>1, <3>1 DEF OS!Listing
    <3>6. \A i \in DOMAIN listing.seen : listing.seen[i] < listing.cursor
      BY <3>1 DEF StorageInv, PagesAscend
    <3>7. OS!ToSet(listing.seen) \subseteq listing.met \cap Prefixed /\ OS!Ascending(listing.seen)
      BY DEF StorageInv, PagesAscend
    <3>8. \A k \in listing.kept : k \in OS!ToSet(listing.seen) \/ k \in keys
      BY <1>1, <1>2, <3>3, <3>4, <3>5
    <3>9. \A i \in DOMAIN listing.seen : \A k \in keys : listing.seen[i] < k
      BY <1>1, <1>2, <1>5, <2>2, <2>4, <3>1, <3>5, <3>6
    <3>. QED
      BY <1>5, <2>1, <2>2, <2>4, <3>1, <3>3, <3>7, <3>8, <3>9
  <2>. QED
    BY <2>1, <2>2, <2>3, <2>4
<1>7. /\ \A i \in DOMAIN open.seen : next # Nothing => open.seen[i] < next
      /\ \A i \in DOMAIN page : next # Nothing => page[i] < next
      /\ \A k \in keys : k \in OS!ToSet(page) \/ (next # Nothing /\ next <= k)
      /\ \A i \in DOMAIN open.seen, j \in DOMAIN page : open.seen[i] < page[j]
      /\ OS!ToSet(page) \subseteq open.met \cap Prefixed
      /\ next \in Keys \cup {Nothing}
  BY <1>1, <1>2, <1>3, <1>4, <1>6
<1>8. CASE listing' = [open EXCEPT !.page = page, !.cursor = next, !.at = "reading"]
  <2>1. /\ listing'.at = "reading" /\ listing'.cursor = next /\ listing'.page = page
        /\ listing'.seen = open.seen /\ listing'.kept = open.kept /\ listing'.met = open.met
        /\ listing' \in OS!Listing
    BY <1>3, <1>5, <1>7, <1>8 DEF OS!Listing
  <2>2. PagesAscend'
    BY <1>3, <1>6, <1>7, <2>1 DEF PagesAscend, OS!Ascending, OS!ToSet
  <2>3. CursorAgrees' /\ KeptIsAhead'
    BY <1>6, <1>7, <2>1 DEF CursorAgrees, KeptIsAhead, there, OS!There, OS!ToSet
  <2>. QED
    BY <2>1, <2>2, <2>3 DEF StorageInv, OS!TypeOK, CallsHaveKeys, OS!TornNeedsCause, OS!Writers
<1>9. CASE listing' = [open EXCEPT !.seen = @ \o page, !.cursor = next,
                                   !.at = IF next = Nothing THEN "end" ELSE "between"]
  <2>. DEFINE s == open.seen \o page
  <2>1. /\ s \in Seq(Keys) /\ Len(s) = Len(open.seen) + Len(page)
        /\ \A i \in 1..Len(open.seen) + Len(page) :
             s[i] = IF i <= Len(open.seen) THEN open.seen[i] ELSE page[i - Len(open.seen)]
    BY <1>3, <1>6, ConcatProperties
  <2>2. /\ listing'.at = (IF next = Nothing THEN "end" ELSE "between") /\ listing'.cursor = next
        /\ listing'.page = <<>> /\ listing'.seen = s /\ listing'.kept = open.kept
        /\ listing'.met = open.met /\ listing' \in OS!Listing
    BY <1>5, <1>6, <1>7, <1>9, <2>1 DEF OS!Listing
  <2>. HIDE DEF s
  <2>3. /\ DOMAIN s = 1..Len(open.seen) + Len(page) /\ Len(open.seen) \in Nat /\ Len(page) \in Nat
        /\ DOMAIN open.seen = 1..Len(open.seen) /\ DOMAIN page = 1..Len(page)
    BY <1>3, <1>6, <2>1
  <2>4. \A i \in DOMAIN s :
          \/ i \in DOMAIN open.seen /\ s[i] = open.seen[i]
          \/ i - Len(open.seen) \in DOMAIN page /\ s[i] = page[i - Len(open.seen)] /\ i > Len(open.seen)
    BY <2>1, <2>3
  <2>5. /\ \A i \in DOMAIN open.seen : i \in DOMAIN s /\ s[i] = open.seen[i]
        /\ \A i \in DOMAIN page : i + Len(open.seen) \in DOMAIN s /\ s[i + Len(open.seen)] = page[i]
    <3>1. \A i \in DOMAIN open.seen : i \in DOMAIN s /\ s[i] = open.seen[i]
      BY <2>1, <2>3
    <3>2. ASSUME NEW i \in DOMAIN page
          PROVE  i + Len(open.seen) \in DOMAIN s /\ s[i + Len(open.seen)] = page[i]
      <4>. DEFINE m == i + Len(open.seen)
      <4>1. m \in DOMAIN s /\ ~(m <= Len(open.seen)) /\ m - Len(open.seen) = i
        BY <2>3
      <4>. HIDE DEF m
      <4>2. s[m] = page[i]
        BY <2>1, <2>3, <4>1
      <4>. QED
        BY <4>1, <4>2 DEF m
    <3>. QED
      BY <3>1, <3>2
  <2>6. OS!ToSet(s) = OS!ToSet(open.seen) \cup OS!ToSet(page)
    BY <2>4, <2>5 DEF OS!ToSet
  <2>7. OS!Ascending(s)
    <3>. SUFFICES ASSUME NEW i \in DOMAIN s, NEW j \in DOMAIN s, i < j PROVE s[i] < s[j]
      BY DEF OS!Ascending
    <3>1. i \in Nat /\ j \in Nat
      BY <2>3
    <3>2. CASE i \in DOMAIN open.seen /\ j \in DOMAIN open.seen
      BY <1>6, <2>5, <3>2 DEF OS!Ascending
    <3>3. CASE i \in DOMAIN open.seen /\ j \notin DOMAIN open.seen
      BY <1>7, <2>4, <3>3
    <3>4. CASE i \notin DOMAIN open.seen
      <4>1. j \notin DOMAIN open.seen
        BY <2>3, <3>1, <3>4
      <4>2. /\ i - Len(open.seen) \in DOMAIN page /\ s[i] = page[i - Len(open.seen)]
            /\ j - Len(open.seen) \in DOMAIN page /\ s[j] = page[j - Len(open.seen)]
            /\ i - Len(open.seen) < j - Len(open.seen)
        BY <2>3, <2>4, <3>1, <3>4, <4>1
      <4>. QED
        BY <1>3, <4>2 DEF OS!Ascending
    <3>. QED
      BY <3>2, <3>3, <3>4
  <2>8. next # Nothing => \A i \in DOMAIN s : s[i] < next
    BY <1>7, <2>4
  <2>9. PagesAscend'
    BY <1>6, <1>7, <2>2, <2>6, <2>7, <2>8 DEF PagesAscend, OS!Ascending, OS!ToSet
  <2>10. CursorAgrees'
    BY <1>6, <2>2 DEF CursorAgrees, there, OS!There
  <2>11. OS!ToSet(listing.seen)' = OS!ToSet(s)
    BY <2>2 DEF OS!ToSet
  <2>12. KeptIsAhead'
    BY <1>6, <1>7, <2>2, <2>6, <2>11 DEF KeptIsAhead, there, OS!There
  <2>. QED
    BY <2>2, <2>9, <2>10, <2>12 DEF StorageInv, OS!TypeOK, CallsHaveKeys, OS!TornNeedsCause, OS!Writers
<1>. QED
  BY <1>8, <1>9 DEF open

(* The local store reads the next record of the page, or finds it gone.       *)
LEMMA ReadsKeep ==
  ASSUME StorageInv, OS!LocalListReads
  PROVE  StorageInv'
<1>. DEFINE p == listing.page
            k == Head(p)
            s == IF object[k] = "whole" THEN Append(listing.seen, k) ELSE listing.seen
<1>1. /\ listing.at = "reading" /\ p # <<>> /\ object[k] \in {"whole", "absent"}
      /\ listing' = [listing EXCEPT !.page = Tail(p), !.seen = s]
      /\ UNCHANGED <<kind, object, order, place, key, todo, scarred>>
  <2>1. object \in [Keys -> OS!Contents] /\ p \in Seq(Keys) /\ listing.page # <<>>
    BY DEF StorageInv, OS!TypeOK, OS!Listing, OS!LocalListReads
  <2>2. k \in Keys
    BY <2>1
  <2>. QED
    BY <2>1, <2>2 DEF OS!LocalListReads, OS!Contents
<1>2. /\ listing \in OS!Listing /\ Keys \subseteq Nat /\ Nothing \notin Keys
      /\ p \in Seq(Keys) /\ listing.seen \in Seq(Keys)
  BY StateAssumption DEF StorageInv, OS!TypeOK, OS!Listing, OS!StorageAssumption
<1>3. /\ k \in Keys /\ k = p[1] /\ 1 \in DOMAIN p /\ Tail(p) \in Seq(Keys)
      /\ Len(Tail(p)) = Len(p) - 1 /\ DOMAIN p = 1..Len(p) /\ Len(p) \in Nat
      /\ \A i \in DOMAIN Tail(p) : Tail(p)[i] = p[i + 1] /\ i + 1 \in DOMAIN p /\ i \in Nat /\ 1 < i + 1
  BY <1>1, <1>2
<1>4. /\ s \in Seq(Keys)
      /\ \A i \in DOMAIN s : \/ i \in DOMAIN listing.seen /\ s[i] = listing.seen[i]
                             \/ s[i] = k /\ i = Len(listing.seen) + 1
      /\ DOMAIN listing.seen = 1..Len(listing.seen) /\ Len(listing.seen) \in Nat
      /\ \A i \in DOMAIN listing.seen : i \in DOMAIN s /\ s[i] = listing.seen[i]
      /\ object[k] = "whole" => Len(listing.seen) + 1 \in DOMAIN s /\ s[Len(listing.seen) + 1] = k
  <2>1. CASE object[k] = "whole"
    <3>1. s = Append(listing.seen, k)
      BY <2>1
    <3>. HIDE DEF s, k
    <3>2. /\ s \in Seq(Keys) /\ Len(s) = Len(listing.seen) + 1
          /\ \A i \in 1..Len(listing.seen) : s[i] = listing.seen[i]
          /\ s[Len(listing.seen) + 1] = k
      BY <1>2, <1>3, <3>1, AppendProperties
    <3>. DEFINE n == Len(listing.seen)
    <3>3. n \in Nat /\ DOMAIN s = 1..n + 1 /\ DOMAIN listing.seen = 1..n
      BY <1>2, <3>2
    <3>. HIDE DEF n, p
    <3>4. \A i \in 1..n + 1 : i \in 1..n \/ i = n + 1
      BY <3>3
    <3>5. \A i \in 1..n : i \in 1..n + 1 /\ s[i] = listing.seen[i]
      BY <3>2, <3>3 DEF n
    <3>6. n + 1 \in 1..n + 1 /\ s[n + 1] = k
      BY <3>2, <3>3 DEF n
    <3>. QED
      BY <3>2, <3>3, <3>4, <3>5, <3>6 DEF n
  <2>2. CASE object[k] # "whole"
    <3>1. s = listing.seen
      BY <2>2
    <3>. HIDE DEF s, k, p
    <3>. QED
      BY <1>2, <2>2, <3>1
  <2>. QED
    BY <2>1, <2>2
<1>5. object[k] # "whole" => k \notin OS!There(object)
  BY <1>1 DEF OS!There
<1>6. /\ listing'.at = "reading" /\ listing'.cursor = listing.cursor /\ listing'.page = Tail(p)
      /\ listing'.seen = s /\ listing'.kept = listing.kept /\ listing'.met = listing.met
      /\ listing' \in OS!Listing
  BY <1>1, <1>2, <1>3, <1>4 DEF OS!Listing
<1>7. /\ OS!Ascending(listing.seen) /\ OS!Ascending(p)
      /\ \A i \in DOMAIN listing.seen, j \in DOMAIN p : listing.seen[i] < p[j]
      /\ OS!ToSet(listing.seen) \cup OS!ToSet(p) \subseteq listing.met \cap Prefixed
      /\ listing.cursor # Nothing =>
           /\ \A i \in DOMAIN listing.seen : listing.seen[i] < listing.cursor
           /\ \A i \in DOMAIN p : p[i] < listing.cursor
  BY DEF StorageInv, PagesAscend
<1>8. /\ listing.kept \subseteq OS!There(object) \cap Prefixed
      /\ \A j \in listing.kept : \/ j \in OS!ToSet(listing.seen) \cup OS!ToSet(p)
                                 \/ listing.cursor # Nothing /\ listing.cursor <= j
  BY DEF StorageInv, KeptIsAhead
<1>. HIDE DEF s, k, p
<1>9. PagesAscend'
  <2>1. OS!Ascending(s)
    <3>. SUFFICES ASSUME NEW i \in DOMAIN s, NEW j \in DOMAIN s, i < j PROVE s[i] < s[j]
      BY DEF OS!Ascending
    <3>. QED
      BY <1>3, <1>4, <1>7 DEF OS!Ascending
  <2>2. OS!Ascending(Tail(p))
    <3>. SUFFICES ASSUME NEW i \in DOMAIN Tail(p), NEW j \in DOMAIN Tail(p), i < j
                  PROVE  Tail(p)[i] < Tail(p)[j]
      BY DEF OS!Ascending
    <3>1. i + 1 < j + 1
      BY <1>3
    <3>. QED
      BY <1>3, <1>7, <3>1 DEF OS!Ascending
  <2>3. \A i \in DOMAIN s, j \in DOMAIN Tail(p) : s[i] < Tail(p)[j]
    <3>. SUFFICES ASSUME NEW i \in DOMAIN s, NEW j \in DOMAIN Tail(p) PROVE s[i] < Tail(p)[j]
      OBVIOUS
    <3>1. Tail(p)[j] = p[j + 1] /\ j + 1 \in DOMAIN p /\ 1 < j + 1
      BY <1>3
    <3>2. k < p[j + 1]
      BY <1>3, <1>7, <3>1 DEF OS!Ascending
    <3>. QED
      BY <1>4, <1>7, <3>1, <3>2
  <2>4. OS!ToSet(s) \subseteq OS!ToSet(listing.seen) \cup OS!ToSet(p)
    BY <1>3, <1>4 DEF OS!ToSet
  <2>5. OS!ToSet(Tail(p)) \subseteq OS!ToSet(p)
    BY <1>3 DEF OS!ToSet
  <2>6. listing.cursor # Nothing =>
          /\ \A i \in DOMAIN s : s[i] < listing.cursor
          /\ \A i \in DOMAIN Tail(p) : Tail(p)[i] < listing.cursor
    BY <1>3, <1>4, <1>7
  <2>7. /\ OS!Ascending(listing.seen)' = OS!Ascending(s) /\ OS!ToSet(listing.seen)' = OS!ToSet(s)
        /\ OS!Ascending(listing.page)' = OS!Ascending(Tail(p))
        /\ OS!ToSet(listing.page)' = OS!ToSet(Tail(p))
    BY <1>6 DEF OS!Ascending, OS!ToSet
  <2>. QED
    BY <1>6, <1>7, <2>1, <2>2, <2>3, <2>4, <2>5, <2>6, <2>7 DEF PagesAscend
<1>10. CursorAgrees'
  BY <1>1, <1>6 DEF StorageInv, CursorAgrees, OS!There
<1>11. KeptIsAhead'
  <2>1. \A j \in OS!ToSet(p) : j = k \/ j \in OS!ToSet(Tail(p))
    <3>. SUFFICES ASSUME NEW i \in DOMAIN p PROVE p[i] = k \/ p[i] \in OS!ToSet(Tail(p))
      BY DEF OS!ToSet
    <3>1. CASE i = 1
      BY <1>3, <3>1
    <3>2. CASE i # 1
      <4>1. i - 1 \in 1..Len(p) - 1 /\ i - 1 + 1 = i
        BY <1>3, <3>2
      <4>2. DOMAIN Tail(p) = 1..Len(p) - 1
        BY <1>3
      <4>3. i - 1 \in DOMAIN Tail(p) /\ Tail(p)[i - 1] = p[i]
        BY <1>3, <4>1, <4>2
      <4>. QED
        BY <4>3 DEF OS!ToSet
    <3>. QED
      BY <3>1, <3>2
  <2>2. OS!ToSet(listing.seen) \subseteq OS!ToSet(s) /\ (object[k] = "whole" => k \in OS!ToSet(s))
    BY <1>4 DEF OS!ToSet
  <2>3. \A j \in listing.kept : \/ j \in OS!ToSet(s) \cup OS!ToSet(Tail(p))
                                \/ listing.cursor # Nothing /\ listing.cursor <= j
    BY <1>5, <1>8, <2>1, <2>2
  <2>4. OS!ToSet(listing.seen)' = OS!ToSet(s) /\ OS!ToSet(listing.page)' = OS!ToSet(Tail(p))
    BY <1>6 DEF OS!ToSet
  <2>. QED
    BY <1>1, <1>6, <1>8, <2>3, <2>4 DEF KeptIsAhead, OS!There
<1>. QED
  BY <1>1, <1>6, <1>9, <1>10, <1>11
     DEF StorageInv, OS!TypeOK, CallsHaveKeys, OS!TornNeedsCause, OS!Writers

(* The page is done, or the listing starts over.                              *)
LEMMA PageEndKeeps ==
  ASSUME StorageInv, OS!LocalListPageDone \/ OS!ListAgain
  PROVE  StorageInv'
<1>1. UNCHANGED <<kind, object, order, place, key, todo, scarred>> /\ listing \in OS!Listing
  BY DEF OS!LocalListPageDone, OS!ListAgain, StorageInv, OS!TypeOK
<1>2. CASE OS!LocalListPageDone
  <2>1. /\ listing' = [listing EXCEPT !.at = IF listing.cursor = Nothing THEN "end" ELSE "between"]
        /\ listing.page = <<>> /\ listing.at = "reading"
    BY <1>2 DEF OS!LocalListPageDone
  <2>2. /\ listing'.at = (IF listing.cursor = Nothing THEN "end" ELSE "between")
        /\ listing'.cursor = listing.cursor /\ listing'.page = <<>> /\ listing'.seen = listing.seen
        /\ listing'.kept = listing.kept /\ listing'.met = listing.met /\ listing' \in OS!Listing
    BY <1>1, <2>1 DEF OS!Listing
  <2>3. PagesAscend'
    BY <2>1, <2>2 DEF StorageInv, PagesAscend, OS!Ascending, OS!ToSet
  <2>4. CursorAgrees' /\ KeptIsAhead'
    BY <1>1, <2>1, <2>2 DEF StorageInv, CursorAgrees, KeptIsAhead, OS!ToSet, OS!There
  <2>. QED
    BY <1>1, <2>2, <2>3, <2>4
       DEF StorageInv, OS!TypeOK, CallsHaveKeys, OS!TornNeedsCause, OS!Writers
<1>3. CASE OS!ListAgain
  <2>1. listing' = OS!Fresh
    BY <1>3 DEF OS!ListAgain
  <2>2. /\ listing'.at = "begin" /\ listing'.cursor = Nothing /\ listing'.page = <<>>
        /\ listing'.seen = <<>> /\ listing'.kept = {} /\ listing'.met = {}
    BY <2>1 DEF OS!Fresh
  <2>3. listing' \in OS!Listing
    <3>1. <<>> \in Seq(Keys)
      OBVIOUS
    <3>. QED
      BY <2>1, <3>1 DEF OS!Fresh, OS!Listing
  <2>4. PagesAscend' /\ CursorAgrees' /\ KeptIsAhead'
    BY <2>2 DEF PagesAscend, CursorAgrees, KeptIsAhead, OS!Ascending, OS!ToSet
  <2>. QED
    BY <1>1, <2>3, <2>4 DEF StorageInv, OS!TypeOK, CallsHaveKeys, OS!TornNeedsCause, OS!Writers
<1>. QED
  BY <1>2, <1>3

LEMMA NextStorage == StorageInv /\ [OS!Next]_OS!vars => StorageInv'
<1>. SUFFICES ASSUME StorageInv, [OS!Next]_OS!vars PROVE StorageInv'
  OBVIOUS
<1>1. ASSUME NEW c \in Callers, NEW k \in Keys,
             OS!MemoryPut(c, k) \/ OS!S3Put(c, k) \/ OS!MemoryDelete(c, k)
      PROVE  StorageInv'
  BY <1>1, WholeCallsKeep
<1>2. ASSUME NEW c \in Callers, NEW k \in Keys, OS!LocalPut(c, k) PROVE StorageInv'
  BY <1>2, LocalPutKeeps
<1>3. ASSUME NEW c \in Callers, NEW k \in Keys, OS!DeleteLooks(c, k) PROVE StorageInv'
  BY <1>3, LooksKeep
<1>4. ASSUME NEW c \in Callers, OS!DeleteRemoves(c) \/ OS!MemoryClear(c) \/ OS!LocalClear(c)
      PROVE  StorageInv'
  <2>1. CASE \E k : k \in Keys
    <3>1. PICK k \in Keys : TRUE
      BY <2>1
    <3>. QED
      BY <1>4, <3>1, WholeCallsKeep, LooksKeep
  <2>2. CASE Keys = {}
    <3>1. OS!MemoryClear(c)
      BY <1>4, <2>2 DEF OS!DeleteRemoves, OS!LocalClear, OS!There, StorageInv, CallsHaveKeys
    <3>. DEFINE o == [j \in Keys |-> "absent"]
    <3>2. o \in [Keys -> OS!Contents] /\ \A j \in Keys : o[j] # "torn"
      BY DEF OS!Contents
    <3>3. /\ OS!Becomes(o) /\ place[c] = "idle" /\ OS!Idle(c) /\ UNCHANGED <<kind, todo, scarred>>
          /\ order' = <<>>
      BY <3>1 DEF OS!MemoryClear
    <3>4. order' \in Seq(Keys) /\ todo' \in [Callers -> SUBSET Keys]
      BY <3>3 DEF StorageInv, OS!TypeOK
    <3>. HIDE DEF o
    <3>. QED
      BY <3>2, <3>3, <3>4, WholeCallKeeps
  <2>. QED
    BY <2>1, <2>2
<1>5. ASSUME NEW c \in Callers, OS!LocalPutWritten(c) PROVE StorageInv'
  BY <1>5, WrittenKeeps
<1>6. ASSUME NEW c \in Callers, OS!LocalClearRemoves(c) PROVE StorageInv'
  BY <1>6, ClearRemovesKeeps
<1>7. CASE OS!ListPage \/ OS!LocalListPage
  BY <1>7, PageKeeps DEF OS!ListPage, OS!LocalListPage
<1>8. CASE UNCHANGED OS!vars
  BY <1>8 DEF OS!vars, StorageInv, OS!TypeOK, CallsHaveKeys, OS!TornNeedsCause, OS!Writers,
     PagesAscend, CursorAgrees, KeptIsAhead, OS!Ascending, OS!ToSet, OS!There
<1>. QED
  BY <1>1, <1>2, <1>3, <1>4, <1>5, <1>6, <1>7, <1>8, RejectedKeeps, CrashKeeps, ReadsKeep,
     PageEndKeeps DEF OS!Next

LEMMA StorageInvariant == OS!Spec => []StorageInv
BY InitStorage, NextStorage, PTL DEF OS!Spec

-----------------------------------------------------------------------------
(* The job listing.                                                           *)
LEMMA InitListing == JL!Init => ListInv
<1>. SUFFICES ASSUME JL!Init PROVE ListInv
  OBVIOUS
<1>1. store \in JobStores /\ enqueued = <<>> /\ at = "begin" /\ cursor = Nothing /\ seen = <<>> /\ kept = {}
  BY DEF JL!Init
<1>2. enqueued \in Seq(JobIds) /\ seen \in Seq(JobIds)
  BY <1>1
<1>. QED
  BY <1>1, <1>2 DEF ListInv, JL!TypeOK, SeenAscends, KeptIsAfter

(* A job more changes nothing of the listing, a job less only what was there  *)
(* all along.                                                                *)
LEMMA JobsComeAndGo ==
  ASSUME ListInv,
         \/ \E i \in JobIds : JL!Enqueue(i)
         \/ \E i \in DOMAIN enqueued : JL!Delete(i)
  PROVE  ListInv'
<1>1. UNCHANGED <<store, at, cursor, seen>> /\ enqueued \in Seq(JobIds) /\ kept \subseteq JobIds
  BY DEF JL!Enqueue, JL!Delete, ListInv, JL!TypeOK
<1>2. /\ enqueued' \in Seq(JobIds) /\ kept' \subseteq kept
      /\ kept \subseteq JL!ToSet(enqueued) => kept' \subseteq JL!ToSet(enqueued')
  <2>1. CASE \E i \in JobIds : JL!Enqueue(i)
    <3>1. PICK i \in JobIds : enqueued' = Append(enqueued, i) /\ kept' = kept
      BY <2>1 DEF JL!Enqueue
    <3>2. /\ enqueued' \in Seq(JobIds) /\ Len(enqueued') = Len(enqueued) + 1
          /\ \A k \in 1..Len(enqueued) : enqueued'[k] = enqueued[k]
      BY <1>1, <3>1, AppendProperties
    <3>3. \A k \in DOMAIN enqueued : k \in DOMAIN enqueued' /\ enqueued'[k] = enqueued[k]
      BY <1>1, <3>2
    <3>. QED
      BY <3>1, <3>2, <3>3 DEF JL!ToSet
  <2>2. CASE \E i \in DOMAIN enqueued : JL!Delete(i)
    <3>1. PICK i \in DOMAIN enqueued :
            /\ enqueued' = SubSeq(enqueued, 1, i - 1) \o SubSeq(enqueued, i + 1, Len(enqueued))
            /\ kept' = kept \ {enqueued[i]}
      BY <2>2 DEF JL!Delete, JL!RemoveAt
    <3>2. enqueued' \in Seq(JobIds) /\ IsCut(enqueued', enqueued, i)
      BY <1>1, <3>1, CutOut
    <3>3. \A j \in DOMAIN enqueued : j # i => \E k \in DOMAIN enqueued' : enqueued'[k] = enqueued[j]
      BY <3>2 DEF IsCut
    <3>4. ASSUME kept \subseteq JL!ToSet(enqueued), NEW id \in kept'
          PROVE  id \in JL!ToSet(enqueued')
      <4>1. PICK j \in DOMAIN enqueued : id = enqueued[j]
        BY <3>1, <3>4 DEF JL!ToSet
      <4>2. j # i
        BY <3>1, <3>4, <4>1
      <4>3. PICK k \in DOMAIN enqueued' : enqueued'[k] = id
        BY <3>3, <4>1, <4>2
      <4>. QED
        BY <4>3 DEF JL!ToSet
    <3>. QED
      BY <3>1, <3>2, <3>4
  <2>. QED
    BY <2>1, <2>2
<1>3. JL!TypeOK'
  BY <1>1, <1>2 DEF ListInv, JL!TypeOK
<1>4. ASSUME store = "postgres" PROVE SeenAscends' /\ KeptIsAfter'
  BY <1>1, <1>2, <1>4 DEF ListInv, SeenAscends, KeptIsAfter, JL!ToSet
<1>. QED
  BY <1>1, <1>3, <1>4 DEF ListInv

(* A page of the memory store holds jobs, and names one.                      *)
LEMMA MemoryPageKeeps ==
  ASSUME ListInv, JL!MemoryList
  PROVE  ListInv'
<1>. DEFINE c == CHOOSE i \in DOMAIN enqueued : enqueued[i] = cursor
            jobs == JL!AfterCursor(enqueued)
<1>1. store = "memory" /\ enqueued \in Seq(JobIds) /\ seen \in Seq(JobIds) /\ kept \subseteq JobIds
  BY DEF JL!MemoryList, ListInv, JL!TypeOK
<1>2. jobs \in Seq(JobIds)
  <2>1. CASE cursor \in JL!ToSet(enqueued)
    <3>1. c \in DOMAIN enqueued
      BY <2>1 DEF JL!ToSet
    <3>2. jobs = SubSeq(enqueued, c + 1, Len(enqueued))
      BY <2>1 DEF JL!AfterCursor
    <3>. HIDE DEF c
    <3>3. c + 1 \in 1..Len(enqueued) + 1 /\ Len(enqueued) \in Nat
      BY <1>1, <3>1
    <3>. QED
      BY <1>1, <3>2, <3>3, SubSeqProperties
  <2>2. CASE cursor \notin JL!ToSet(enqueued)
    BY <1>1, <2>2 DEF JL!AfterCursor
  <2>. QED
    BY <2>1, <2>2
<1>3. PICK page \in Seq(JobIds), n \in JobIds \cup {Nothing} : JL!Turn(page, n)
  <2>1. CASE Len(jobs) <= PageSize
    BY <1>2, <2>1 DEF JL!MemoryList
  <2>2. CASE ~(Len(jobs) <= PageSize)
    <3>1. JL!Turn(SubSeq(jobs, 1, PageSize), jobs[PageSize + 1])
      BY <2>2 DEF JL!MemoryList
    <3>. HIDE DEF jobs
    <3>2. PageSize \in Nat /\ PageSize + 1 \in 1..Len(jobs) /\ Len(jobs) \in Nat
      BY <1>2, <2>2, StateAssumption DEF JL!ListingAssumption
    <3>3. SubSeq(jobs, 1, PageSize) \in Seq(JobIds) /\ jobs[PageSize + 1] \in JobIds
      BY <1>2, <3>2, SubSeqProperties
    <3>. QED
      BY <3>1, <3>3
  <2>. QED
    BY <2>1, <2>2
<1>4. /\ seen' = seen \o page /\ cursor' = n /\ at' \in {"end", "between"}
      /\ kept' \in {JL!ToSet(enqueued), kept} /\ UNCHANGED <<store, enqueued>>
  BY <1>3 DEF JL!Turn
<1>5. seen' \in Seq(JobIds) /\ kept' \subseteq JobIds
  BY <1>1, <1>3, <1>4 DEF JL!ToSet
<1>6. JL!TypeOK'
  BY <1>3, <1>4, <1>5 DEF ListInv, JL!TypeOK
<1>. QED
  BY <1>1, <1>4, <1>6 DEF ListInv

(* A page of the PostgreSQL store goes up to its last job, which its cursor   *)
(* names if there is one that comes after it.                                *)
LEMMA SqlPageHolds ==
  ASSUME NEW ids \in SUBSET JobIds, NEW page \in JL!ListSql(ids)
  PROVE  /\ page \in Seq(JobIds) /\ JL!ToSet(page) \subseteq ids
         /\ \A i \in DOMAIN page : page[i] \in ids
         /\ \A i, j \in DOMAIN page : i < j => page[i] < page[j]
         /\ ids # JL!ToSet(page) =>
              /\ Last(page) \in ids
              /\ \A i \in DOMAIN page : page[i] <= Last(page)
              /\ \A id \in ids \ JL!ToSet(page) : Last(page) < id
<1>0. PageSize \in Nat \ {0} /\ JobIds \subseteq Nat
  BY StateAssumption DEF JL!ListingAssumption
<1>1. PICK n \in 0..PageSize : page \in [1..n -> ids]
  BY DEF JL!ListSql
<1>2. n \in Nat
  BY <1>0, <1>1
<1>3. page \in Seq(JobIds) /\ (\A i \in DOMAIN page : page[i] \in ids) /\ Len(page) = n
  BY <1>1, <1>2
<1>4. /\ \A i, j \in DOMAIN page : i < j => page[i] < page[j]
      /\ \A id \in ids \ JL!ToSet(page) : Len(page) = PageSize /\ \A i \in DOMAIN page : page[i] < id
  BY DEF JL!ListSql
<1>5. JL!ToSet(page) \subseteq ids
  BY <1>3 DEF JL!ToSet
<1>6. ASSUME ids # JL!ToSet(page)
      PROVE  /\ Last(page) \in ids
             /\ \A i \in DOMAIN page : page[i] <= Last(page)
             /\ \A id \in ids \ JL!ToSet(page) : Last(page) < id
  <2>1. Len(page) = PageSize
    BY <1>4, <1>5, <1>6
  <2>2. PageSize \in DOMAIN page /\ DOMAIN page = 1..PageSize /\ Last(page) = page[PageSize]
    BY <1>0, <1>3, <2>1 DEF Last
  <2>3. \A i \in DOMAIN page : i = PageSize \/ i < PageSize
    BY <1>0, <2>2
  <2>4. \A i \in DOMAIN page : page[i] \in Nat
    BY <1>0, <1>3
  <2>. QED
    BY <1>3, <1>4, <2>2, <2>3, <2>4
<1>. QED
  BY <1>3, <1>4, <1>5, <1>6

LEMMA PostgresPageKeeps ==
  ASSUME ListInv, JL!PostgresList
  PROVE  ListInv'
<1>. DEFINE ids == JL!Available
            jobs == JL!ToSet(enqueued)
<1>1. /\ store = "postgres" /\ enqueued \in Seq(JobIds) /\ seen \in Seq(JobIds) /\ kept \subseteq JobIds
      /\ cursor \in JobIds \cup {Nothing} /\ JobIds \subseteq Nat /\ Nothing \notin JobIds
      /\ at \in {"begin", "between", "end"}
  BY StateAssumption DEF JL!PostgresList, ListInv, JL!TypeOK, JL!ListingAssumption
<1>2. jobs \subseteq JobIds /\ ids = {i \in jobs : cursor # Nothing => i > cursor}
  BY <1>1 DEF JL!Available, JL!ToSet
<1>3. PICK page \in JL!ListSql(ids) :
        JL!Turn(page, IF ids = JL!ToSet(page) THEN Nothing ELSE Last(page))
  BY DEF JL!PostgresList, JL!Last, Last
<1>. DEFINE n == IF ids = JL!ToSet(page) THEN Nothing ELSE Last(page)
<1>4. /\ seen' = seen \o page /\ cursor' = n /\ at' = IF n = Nothing THEN "end" ELSE "between"
      /\ kept' = IF at = "begin" THEN jobs ELSE kept
      /\ at # "end" /\ UNCHANGED <<store, enqueued>>
  BY <1>3 DEF JL!Turn
<1>. HIDE DEF ids, jobs
<1>5. /\ page \in Seq(JobIds) /\ JL!ToSet(page) \subseteq ids
      /\ \A i \in DOMAIN page : page[i] \in ids
      /\ \A i, j \in DOMAIN page : i < j => page[i] < page[j]
      /\ ids # JL!ToSet(page) =>
           /\ Last(page) \in ids
           /\ \A i \in DOMAIN page : page[i] <= Last(page)
           /\ \A id \in ids \ JL!ToSet(page) : Last(page) < id
  BY <1>2, SqlPageHolds
<1>22. (n # Nothing => n \in ids) /\ ids \subseteq JobIds
  BY <1>2, <1>5
<1>6. /\ n \in JobIds \cup {Nothing}
      /\ n # Nothing => (\A i \in DOMAIN page : page[i] <= n)
      /\ \A id \in ids : id \in JL!ToSet(page) \/ (n # Nothing /\ n < id)
      /\ n = Nothing => ids \subseteq JL!ToSet(page)
  <2>1. CASE ids = JL!ToSet(page)
    BY <2>1
  <2>2. CASE ids # JL!ToSet(page)
    <3>1. n = Last(page) /\ Last(page) \in JobIds /\ Last(page) # Nothing
      BY <1>1, <1>5, <1>22, <2>2
    <3>. QED
      BY <1>5, <2>2, <3>1
  <2>. QED
    BY <2>1, <2>2
<1>7. /\ \A i, j \in DOMAIN seen : i < j => seen[i] < seen[j]
      /\ cursor # Nothing => \A i \in DOMAIN seen : seen[i] <= cursor
      /\ cursor = Nothing => seen = <<>>
      /\ \A i \in DOMAIN seen : seen[i] \in JobIds
  BY <1>1, <1>4 DEF ListInv, SeenAscends
<1>8. \A i \in DOMAIN seen : \A id \in ids : seen[i] < id
  <2>. SUFFICES ASSUME NEW i \in DOMAIN seen, NEW id \in ids PROVE seen[i] < id
    OBVIOUS
  <2>1. cursor # Nothing
    BY <1>7
  <2>2. cursor \in Nat /\ seen[i] \in Nat /\ id \in Nat /\ seen[i] <= cursor /\ id > cursor
    BY <1>1, <1>2, <1>7, <2>1
  <2>. QED
    BY <2>2
<1>9. /\ kept' \subseteq jobs
      /\ \A id \in kept' : id \in JL!ToSet(seen) \/ id \in ids
  <2>1. CASE at = "begin"
    <3>1. cursor = Nothing
      BY <1>1, <2>1 DEF ListInv, SeenAscends
    <3>. QED
      BY <1>2, <1>4, <2>1, <3>1
  <2>2. CASE at = "between"
    <3>1. /\ cursor # Nothing /\ kept \subseteq jobs
          /\ \A id \in kept : id \in JL!ToSet(seen) \/ cursor < id
      BY <1>1, <2>2 DEF ListInv, SeenAscends, KeptIsAfter, jobs
    <3>2. cursor \in Nat /\ kept \subseteq Nat
      BY <1>1, <3>1
    <3>. QED
      BY <1>2, <1>4, <2>2, <3>1, <3>2
  <2>. QED
    BY <1>1, <1>4, <2>1, <2>2
<1>. HIDE DEF n
<1>. DEFINE s == seen \o page
<1>10. /\ s \in Seq(JobIds) /\ Len(s) = Len(seen) + Len(page)
       /\ \A i \in 1..Len(seen) + Len(page) :
            s[i] = IF i <= Len(seen) THEN seen[i] ELSE page[i - Len(seen)]
  BY <1>1, <1>5, ConcatProperties
<1>11. seen' = s
  BY <1>4
<1>. HIDE DEF s
<1>12. /\ DOMAIN s = 1..Len(seen) + Len(page) /\ Len(seen) \in Nat /\ Len(page) \in Nat
       /\ DOMAIN seen = 1..Len(seen) /\ DOMAIN page = 1..Len(page)
  BY <1>1, <1>5, <1>10
<1>13. \A i \in DOMAIN s :
         \/ i \in DOMAIN seen /\ s[i] = seen[i]
         \/ i - Len(seen) \in DOMAIN page /\ s[i] = page[i - Len(seen)] /\ i > Len(seen)
  BY <1>10, <1>12
<1>14. \A i \in DOMAIN seen : i \in DOMAIN s /\ s[i] = seen[i]
  BY <1>10, <1>12
<1>15. ASSUME NEW i \in DOMAIN page PROVE i + Len(seen) \in DOMAIN s /\ s[i + Len(seen)] = page[i]
  <2>. DEFINE m == i + Len(seen)
  <2>1. m \in DOMAIN s /\ ~(m <= Len(seen)) /\ m - Len(seen) = i
    BY <1>12
  <2>. HIDE DEF m
  <2>2. s[m] = page[i]
    BY <1>10, <1>12, <2>1
  <2>. QED
    BY <2>1, <2>2 DEF m
<1>16. JL!ToSet(seen) \cup JL!ToSet(page) \subseteq JL!ToSet(s)
  BY <1>14, <1>15 DEF JL!ToSet
<1>17. \A i, j \in DOMAIN s : i < j => s[i] < s[j]
  <2>. SUFFICES ASSUME NEW i \in DOMAIN s, NEW j \in DOMAIN s, i < j PROVE s[i] < s[j]
    OBVIOUS
  <2>1. i \in Nat /\ j \in Nat
    BY <1>12
  <2>2. CASE i \in DOMAIN seen /\ j \in DOMAIN seen
    BY <1>7, <1>14, <2>2
  <2>3. CASE i \in DOMAIN seen /\ j \notin DOMAIN seen
    BY <1>5, <1>8, <1>13, <2>3
  <2>4. CASE i \notin DOMAIN seen
    <3>1. j \notin DOMAIN seen
      BY <1>12, <2>1, <2>4
    <3>2. /\ i - Len(seen) \in DOMAIN page /\ s[i] = page[i - Len(seen)]
          /\ j - Len(seen) \in DOMAIN page /\ s[j] = page[j - Len(seen)]
          /\ i - Len(seen) < j - Len(seen)
      BY <1>12, <1>13, <2>1, <2>4, <3>1
    <3>. QED
      BY <1>5, <3>2
  <2>. QED
    BY <2>2, <2>3, <2>4
<1>18. n # Nothing => \A i \in DOMAIN s : s[i] <= n
  <2>. SUFFICES ASSUME n # Nothing, NEW i \in DOMAIN s PROVE s[i] <= n
    OBVIOUS
  <2>1. CASE i \in DOMAIN seen
    <3>1. PICK id \in ids : n = id
      BY <1>22
    <3>. QED
      <4>1. s[i] = seen[i] /\ seen[i] \in Nat /\ n \in Nat /\ seen[i] < n
        BY <1>1, <1>7, <1>8, <1>14, <1>22, <2>1, <3>1
      <4>. QED
        BY <4>1
  <2>2. CASE i \notin DOMAIN seen
    BY <1>6, <1>13, <2>2
  <2>. QED
    BY <2>1, <2>2
<1>19. SeenAscends'
  BY <1>4, <1>11, <1>17, <1>18 DEF SeenAscends
<1>20. KeptIsAfter'
  BY <1>4, <1>6, <1>9, <1>11, <1>16 DEF KeptIsAfter, jobs, JL!ToSet
<1>21. JL!TypeOK'
  <2>1. kept' \subseteq JobIds
    BY <1>2, <1>9
  <2>. QED
    BY <1>4, <1>6, <1>10, <1>11, <2>1 DEF ListInv, JL!TypeOK
<1>. QED
  BY <1>19, <1>20, <1>21 DEF ListInv

LEMMA NextListing == ListInv /\ [JL!Next]_JL!vars => ListInv'
<1>. SUFFICES ASSUME ListInv, [JL!Next]_JL!vars PROVE ListInv'
  OBVIOUS
<1>1. CASE UNCHANGED JL!vars
  BY <1>1 DEF JL!vars, ListInv, JL!TypeOK, SeenAscends, KeptIsAfter, JL!ToSet
<1>. QED
  BY <1>1, JobsComeAndGo, MemoryPageKeeps, PostgresPageKeeps DEF JL!Next

LEMMA ListInvariant == JL!Spec => []ListInv
BY InitListing, NextListing, PTL DEF JL!Spec

-----------------------------------------------------------------------------
(* A record of the local store that no put is writing is torn only if writes  *)
(* of its key overlapped, one was rejected, or the process died in one, since  *)
(* a write that had the file to itself truncated it (put, writeFile,          *)
(* TornNeedsCause).                                                          *)
THEOREM FilesStayWhole == StateSpec => []TornNeedsCause
<1>1. StorageInv => TornNeedsCause
  BY DEF StorageInv, TornNeedsCause
<1>. QED
  BY <1>1, StateSpecs, StorageInvariant, PTL

(* Who follows a listing's cursors to the end meets everything that was there *)
(* all the while, each once and in order: in the three object stores, and in  *)
(* the PostgreSQL job store (list, listSql, ListingsMissNothing).             *)
THEOREM ListingsAreComplete == StateSpec => []ListingsMissNothing
<1>1. StorageInv => OS!ListingComplete
  <2>. SUFFICES ASSUME StorageInv, listing.at = "end"
                PROVE  listing.kept \subseteq OS!ToSet(listing.seen)
    BY DEF StorageInv, PagesAscend, OS!ListingComplete
  <2>1. listing.cursor = Nothing /\ listing.page = <<>>
    BY DEF StorageInv, CursorAgrees
  <2>2. OS!ToSet(listing.page) = {}
    BY <2>1 DEF OS!ToSet
  <2>. QED
    BY <2>1, <2>2 DEF StorageInv, KeptIsAhead
<1>2. ListInv => JL!PostgresPagesMissNothing
  <2>. SUFFICES ASSUME ListInv, store = "postgres" PROVE JL!PagesMissNothing
    BY DEF JL!PostgresPagesMissNothing
  <2>1. /\ seen \in Seq(JobIds) /\ JobIds \subseteq Nat
        /\ \A i, j \in DOMAIN seen : i < j => seen[i] < seen[j]
    BY StateAssumption DEF ListInv, JL!TypeOK, SeenAscends, JL!ListingAssumption
  <2>2. \A i, j \in DOMAIN seen : seen[i] = seen[j] => i = j
    <3>. SUFFICES ASSUME NEW i \in DOMAIN seen, NEW j \in DOMAIN seen, seen[i] = seen[j], i # j
                  PROVE  FALSE
      OBVIOUS
    <3>1. i \in 1..Len(seen) /\ j \in 1..Len(seen) /\ Len(seen) \in Nat
      BY <2>1
    <3>2. i \in Nat /\ j \in Nat /\ seen[i] \in Nat /\ seen[j] \in Nat
      <4>1. seen[i] \in JobIds /\ seen[j] \in JobIds
        BY <2>1
      <4>2. JobIds \subseteq Nat
        BY <2>1
      <4>3. i \in Nat /\ j \in Nat
        BY <3>1
      <4>. QED
        BY <4>1, <4>2, <4>3
    <3>. QED
      BY <2>1, <3>2
  <2>3. JL!IsInjective(seen)
    BY <2>2 DEF JL!IsInjective
  <2>4. at = "end" => kept \subseteq JL!ToSet(seen)
    BY DEF ListInv, KeptIsAfter
  <2>. QED
    BY <2>3, <2>4 DEF JL!PagesMissNothing
<1>. QED
  BY <1>1, <1>2, StateSpecs, StorageInvariant, ListInvariant, PTL DEF ListingsMissNothing

(* Records, pages, cursors and histories stay what they are declared to be    *)
(* (TypesOK).                                                                *)
THEOREM StateTypesHold == StateSpec => []TypesOK
<1>1. SessionInv /\ StorageInv /\ ListInv => TypesOK
  BY DEF SessionInv, StorageInv, ListInv, TypesOK
<1>. QED
  BY <1>1, StateSpecs, SessionInvariant, StorageInvariant, ListInvariant, PTL
=============================================================================
