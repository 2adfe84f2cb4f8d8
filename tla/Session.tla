------------------------------ MODULE Session ------------------------------
(***************************************************************************)
(* The session manager over its stores (packages/state/session/mod.ts):     *)
(* concurrent requests of one or several nodes create, get, save, update,   *)
(* rotate and destroy sessions.  A call of the store takes effect when it   *)
(* is made; other requests run at the await that follows it.  A session's   *)
(* data and actor are left out: every write replaces the whole record by    *)
(* the caller's copy, so what matters is which copy is written and when.    *)
(***************************************************************************)
EXTENDS Integers, SequencesExt

CONSTANTS
  Requests,     \* requests under way at once
  Managers,     \* the configurations: [store, rolling, maxAgeMs]
  MaxAge,       \* bound: the longest maxAgeMs of a configuration
  MaxSessions,  \* memorySessionStore's maxSessions
  MaxIds,       \* bound: session ids ever created
  MaxTime,      \* bound: the clock stops here
  NoSession     \* no record

Never == MaxTime + MaxAge + 1   \* later than any time the clock reads

Record == [id: 1..MaxIds, login: 1..MaxIds, expiresAt: 0..Never]
Stored == [id: 1..MaxIds, login: 1..MaxIds, expiresAt: 0..Never, until: 0..Never]

ASSUME SessionAssumption ==
  /\ Managers \subseteq [store: {"memory", "cache", "noop"}, rolling: BOOLEAN, maxAgeMs: 0..MaxAge]
  /\ MaxAge \in Nat /\ MaxSessions \in Nat \ {0} /\ MaxIds \in Nat /\ MaxTime \in Nat
  /\ NoSession \notin Record

VARIABLES
  manager,   \* the configuration of this run
  sessions,  \* the store's records, in the insertion order of its Map
  issued,    \* how many ids createSessionId has given out
  now,       \* Date.now()
  pc,        \* the await each request stands at
  held,      \* the copy of the record each request holds
  ended,     \* history: ids whose destruction, rotation or expiry was answered
  late,      \* history: requests whose login was ended or moved on under them
  contested  \* history: logins a late request wrote, or whose rotation failed half-way

vars == <<manager, sessions, issued, now, pc, held, ended, late, contested>>

TypeOK ==
  /\ manager \in Managers
  /\ sessions \in Seq(Stored)
  /\ issued \in 0..MaxIds
  /\ now \in 0..MaxTime
  /\ pc \in [Requests -> {"idle", "got", "ready", "rotated"}]
  /\ held \in [Requests -> Record \cup {NoSession}]
  /\ ended \subseteq 1..MaxIds
  /\ late \subseteq Requests
  /\ contested \subseteq 1..MaxIds

Init ==
  /\ manager \in Managers
  /\ sessions = <<>>
  /\ issued = 0
  /\ now = 0
  /\ pc = [r \in Requests |-> "idle"]
  /\ held = [r \in Requests |-> NoSession]
  /\ ended = {} /\ late = {} /\ contested = {}

-----------------------------------------------------------------------------
(* Records.  A maxAgeMs of 0 stands for one that is not given. *)
CreateSessionRecord(id, maxAgeMs) ==
  [id |-> id, login |-> id, expiresAt |-> IF maxAgeMs = 0 THEN Never ELSE now + maxAgeMs]

IsSessionExpired(x) == now >= x.expiresAt

Mut_RefreshAddsUp(x, maxAgeMs) == [x EXCEPT !.expiresAt = @ + maxAgeMs]

RefreshSession(x, maxAgeMs) ==
  [x EXCEPT !.expiresAt = IF maxAgeMs = 0 THEN @ ELSE now + maxAgeMs]

(* updateSessionRecord merges its options into the caller's copy. *)
UpdateSessionRecord(x, maxAgeMs) == RefreshSession(x, maxAgeMs)

(* resolveCacheTtlMs without a fallback: a record that is already past its  *)
(* expiry gets no time to live, and stays.                                  *)
CacheUntil(x) == IF x.expiresAt > now THEN x.expiresAt ELSE Never

Copy(e) == [id |-> e.id, login |-> e.login, expiresAt |-> e.expiresAt]

-----------------------------------------------------------------------------
(* The stores. *)
Without(s, id) ==
  IF \E i \in DOMAIN s : s[i].id = id
  THEN RemoveAt(s, CHOOSE i \in DOMAIN s : s[i].id = id)
  ELSE s

(* evictOldestSessions: the first of the Map's order go. *)
EvictOldestSessions(s) ==
  IF Len(s) <= MaxSessions THEN s ELSE SubSeq(s, Len(s) - MaxSessions + 1, Len(s))

MemorySet(s, x) == EvictOldestSessions(
  Append(Without(s, x.id), [id |-> x.id, login |-> x.login, expiresAt |-> x.expiresAt,
                            until |-> Never]))

CacheSet(s, x) == Append(Without(s, x.id),
  [id |-> x.id, login |-> x.login, expiresAt |-> x.expiresAt, until |-> CacheUntil(x)])

StoreSet(s, x) ==
  CASE manager.store = "memory" -> MemorySet(s, x)
    [] manager.store = "cache" -> CacheSet(s, x)
    [] OTHER -> s

(* What get finds: the cache forgets an entry at its time to live, the      *)
(* memory store looks at the record.                                        *)
MemoryFinds(id) == {e \in ToSet(sessions) : e.id = id /\ ~IsSessionExpired(e)}
CacheFinds(id) == {e \in ToSet(sessions) : e.id = id /\ now < e.until}
Found(id) == IF manager.store = "memory" THEN MemoryFinds(id) ELSE CacheFinds(id)

(* Either forgets the expired record it meets. *)
AfterGet(id) == IF Found(id) = {} THEN Without(sessions, id) ELSE sessions

-----------------------------------------------------------------------------
(* What the history records: the other requests that hold a session when it *)
(* ends or moves on are late, and what a late request writes is contested.  *)
Holders(id) == {q \in Requests : held[q] # NoSession /\ held[q].id = id}
Overtaken(r) == (late \cup Holders(held[r].id)) \ {r}
Writes(r) == contested \cup (IF r \in late THEN {held[r].login} ELSE {})

End(r) ==
  /\ pc' = [pc EXCEPT ![r] = "idle"]
  /\ held' = [held EXCEPT ![r] = NoSession]

Tick ==
  /\ now < MaxTime
  /\ now' = now + 1
  /\ UNCHANGED <<manager, sessions, issued, pc, held, ended, late, contested>>

Create ==
  /\ issued < MaxIds
  /\ issued' = issued + 1
  /\ sessions' = StoreSet(sessions, CreateSessionRecord(issued + 1, manager.maxAgeMs))
  /\ UNCHANGED <<manager, now, pc, held, ended, late, contested>>

(* getById, up to the answer of the store. *)
Get(r, id) ==
  /\ pc[r] = "idle"
  /\ sessions' = AfterGet(id)
  /\ IF Found(id) = {} THEN UNCHANGED <<pc, held>>
     ELSE /\ pc' = [pc EXCEPT ![r] = "got"]
          /\ held' = [held EXCEPT ![r] = Copy(CHOOSE e \in Found(id) : TRUE)]
  /\ UNCHANGED <<manager, issued, now, ended, late, contested>>

(* It expired: the record under its id is deleted, whichever that is by now. *)
GetExpired(r) ==
  /\ pc[r] = "got" /\ IsSessionExpired(held[r])
  /\ sessions' = Without(sessions, held[r].id)
  /\ ended' = ended \cup {held[r].id}
  /\ late' = Overtaken(r)
  /\ End(r)
  /\ UNCHANGED <<manager, issued, now, contested>>

GetAllowExpired(r) ==
  /\ pc[r] = "got" /\ IsSessionExpired(held[r])
  /\ pc' = [pc EXCEPT ![r] = "ready"]
  /\ UNCHANGED <<manager, sessions, issued, now, held, ended, late, contested>>

GetHit(r) ==
  /\ pc[r] = "got" /\ ~IsSessionExpired(held[r]) /\ ~manager.rolling
  /\ pc' = [pc EXCEPT ![r] = "ready"]
  /\ UNCHANGED <<manager, sessions, issued, now, held, ended, late, contested>>

(* A rolling manager stores the refreshed copy without another look. *)
GetRolling(r) ==
  /\ pc[r] = "got" /\ ~IsSessionExpired(held[r]) /\ manager.rolling
  /\ held' = [held EXCEPT ![r] = RefreshSession(@, manager.maxAgeMs)]
  /\ sessions' = StoreSet(sessions, held'[r])
  /\ contested' = Writes(r)
  /\ pc' = [pc EXCEPT ![r] = "ready"]
  /\ UNCHANGED <<manager, issued, now, ended, late>>

(* save stores the refreshed copy; update merges and may set a new maxAgeMs. *)
Save(r) ==
  /\ pc[r] = "ready"
  /\ sessions' = StoreSet(sessions, RefreshSession(held[r], 0))
  /\ contested' = Writes(r)
  /\ late' = late \ {r}
  /\ End(r)
  /\ UNCHANGED <<manager, issued, now, ended>>

Update(r, maxAgeMs) ==
  /\ pc[r] = "ready"
  /\ held' = [held EXCEPT ![r] = UpdateSessionRecord(@, maxAgeMs)]
  /\ sessions' = StoreSet(sessions, held'[r])
  /\ contested' = Writes(r)
  /\ UNCHANGED <<manager, issued, now, pc, ended, late>>

(* rotate stores the copy under a new id, and deletes the old one after. *)
Rotated(x, id, maxAgeMs) == [UpdateSessionRecord(x, maxAgeMs) EXCEPT !.id = id]

RotateStores(r, maxAgeMs) ==
  /\ pc[r] = "ready" /\ issued < MaxIds
  /\ issued' = issued + 1
  /\ sessions' = StoreSet(sessions, Rotated(held[r], issued + 1, maxAgeMs))
  /\ contested' = Writes(r)
  /\ late' = Overtaken(r) \cup (late \cap {r})
  /\ pc' = [pc EXCEPT ![r] = "rotated"]
  /\ UNCHANGED <<manager, now, held, ended>>

Mut_RotateKeepsOld(r) ==
  /\ pc[r] = "rotated"
  /\ late' = late \ {r}
  /\ End(r)
  /\ UNCHANGED <<manager, sessions, issued, now, ended, contested>>

Mut_RotateDeletesNewest(r) ==
  /\ pc[r] = "rotated"
  /\ sessions' = Without(sessions, issued)
  /\ ended' = ended \cup {held[r].id}
  /\ late' = Overtaken(r)
  /\ contested' = Writes(r)
  /\ End(r)
  /\ UNCHANGED <<manager, issued, now>>

RotateDeletes(r) ==
  /\ pc[r] = "rotated"
  /\ sessions' = Without(sessions, held[r].id)
  /\ ended' = ended \cup {held[r].id}
  /\ late' = Overtaken(r)
  /\ contested' = Writes(r)
  /\ End(r)
  /\ UNCHANGED <<manager, issued, now>>

(* The deletion rejects: rotate throws, and both ids are left. *)
RotateFails(r) ==
  /\ pc[r] = "rotated" /\ manager.store = "cache"
  /\ contested' = contested \cup {held[r].login}
  /\ late' = late \ {r}
  /\ End(r)
  /\ UNCHANGED <<manager, sessions, issued, now, ended>>

(* destroyById; destroy takes the id from the cookie. *)
Destroy(id) ==
  /\ sessions' = Without(sessions, id)
  /\ ended' = ended \cup {id}
  /\ late' = late \cup Holders(id)
  /\ UNCHANGED <<manager, issued, now, pc, held, contested>>

(* The handler is done, or a call of the store before a write rejected. *)
Leave(r) ==
  /\ pc[r] \in {"got", "ready"}
  /\ late' = late \ {r}
  /\ End(r)
  /\ UNCHANGED <<manager, sessions, issued, now, ended, contested>>

(* The store's clear. *)
Clear ==
  /\ sessions' = <<>>
  /\ ended' = 1..issued
  /\ late' = {q \in Requests : held[q] # NoSession}
  /\ UNCHANGED <<manager, issued, now, pc, held, contested>>

(* The maxAgeMs an update or a rotation may ask for. *)
MaxAges == {0, manager.maxAgeMs}

Next ==
  \/ Tick
  \/ Create
  \/ Clear
  \/ \E id \in 1..issued : Destroy(id)
  \/ \E r \in Requests :
       \/ \E id \in 1..issued : Get(r, id)
       \/ GetExpired(r)
       \/ GetAllowExpired(r)
       \/ GetHit(r)
       \/ GetRolling(r)
       \/ Save(r)
       \/ \E a \in MaxAges : Update(r, a)
       \/ \E a \in MaxAges : RotateStores(r, a)
       \/ RotateDeletes(r)
       \/ RotateFails(r)
       \/ Leave(r)

Spec == Init /\ [][Next]_vars

-----------------------------------------------------------------------------
(* A session whose end was answered is stored again only when a request     *)
(* that was under way at that end wrote its copy: a rolling get, a save or  *)
(* an update.  No request that begins later brings it back.                 *)
EndedStaysDead ==
  \A e \in ToSet(sessions) : e.id \in ended => e.login \in contested

(* One login has one session, however often it rotates: two ids are valid   *)
(* only inside a rotation, after one failed half-way, or when a request the *)
(* rotation overtook wrote its copy.                                        *)
OneSessionPerLogin ==
  \A i, j \in DOMAIN sessions :
    sessions[i].login = sessions[j].login =>
      \/ i = j
      \/ sessions[i].login \in contested
      \/ \E r \in Requests : pc[r] = "rotated" /\ held[r].login = sessions[i].login
=============================================================================
