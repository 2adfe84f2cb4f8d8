----------------------------- MODULE CacheClient -----------------------------
(***************************************************************************)
(* RootwareCacheClient.getOrSet over memoryCacheStore                       *)
(* (packages/state/cache/mod.ts).  Several isolates share one store; each   *)
(* has its own #inFlight map, and the store may offer acquireLock.  A call  *)
(* is split at its awaits; any of them may reject.                          *)
(***************************************************************************)
EXTENDS Integers, FiniteSets

CONSTANTS
  Nodes,       \* isolates, each with a client of its own
  Calls,       \* slots for getOrSet calls
  Keys,        \* full cache keys
  Null,        \* no node, key, call or entry
  Options,     \* the options the calls are made with
  Lockable,    \* TRUE: the store implements acquireLock
  MaxEntries,  \* MemoryCacheStoreOptions.maxEntries
  TtlMs,       \* the entries' time to live
  MaxTime      \* bound: the clock stops here

Entry == [createdAt: Nat, expiresAt: Nat]
Call == [node: Nodes, key: Keys, force: BOOLEAN, lock: BOOLEAN]

ASSUME CacheAssumption ==
  /\ Null \notin Nodes \cup Keys \cup Calls \cup Entry \cup Call
  /\ IsFiniteSet(Keys)
  /\ Options \subseteq [force: BOOLEAN, lock: BOOLEAN]
  /\ Lockable \in BOOLEAN
  /\ MaxEntries \in Nat \ {0}
  /\ TtlMs \in Nat \ {0}
  /\ MaxTime \in Nat

VARIABLES
  entries,   \* the Map of memoryCacheStore
  older,     \* <<a, b>>: a comes before b in the Map's insertion order
  holder,    \* the call that holds each key's distributed lock
  inFlight,  \* inFlight[n][k]: the call whose promise node n's map has for k
  now,       \* Date.now()
  pc,        \* the await each call stands at
  call,      \* node, key and options of each call
  copy,      \* the entry each call got from the store and has not yet judged
  flight,    \* the call whose promise each call awaits
  fills,     \* history: factories run under the lock since the key was free
  dropped    \* history: keys of which a late expiry check dropped a live entry

vars == <<entries, older, holder, inFlight, now, pc, call, copy, flight, fills, dropped>>

Owning == {"locking", "recheck", "judge", "compute", "store", "release", "settled"}

TypeOK ==
  /\ entries \in [Keys -> Entry \cup {Null}]
  /\ older \in SUBSET (Keys \X Keys)
  /\ holder \in [Keys -> Calls \cup {Null}]
  /\ inFlight \in [Nodes -> [Keys -> Calls \cup {Null}]]
  /\ now \in Nat
  /\ pc \in [Calls -> {"idle", "get", "check", "missed", "joined"} \cup Owning]
  /\ call \in [Calls -> Call \cup {Null}]
  /\ copy \in [Calls -> Entry \cup {Null}]
  /\ flight \in [Calls -> Calls \cup {Null}]
  /\ fills \in [Keys -> Nat]
  /\ dropped \in SUBSET Keys

Init ==
  /\ entries = [k \in Keys |-> Null]
  /\ older = {}
  /\ holder = [k \in Keys |-> Null]
  /\ inFlight = [n \in Nodes |-> [k \in Keys |-> Null]]
  /\ now = 0
  /\ pc = [c \in Calls |-> "idle"]
  /\ call = [c \in Calls |-> Null]
  /\ copy = [c \in Calls |-> Null]
  /\ flight = [c \in Calls |-> Null]
  /\ fills = [k \in Keys |-> 0]
  /\ dropped = {}

-----------------------------------------------------------------------------

CreateCacheEntry == [createdAt |-> now, expiresAt |-> now + TtlMs]

IsExpired(e) == now >= e.expiresAt

Present(e) == {k \in Keys : e[k] # Null}

(* The Map becomes e: a key that is there keeps its place, a new one is last. *)
Order(e) ==
  (older \cup (Present(entries) \X (Present(e) \ Present(entries))))
  \cap (Present(e) \X Present(e))
Write(e) == entries' = e /\ older' = Order(entries')
Untouched == UNCHANGED <<entries, older>>

Without(K) == [k \in Keys |-> IF k \in K THEN Null ELSE entries[k]]

Placed(k) == [entries EXCEPT ![k] = CreateCacheEntry]

(* The first entry of the Map that has the smallest createdAt. *)
Oldest(e) ==
  {k \in Present(e) :
     \A j \in Present(e) \ {k} :
       \/ e[k].createdAt < e[j].createdAt
       \/ e[k].createdAt = e[j].createdAt /\ <<k, j>> \in Order(e)}

(* evictOldestEntries: set adds at most one entry, so at most one has to go. *)
EvictOldestEntries(e) ==
  IF Cardinality(Present(e)) <= MaxEntries THEN e
  ELSE [k \in Keys |-> IF k \in Oldest(e) THEN Null ELSE e[k]]

(* The keys that are there before a step and not after it are free again. *)
Freed(e) == Present(entries) \ Present(e)
ForgetFills(K) == fills' = [k \in Keys |-> IF k \in K THEN 0 ELSE fills[k]]

Key(c) == call[c].key
(* A call that has settled frees its slot. *)
GoTo(c, where) ==
  /\ pc' = [pc EXCEPT ![c] = where]
  /\ call' = IF where = "idle" THEN [call EXCEPT ![c] = Null] ELSE call
Unlocked == UNCHANGED <<holder, inFlight, now, flight, dropped>>

-----------------------------------------------------------------------------
Begin(c, n, k, o) ==
  /\ pc[c] = "idle"
  /\ call' = [call EXCEPT ![c] = [node |-> n, key |-> k, force |-> o.force, lock |-> o.lock]]
  /\ pc' = [pc EXCEPT ![c] = IF o.force THEN "missed" ELSE "get"]
  /\ UNCHANGED <<entries, older, copy, fills>> /\ Unlocked

(* store.get: an expired entry is deleted, a live one is handed out. *)
StoreGet(c, hit, miss) ==
  LET k == Key(c)
      live == entries[k] # Null /\ ~IsExpired(entries[k])
  IN  /\ IF live THEN Untouched ELSE Write(Without({k}))
      /\ copy' = [copy EXCEPT ![c] = IF live THEN entries[k] ELSE Null]
      /\ GoTo(c, IF live THEN hit ELSE miss)
      /\ UNCHANGED fills /\ Unlocked

Lookup(c) == pc[c] = "get" /\ StoreGet(c, "check", "missed")

(* get looks at the clock once more when the entry has come: an entry that   *)
(* has expired meanwhile is deleted by its key, whatever is stored there now. *)
Judge(c, served, miss) ==
  /\ copy' = [copy EXCEPT ![c] = Null]
  /\ IF IsExpired(copy[c])
     THEN /\ Write(Without({Key(c)}))
          /\ dropped' = dropped \cup
               {k \in Present(entries) : k = Key(c) /\ ~IsExpired(entries[k])}
          /\ GoTo(c, miss)
     ELSE /\ GoTo(c, served)
          /\ UNCHANGED <<entries, older, dropped>>
  /\ UNCHANGED <<holder, inFlight, now, flight, fills>>

Check(c) == pc[c] = "check" /\ Judge(c, "idle", "missed")

(* store.get rejects, or the delete of an entry found expired. *)
LookupRejects(c) ==
  /\ pc[c] = "get" \/ (pc[c] = "check" /\ IsExpired(copy[c]))
  /\ copy' = [copy EXCEPT ![c] = Null]
  /\ GoTo(c, "idle")
  /\ UNCHANGED <<entries, older, fills>> /\ Unlocked

Locks(c) == call[c].lock /\ Lockable

Mut_ForceAlwaysComputes(c) ==
  /\ pc[c] = "missed"
  /\ inFlight[call[c].node][Key(c)] = Null \/ call[c].force
  /\ inFlight' = [inFlight EXCEPT ![call[c].node][Key(c)] = c]
  /\ GoTo(c, IF Locks(c) THEN "locking" ELSE "compute")
  /\ UNCHANGED <<entries, older, holder, now, copy, flight, fills, dropped>>

(* Nobody of this node computes the key: the call's promise goes into the     *)
(* map, and the computation starts in the same step.                         *)
Own(c) ==
  /\ pc[c] = "missed"
  /\ inFlight[call[c].node][Key(c)] = Null
  /\ inFlight' = [inFlight EXCEPT ![call[c].node][Key(c)] = c]
  /\ GoTo(c, IF Locks(c) THEN "locking" ELSE "compute")
  /\ UNCHANGED <<entries, older, holder, now, copy, flight, fills, dropped>>

(* The map has a promise: it is awaited, or has its outcome already. *)
Join(c) ==
  /\ pc[c] = "missed"
  /\ LET owner == inFlight[call[c].node][Key(c)]
     IN  /\ owner # Null
         /\ IF pc[owner] = "settled"
            THEN GoTo(c, "idle") /\ UNCHANGED flight
            ELSE GoTo(c, "joined") /\ flight' = [flight EXCEPT ![c] = owner]
  /\ UNCHANGED <<entries, older, holder, inFlight, now, copy, fills, dropped>>

-----------------------------------------------------------------------------
Mut_AcquireWithoutRecheck(c) ==
  /\ pc[c] = "locking"
  /\ holder[Key(c)] = Null
  /\ holder' = [holder EXCEPT ![Key(c)] = c]
  /\ GoTo(c, "compute")
  /\ UNCHANGED <<entries, older, inFlight, now, copy, flight, fills, dropped>>

(* With the lock a call looks again, unless it is to refresh anyway. *)
AcquireLock(c) ==
  /\ pc[c] = "locking"
  /\ holder[Key(c)] = Null
  /\ holder' = [holder EXCEPT ![Key(c)] = c]
  /\ GoTo(c, IF call[c].force THEN "compute" ELSE "recheck")
  /\ UNCHANGED <<entries, older, inFlight, now, copy, flight, fills, dropped>>

(* A lock that is awaited without a limit. *)
Mut_LockNeverTimesOut(c) == FALSE

(* acquireLock gives up after lockTimeoutMs: the value is computed anyway. *)
LockTimesOut(c) ==
  /\ pc[c] = "locking"
  /\ holder[Key(c)] # Null
  /\ GoTo(c, "compute")
  /\ UNCHANGED <<entries, older, copy, fills>> /\ Unlocked

Recheck(c) == pc[c] = "recheck" /\ StoreGet(c, "judge", "compute")

JudgeAgain(c) == pc[c] = "judge" /\ Judge(c, "release", "compute")

(* The factory returns; under the lock the computation is counted. *)
FactoryReturns(c) ==
  /\ pc[c] = "compute"
  /\ GoTo(c, "store")
  /\ fills' = IF holder[Key(c)] = c /\ ~call[c].force
              THEN [fills EXCEPT ![Key(c)] = @ + 1] ELSE fills
  /\ UNCHANGED <<entries, older, copy>> /\ Unlocked

(* set: the entry is stored and the Map cut back to its bound. *)
StoreSet(c) ==
  /\ pc[c] = "store"
  /\ Write(EvictOldestEntries(Placed(Key(c))))
  /\ ForgetFills(Freed(entries'))
  /\ GoTo(c, "release")
  /\ UNCHANGED copy /\ Unlocked

(* acquireLock, the second get or its late delete, the factory or set rejects. *)
Rejects(c) ==
  /\ \/ pc[c] \in {"locking", "recheck", "compute", "store"}
     \/ pc[c] = "judge" /\ IsExpired(copy[c])
  /\ copy' = [copy EXCEPT ![c] = Null]
  /\ IF pc[c] = "store" THEN ForgetFills({Key(c)}) ELSE UNCHANGED fills
  /\ GoTo(c, "release")
  /\ UNCHANGED <<entries, older>> /\ Unlocked

(* The promise of c settles, and with it every call that joined it. *)
Settle(c) ==
  LET Joined(d) == flight[d] = c
  IN  /\ pc' = [d \in Calls |-> IF d = c THEN "settled"
                                ELSE IF Joined(d) THEN "idle" ELSE pc[d]]
      /\ call' = [d \in Calls |-> IF Joined(d) THEN Null ELSE call[d]]
      /\ flight' = [d \in Calls |-> IF Joined(d) THEN Null ELSE flight[d]]

(* finally: the lock, if there is one, is released and the promise settles. *)
Release(c) ==
  /\ pc[c] = "release"
  /\ holder' = [k \in Keys |-> IF holder[k] = c THEN Null ELSE holder[k]]
  /\ Settle(c)
  /\ UNCHANGED <<entries, older, inFlight, now, copy, fills, dropped>>

Mut_KeepInFlight(c) ==
  /\ pc[c] = "settled"
  /\ GoTo(c, "idle")
  /\ UNCHANGED <<entries, older, copy, fills>> /\ Unlocked

(* finally of the owner: the promise leaves the map. *)
Cleanup(c) ==
  /\ pc[c] = "settled"
  /\ inFlight' = [inFlight EXCEPT ![call[c].node][Key(c)] = Null]
  /\ GoTo(c, "idle")
  /\ UNCHANGED <<entries, older, holder, now, copy, flight, fills, dropped>>

-----------------------------------------------------------------------------
(* delete, deleteByPrefix and clear take some keys out of the store. *)
Invalidate(K) ==
  /\ K \cap Present(entries) # {}
  /\ Write(Without(K))
  /\ ForgetFills(K)
  /\ UNCHANGED <<pc, call, copy>> /\ Unlocked

Tick ==
  /\ now < MaxTime
  /\ now' = now + 1
  /\ ForgetFills({k \in Present(entries) : now' >= entries[k].expiresAt})
  /\ UNCHANGED <<entries, older, holder, inFlight, pc, call, copy, flight, dropped>>

Progress(c) ==
  \/ Lookup(c) \/ Check(c) \/ Own(c) \/ Join(c) \/ AcquireLock(c) \/ LockTimesOut(c)
  \/ Recheck(c) \/ JudgeAgain(c) \/ FactoryReturns(c) \/ StoreSet(c)
  \/ Release(c) \/ Cleanup(c)

Next ==
  \/ \E c \in Calls :
       \/ \E n \in Nodes, k \in Keys, o \in Options : Begin(c, n, k, o)
       \/ Progress(c) \/ LookupRejects(c) \/ Rejects(c)
  \/ \E K \in SUBSET Keys : Invalidate(K)
  \/ Tick

Spec == Init /\ [][Next]_vars

(* Stores answer, factories return and lock waits time out: every promise the *)
(* client awaits settles, but none has to reject.                           *)
FairSpec == Spec /\ \A c \in Calls : WF_vars(Progress(c))

-----------------------------------------------------------------------------
(* One isolate never computes a key twice at the same time, although the      *)
(* look-up that decides it is followed by an await.                          *)
SingleFlight ==
  \A c, d \in Calls :
    /\ pc[c] \in Owning /\ pc[d] \in Owning
    /\ call[c].node = call[d].node /\ Key(c) = Key(d)
    => c = d

(* What the map and the lock hold belongs to a call that is still going to    *)
(* take it away: no rejected factory, store or lock leaves a key blocked.    *)
NothingDangles ==
  /\ \A n \in Nodes, k \in Keys :
       LET c == inFlight[n][k]
       IN  c # Null => pc[c] \in Owning /\ call[c].node = n /\ Key(c) = k
  /\ \A k \in Keys :
       holder[k] # Null =>
         pc[holder[k]] \in {"recheck", "judge", "compute", "store", "release"}

(* evictOldestEntries keeps the store within maxEntries, also when a late      *)
(* write follows a delete or an eviction of the same key.                     *)
WithinMaxEntries == Cardinality(Present(entries)) <= MaxEntries

(* The client's map, the lock and the store hold nothing they should not:     *)
(* no key is left blocked, and no more entries are kept than maxEntries.      *)
Consistent == TypeOK /\ NothingDangles /\ WithinMaxEntries

(* With the lock and the second look a key is computed once across isolates,  *)
(* until it expires, is removed or evicted or cannot be stored - and unless a *)
(* late expiry check dropped a live entry of it.                             *)
LockedFillOnce == \A k \in Keys \ dropped : fills[k] <= 1

(* Every getOrSet call settles, whoever it joined and whichever lock it      *)
(* waits for.                                                               *)
EveryCallSettles == \A c \in Calls : pc[c] # "idle" ~> pc[c] = "idle"
=============================================================================
