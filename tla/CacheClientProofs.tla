------------------------- MODULE CacheClientProofs -------------------------
(***************************************************************************)
(* One computation of a key at a time in an isolate, one under the lock     *)
(* across isolates, nothing left in the map or the lock, and a store within *)
(* maxEntries: for any isolates, calls, keys, options and times.            *)
(***************************************************************************)
EXTENDS CacheClient, FiniteSetTheorems, TLAPS

Entries == [Keys -> Entry \cup {Null}]

(* A slot has a call, a copy or a promise it awaits where its await says so. *)
SlotsAgree ==
  \A c \in Calls :
    /\ pc[c] = "idle" <=> call[c] = Null
    /\ pc[c] \in {"check", "judge"} <=> copy[c] # Null
    /\ pc[c] = "joined" <=> flight[c] # Null

(* The map of its node has the promise of every call that computes a key. *)
OwnersListed ==
  \A c \in Calls : pc[c] \in Owning => inFlight[call[c].node][Key(c)] = c

(* A lock is held by a call of that key. *)
LocksOfKeys == \A k \in Keys : holder[k] # Null => Key(holder[k]) = k

PlacesTyped ==
  /\ holder \in [Keys -> Calls \cup {Null}]
  /\ inFlight \in [Nodes -> [Keys -> Calls \cup {Null}]]
  /\ pc \in [Calls -> {"idle", "get", "check", "missed", "joined"} \cup Owning]
  /\ call \in [Calls -> Call \cup {Null}]
  /\ copy \in [Calls -> Entry \cup {Null}]
  /\ flight \in [Calls -> Calls \cup {Null}]

ControlInv == PlacesTyped /\ SlotsAgree /\ OwnersListed /\ NothingDangles /\ LocksOfKeys

(* R puts the members of P in a line. *)
Lines(R, P) ==
  /\ R \subseteq P \X P
  /\ \A a \in P : <<a, a>> \notin R
  /\ \A a, b \in P : a # b => <<a, b>> \in R \/ <<b, a>> \in R
  /\ \A a, b, d \in P : <<a, b>> \in R /\ <<b, d>> \in R => <<a, d>> \in R

StoreInv ==
  /\ Lines(older, Present(entries))
  /\ \A k \in Present(entries) : entries[k].createdAt <= now
  /\ WithinMaxEntries

Fresh(k) == entries[k] # Null /\ ~IsExpired(entries[k])

(* The call that fills key k under the lock, when there is one at place p. *)
Fills(k, p) == holder[k] # Null /\ pc[holder[k]] = p /\ ~call[holder[k]].force

(* A factory that has run under the lock has left a live entry or is about   *)
(* to; the holder that is to run one runs the first.                         *)
FillInv ==
  \A k \in Keys \ dropped :
    /\ fills[k] \in {0, 1}
    /\ fills[k] = 1 => Fresh(k) \/ Fills(k, "store")
    /\ Fills(k, "compute") => fills[k] = 0

CacheInv == TypeOK /\ ControlInv /\ StoreInv /\ FillInv
-----------------------------------------------------------------------------
LEMMA CallFields ==
  ASSUME PlacesTyped, SlotsAgree, NEW c \in Calls, pc[c] # "idle"
  PROVE  /\ call[c] \in Call /\ Key(c) \in Keys /\ call[c].node \in Nodes
         /\ call[c].force \in BOOLEAN
BY DEF PlacesTyped, SlotsAgree, Call, Key

LEMMA BeginControl ==
  ASSUME ControlInv, NEW c \in Calls, NEW n \in Nodes, NEW k \in Keys, NEW o \in Options,
         Begin(c, n, k, o)
  PROVE  ControlInv'
<1> DEFINE new == [node |-> n, key |-> k, force |-> o.force, lock |-> o.lock]
<1>1. new \in Call /\ new # Null /\ o.force \in BOOLEAN
  BY CacheAssumption DEF Call
<1>. HIDE DEF new
<1>2. /\ pc[c] = "idle" /\ call' = [call EXCEPT ![c] = new]
      /\ pc' = [pc EXCEPT ![c] = IF o.force THEN "missed" ELSE "get"]
      /\ UNCHANGED <<copy, holder, inFlight, flight>>
  BY DEF Begin, new, Unlocked
<1>3. PlacesTyped'
  BY <1>1, <1>2 DEF ControlInv, PlacesTyped
<1>4. SlotsAgree'
  BY <1>1, <1>2 DEF ControlInv, PlacesTyped, SlotsAgree
<1>5. OwnersListed'
  BY <1>1, <1>2 DEF ControlInv, PlacesTyped, OwnersListed, Owning, Key
<1>6. NothingDangles'
  BY <1>1, <1>2 DEF ControlInv, PlacesTyped, NothingDangles, Owning, Key
<1>7. LocksOfKeys'
  BY <1>1, <1>2 DEF ControlInv, PlacesTyped, NothingDangles, LocksOfKeys, Key
<1>. QED
  BY <1>3, <1>4, <1>5, <1>6, <1>7 DEF ControlInv

(* A call that does not own a promise goes on to another place of its own. *)
LEMMA WaitingControl ==
  ASSUME ControlInv, NEW c \in Calls, NEW where \in {"idle", "get", "check", "missed", "joined"},
         NEW e \in Entry \cup {Null}, NEW d \in Calls \cup {Null},
         pc[c] \in {"get", "check", "missed"},
         GoTo(c, where),
         copy' = [copy EXCEPT ![c] = e], e # Null <=> where = "check",
         flight' = [flight EXCEPT ![c] = d], d # Null <=> where = "joined",
         UNCHANGED <<holder, inFlight>>
  PROVE  ControlInv'
<1>3. PlacesTyped'
  BY DEF ControlInv, PlacesTyped, GoTo
<1>4. SlotsAgree'
  BY DEF ControlInv, PlacesTyped, SlotsAgree, GoTo
<1>5. OwnersListed'
  BY DEF ControlInv, PlacesTyped, OwnersListed, Owning, Key, GoTo
<1>6. NothingDangles'
  BY DEF ControlInv, PlacesTyped, NothingDangles, Owning, Key, GoTo
<1>7. LocksOfKeys'
  BY DEF ControlInv, PlacesTyped, NothingDangles, LocksOfKeys, Key, GoTo
<1>. QED
  BY <1>3, <1>4, <1>5, <1>6, <1>7 DEF ControlInv

(* A call that owns a promise goes on, with the lock or without it. *)
LEMMA OwningControl ==
  ASSUME ControlInv, NEW c \in Calls, NEW where \in Owning \ {"locking", "settled"},
         NEW e \in Entry \cup {Null},
         pc[c] \in Owning \ {"release", "settled"},
         GoTo(c, where),
         copy' = [copy EXCEPT ![c] = e], e # Null <=> where = "judge",
         \/ UNCHANGED holder
         \/ holder' = [holder EXCEPT ![Key(c)] = c],
         UNCHANGED <<inFlight, flight>>
  PROVE  ControlInv'
<1>1. call' = call /\ Key(c) \in Keys /\ Null \notin Calls
  BY CallFields, CacheAssumption DEF GoTo, Owning, ControlInv
<1>2. pc' = [pc EXCEPT ![c] = where]
  BY DEF GoTo
<1>3. PlacesTyped'
  BY <1>1, <1>2 DEF ControlInv, PlacesTyped
<1>4. SlotsAgree'
  BY <1>1, <1>2 DEF ControlInv, PlacesTyped, SlotsAgree, Owning
<1>5. OwnersListed'
  BY <1>1, <1>2 DEF ControlInv, PlacesTyped, OwnersListed, Key
<1>6. NothingDangles'
  BY <1>1, <1>2 DEF ControlInv, PlacesTyped, NothingDangles, Owning, Key
<1>7. LocksOfKeys'
  BY <1>1, <1>2 DEF ControlInv, PlacesTyped, LocksOfKeys, Key
<1>. QED
  BY <1>3, <1>4, <1>5, <1>6, <1>7 DEF ControlInv

LEMMA OwnControl ==
  ASSUME ControlInv, NEW c \in Calls, Own(c)
  PROVE  ControlInv'
<1> DEFINE n == call[c].node
           where == IF Locks(c) THEN "locking" ELSE "compute"
<1>1. /\ call' = call /\ Key(c) \in Keys /\ n \in Nodes /\ Null \notin Calls
      /\ pc[c] = "missed" /\ inFlight[n][Key(c)] = Null
      /\ inFlight' = [inFlight EXCEPT ![n][Key(c)] = c]
      /\ where \in {"locking", "compute"} /\ pc' = [pc EXCEPT ![c] = where]
      /\ UNCHANGED <<holder, copy, flight>>
  BY CallFields, CacheAssumption DEF Own, GoTo, ControlInv
<1>. HIDE DEF where
<1>3. PlacesTyped'
  BY <1>1 DEF ControlInv, PlacesTyped, Owning
<1>4. SlotsAgree'
  BY <1>1 DEF ControlInv, PlacesTyped, SlotsAgree
<1>5. OwnersListed'
  <2>. SUFFICES ASSUME NEW d \in Calls, pc'[d] \in Owning
                PROVE  inFlight'[call[d].node][Key(d)] = d
    BY <1>1 DEF OwnersListed, Key
  <2>1. CASE d = c
    BY <1>1, <2>1 DEF ControlInv, PlacesTyped
  <2>2. CASE d # c
    <3>1. pc[d] \in Owning
      BY <1>1, <2>2 DEF ControlInv, PlacesTyped
    <3>2. inFlight[call[d].node][Key(d)] = d /\ d # Null
      BY <1>1, <3>1 DEF ControlInv, OwnersListed
    <3>3. call[d].node \in Nodes /\ Key(d) \in Keys
      BY <3>1, CallFields DEF ControlInv, Owning
    <3>. QED
      BY <1>1, <3>2, <3>3 DEF ControlInv, PlacesTyped
  <2>. QED
    BY <2>1, <2>2
<1>6. NothingDangles'
  BY <1>1 DEF ControlInv, PlacesTyped, NothingDangles, Owning, Key
<1>7. LocksOfKeys'
  BY <1>1 DEF ControlInv, PlacesTyped, LocksOfKeys, Key
<1>. QED
  BY <1>3, <1>4, <1>5, <1>6, <1>7 DEF ControlInv

LEMMA ReleaseControl ==
  ASSUME ControlInv, NEW c \in Calls, Release(c)
  PROVE  ControlInv'
<1>1. /\ Null \notin Calls /\ pc[c] = "release" /\ flight[c] = Null
      /\ holder' = [k \in Keys |-> IF holder[k] = c THEN Null ELSE holder[k]]
      /\ UNCHANGED <<inFlight, copy>>
  BY CacheAssumption DEF Release, ControlInv, SlotsAgree
<1>2. ASSUME NEW d \in Calls, flight[d] = c
      PROVE  /\ pc[d] = "joined" /\ d # c
             /\ pc'[d] = "idle" /\ call'[d] = Null /\ flight'[d] = Null
  BY <1>1, <1>2 DEF Release, Settle, ControlInv, SlotsAgree
<1>3. ASSUME NEW d \in Calls, flight[d] # c
      PROVE  /\ pc'[d] = IF d = c THEN "settled" ELSE pc[d]
             /\ call'[d] = call[d] /\ flight'[d] = flight[d]
  BY <1>1, <1>3 DEF Release, Settle
<1>4. PlacesTyped'
  BY <1>1 DEF ControlInv, PlacesTyped, Owning, Release, Settle
<1>5. SlotsAgree'
  BY <1>1, <1>2, <1>3 DEF ControlInv, SlotsAgree
<1>6. \A d \in Calls : pc[d] \in Owning <=> pc'[d] \in Owning
  BY <1>1, <1>2, <1>3 DEF Owning
<1>7. \A d \in Calls : pc[d] \in Owning => call'[d] = call[d]
  BY <1>1, <1>2, <1>3 DEF Owning
<1>8. OwnersListed'
  BY <1>1, <1>6, <1>7 DEF ControlInv, OwnersListed, Key
<1>9. NothingDangles'
  <2>1. \A n \in Nodes, k \in Keys : inFlight[n][k] # Null =>
          pc'[inFlight[n][k]] \in Owning /\ call'[inFlight[n][k]] = call[inFlight[n][k]]
    BY <1>6, <1>7 DEF ControlInv, PlacesTyped, NothingDangles
  <2>2. \A k \in Keys : holder'[k] # Null =>
          /\ holder'[k] = holder[k] /\ holder[k] \in Calls \ {c}
          /\ pc[holder[k]] \in {"recheck", "judge", "compute", "store", "release"}
    BY <1>1 DEF ControlInv, PlacesTyped, NothingDangles
  <2>3. \A k \in Keys : holder'[k] # Null => pc'[holder'[k]] = pc[holder[k]]
    BY <1>2, <1>3, <2>2
  <2>. QED
    BY <1>1, <2>1, <2>2, <2>3 DEF ControlInv, NothingDangles, Key
<1>10. LocksOfKeys'
  <2>1. \A k \in Keys : holder'[k] # Null =>
          /\ holder'[k] = holder[k] /\ holder[k] \in Calls
          /\ pc[holder[k]] \in Owning /\ call[holder[k]].key = k
    BY <1>1 DEF ControlInv, PlacesTyped, NothingDangles, LocksOfKeys, Key, Owning
  <2>. QED
    BY <1>7, <2>1 DEF LocksOfKeys, Key
<1>. QED
  BY <1>4, <1>5, <1>8, <1>9, <1>10 DEF ControlInv

LEMMA CleanupControl ==
  ASSUME ControlInv, NEW c \in Calls, Cleanup(c)
  PROVE  ControlInv'
<1> DEFINE n == call[c].node
<1>1. /\ Key(c) \in Keys /\ n \in Nodes /\ Null \notin Calls
      /\ pc[c] = "settled" /\ inFlight[n][Key(c)] = c
      /\ inFlight' = [inFlight EXCEPT ![n][Key(c)] = Null]
      /\ pc' = [pc EXCEPT ![c] = "idle"] /\ call' = [call EXCEPT ![c] = Null]
      /\ UNCHANGED <<holder, copy, flight>>
  BY CallFields, CacheAssumption DEF Cleanup, GoTo, ControlInv, OwnersListed, Owning
<1>2. PlacesTyped'
  BY <1>1 DEF ControlInv, PlacesTyped
<1>3. SlotsAgree'
  BY <1>1 DEF ControlInv, PlacesTyped, SlotsAgree
<1>4. \A d \in Calls \ {c} : pc'[d] = pc[d] /\ call'[d] = call[d]
  BY <1>1 DEF ControlInv, PlacesTyped
<1>5. pc'[c] = "idle"
  BY <1>1 DEF ControlInv, PlacesTyped
<1>9. ASSUME NEW k \in Keys, holder[k] # Null
      PROVE  holder[k] \in Calls \ {c}
  <2>1. pc[holder[k]] # "settled" /\ holder[k] \in Calls
    BY <1>9 DEF ControlInv, PlacesTyped, NothingDangles
  <2>. QED
    BY <1>1, <2>1
<1>6. OwnersListed'
  <2>. SUFFICES ASSUME NEW d \in Calls, pc'[d] \in Owning
                PROVE  inFlight'[call'[d].node][call'[d].key] = d
    BY DEF OwnersListed, Key
  <2>1. d # c /\ pc[d] \in Owning /\ call'[d] = call[d]
    BY <1>4, <1>5 DEF Owning
  <2>2. inFlight[call[d].node][Key(d)] = d
    BY <2>1 DEF ControlInv, OwnersListed
  <2>3. call[d].node \in Nodes /\ Key(d) \in Keys
    BY <2>1, CallFields DEF ControlInv, Owning
  <2>. QED
    BY <1>1, <2>1, <2>2, <2>3 DEF ControlInv, PlacesTyped, Key
<1>7. NothingDangles'
  <2>1. ASSUME NEW m \in Nodes, NEW k \in Keys, inFlight'[m][k] # Null
        PROVE  inFlight'[m][k] = inFlight[m][k] /\ inFlight[m][k] \in Calls \ {c}
    <3>1. inFlight[m][k] # c
      BY <1>1, <2>1 DEF ControlInv, PlacesTyped, NothingDangles
    <3>. QED
      BY <1>1, <2>1, <3>1 DEF ControlInv, PlacesTyped
  <2>. QED
    BY <1>1, <1>4, <1>9, <2>1 DEF ControlInv, NothingDangles, Key
<1>8. LocksOfKeys'
  BY <1>1, <1>4, <1>9 DEF ControlInv, LocksOfKeys, Key
<1>. QED
  BY <1>2, <1>3, <1>6, <1>7, <1>8 DEF ControlInv

LEMMA NextControl ==
  ASSUME TypeOK, ControlInv, [Next]_vars
  PROVE  ControlInv'
<1>1. ASSUME NEW c \in Calls, Progress(c) \/ LookupRejects(c) \/ Rejects(c)
      PROVE  ControlInv'
  <2>0. /\ Null \notin Calls /\ Null \notin Entry
        /\ entries \in Entries /\ copy[c] \in Entry \cup {Null}
        /\ copy = [copy EXCEPT ![c] = copy[c]]
        /\ flight = [flight EXCEPT ![c] = flight[c]]
        /\ pc[c] \notin {"idle", "joined"} => flight[c] = Null
        /\ pc[c] \notin {"check", "judge"} => copy[c] = Null
    BY CacheAssumption DEF TypeOK, Entries, ControlInv, PlacesTyped, SlotsAgree
  <2> DEFINE live == entries[Key(c)] # Null /\ ~IsExpired(entries[Key(c)])
             hit == IF live THEN entries[Key(c)] ELSE Null
  <2>1. pc[c] # "idle" => hit \in Entry \cup {Null} /\ (hit # Null <=> live)
    BY <2>0, CallFields DEF ControlInv, Entries
  <2>2. CASE Lookup(c)
    <3>1. /\ pc[c] = "get" /\ GoTo(c, IF live THEN "check" ELSE "missed")
          /\ copy' = [copy EXCEPT ![c] = hit]
          /\ UNCHANGED <<holder, inFlight, flight>>
      BY <2>2 DEF Lookup, StoreGet, Unlocked
    <3>. HIDE DEF live, hit
    <3>. QED
      BY <2>0, <2>1, <3>1, WaitingControl
  <2>3. CASE Check(c)
    <3>1. /\ pc[c] = "check" /\ (GoTo(c, "idle") \/ GoTo(c, "missed"))
          /\ copy' = [copy EXCEPT ![c] = Null]
          /\ UNCHANGED <<holder, inFlight, flight>>
      BY <2>3 DEF Check, Judge
    <3>. QED
      BY <2>0, <3>1, WaitingControl
  <2>4. CASE LookupRejects(c)
    <3>1. /\ pc[c] \in {"get", "check"} /\ GoTo(c, "idle")
          /\ copy' = [copy EXCEPT ![c] = Null]
          /\ UNCHANGED <<holder, inFlight, flight>>
      BY <2>4 DEF LookupRejects, Unlocked
    <3>. QED
      BY <2>0, <3>1, WaitingControl
  <2>5. CASE Own(c)
    BY <2>5, OwnControl
  <2>6. CASE Join(c)
    <3>1. pc[c] = "missed" /\ UNCHANGED <<copy, holder, inFlight>>
      BY <2>6 DEF Join
    <3>2. CASE GoTo(c, "idle") /\ UNCHANGED flight
      BY <2>0, <3>1, <3>2, WaitingControl
    <3>3. ASSUME NEW d \in Calls, GoTo(c, "joined"), flight' = [flight EXCEPT ![c] = d]
          PROVE  ControlInv'
      BY <2>0, <3>1, <3>3, WaitingControl
    <3>4. inFlight[call[c].node][Key(c)] \in Calls \cup {Null}
      BY <3>1, CallFields DEF ControlInv, PlacesTyped
    <3>. QED
      BY <2>6, <3>2, <3>3, <3>4 DEF Join
  <2>7. CASE AcquireLock(c)
    <3>1. /\ pc[c] = "locking" /\ (GoTo(c, "compute") \/ GoTo(c, "recheck"))
          /\ holder' = [holder EXCEPT ![Key(c)] = c]
          /\ UNCHANGED <<copy, inFlight, flight>>
      BY <2>7 DEF AcquireLock
    <3>. QED
      BY <2>0, <3>1, OwningControl DEF Owning
  <2>8. CASE LockTimesOut(c) \/ FactoryReturns(c) \/ StoreSet(c)
    <3>1. /\ pc[c] \in {"locking", "recheck", "compute", "store"}
          /\ (GoTo(c, "compute") \/ GoTo(c, "store") \/ GoTo(c, "release"))
          /\ UNCHANGED <<copy, holder, inFlight, flight>>
      BY <2>8 DEF LockTimesOut, FactoryReturns, StoreSet, Unlocked
    <3>. QED
      BY <2>0, <3>1, OwningControl DEF Owning
  <2>9. CASE Recheck(c)
    <3>1. /\ pc[c] = "recheck" /\ GoTo(c, IF live THEN "judge" ELSE "compute")
          /\ copy' = [copy EXCEPT ![c] = hit]
          /\ UNCHANGED <<holder, inFlight, flight>>
      BY <2>9 DEF Recheck, StoreGet, Unlocked
    <3>. HIDE DEF live, hit
    <3>. QED
      BY <2>0, <2>1, <3>1, OwningControl DEF Owning
  <2>10. CASE JudgeAgain(c)
    <3>1. /\ pc[c] = "judge" /\ (GoTo(c, "release") \/ GoTo(c, "compute"))
          /\ copy' = [copy EXCEPT ![c] = Null]
          /\ UNCHANGED <<holder, inFlight, flight>>
      BY <2>10 DEF JudgeAgain, Judge
    <3>. QED
      BY <2>0, <3>1, OwningControl DEF Owning
  <2>11. CASE Release(c) \/ Cleanup(c)
    BY <2>11, ReleaseControl, CleanupControl
  <2>12. CASE Rejects(c)
    <3>1. /\ pc[c] \in {"locking", "recheck", "compute", "store", "judge"} /\ GoTo(c, "release")
          /\ copy' = [copy EXCEPT ![c] = Null]
          /\ UNCHANGED <<holder, inFlight, flight>>
      BY <2>12 DEF Rejects, Unlocked
    <3>. QED
      BY <2>0, <3>1, OwningControl DEF Owning
  <2>. QED
    BY <1>1, <2>2, <2>3, <2>4, <2>5, <2>6, <2>7, <2>8, <2>9, <2>10, <2>11, <2>12 DEF Progress
<1>2. CASE UNCHANGED <<holder, inFlight, pc, call, copy, flight>>
  BY <1>2 DEF ControlInv, PlacesTyped, SlotsAgree, OwnersListed, NothingDangles, LocksOfKeys, Key
<1>3. CASE Tick \/ (\E K \in SUBSET Keys : Invalidate(K)) \/ UNCHANGED vars
  BY <1>2, <1>3 DEF Tick, Invalidate, Unlocked, vars
<1>. QED
  BY <1>1, <1>3, BeginControl DEF Next

LEMMA InitControl == Init => ControlInv
BY CacheAssumption DEF Init, ControlInv, PlacesTyped, SlotsAgree, OwnersListed, NothingDangles,
   LocksOfKeys, Owning, Key

-----------------------------------------------------------------------------
LEMMA PresentFinite ==
  ASSUME NEW e
  PROVE  /\ Present(e) \subseteq Keys
         /\ IsFiniteSet(Present(e))
         /\ Cardinality(Present(e)) \in Nat
<1>1. Present(e) \in SUBSET Keys
  BY DEF Present
<1>. QED
  BY <1>1, FS_Subset, FS_CardinalityType, CacheAssumption

(* A finite line has a first member. *)
LEMMA LineHasFirst ==
  ASSUME NEW P, NEW R, IsFiniteSet(P), P # {}, Lines(R, P)
  PROVE  \E a \in P : \A b \in P \ {a} : <<a, b>> \in R
<1> DEFINE D(a) == {b \in P : <<b, a>> \in R}
           T == {D(a) : a \in P}
<1>1. T \subseteq FiniteSubsetsOf(P) /\ T # {}
  <2>1. \A a \in P : D(a) \in SUBSET P
    OBVIOUS
  <2>2. T \subseteq SUBSET P /\ T # {}
    BY <2>1
  <2>. QED
    BY <2>2, FS_FiniteSubsetsOfFinite
<1>2. \E X \in T : \A Y \in T : ~(<<Y, X>> \in StrictSubsetOrdering(P))
  <2>. HIDE DEF T
  <2>1. IsWellFoundedOn(StrictSubsetOrdering(P), FiniteSubsetsOf(P))
    BY FS_StrictSubsetOrderingWellFounded
  <2>. QED
    BY <1>1, <2>1, WFMin
<1>3. PICK a \in P : \A b \in P : ~(<<D(b), D(a)>> \in StrictSubsetOrdering(P))
  BY <1>2
<1>4. ASSUME NEW b \in P, <<b, a>> \in R
      PROVE  FALSE
  <2>1. \A d \in P : <<d, b>> \in R => <<d, a>> \in R
    BY <1>4 DEF Lines
  <2>2. D(b) \subseteq D(a) /\ b \in D(a) /\ b \notin D(b)
    BY <1>4, <2>1 DEF Lines
  <2>3. D(b) \in SUBSET P /\ D(a) \in SUBSET P
    OBVIOUS
  <2>. QED
    BY <1>3, <2>2, <2>3 DEF StrictSubsetOrdering
<1>. QED
  BY <1>4 DEF Lines

(* The Map's order stays a line when at most one key is new. *)
LEMMA OrderLines ==
  ASSUME Lines(older, Present(entries)), NEW e, NEW k \in Keys,
         Present(e) \subseteq Present(entries) \cup {k}
  PROVE  Lines(Order(e), Present(e))
<1> DEFINE P == Present(entries)
           N == Present(e) \ P
<1>1. \A a, b \in Present(e) :
        <<a, b>> \in Order(e) <=> <<a, b>> \in older \/ (a \in P /\ b \in N)
  BY DEF Order
<1>2. \A a, b : <<a, b>> \in older => a \in P /\ b \in P
  BY DEF Lines
<1>3. \A a \in Present(e) : a \notin P <=> a \in N
  OBVIOUS
<1>4. \A a, b \in N : a = b
  OBVIOUS
<1>5. Order(e) \subseteq Present(e) \X Present(e)
  BY DEF Order
<1>. HIDE DEF N
<1>6. \A a \in Present(e) : <<a, a>> \notin Order(e)
  BY <1>1, <1>2, <1>3 DEF Lines
<1>7. \A a, b \in Present(e) : a # b => <<a, b>> \in Order(e) \/ <<b, a>> \in Order(e)
  BY <1>1, <1>3, <1>4 DEF Lines
<1>8. \A a, b, d \in Present(e) :
        <<a, b>> \in Order(e) /\ <<b, d>> \in Order(e) => <<a, d>> \in Order(e)
  BY <1>1, <1>2, <1>3 DEF Lines
<1>. QED
  BY <1>5, <1>6, <1>7, <1>8 DEF Lines

(* evictOldestEntries goes by age: createdAt first, then the Map's order. *)
Age(e) ==
  {p \in Present(e) \X Present(e) :
     \/ e[p[1]].createdAt < e[p[2]].createdAt
     \/ e[p[1]].createdAt = e[p[2]].createdAt /\ p \in Order(e)}

LEMMA AgeLines ==
  ASSUME NEW e \in Entries, Lines(Order(e), Present(e))
  PROVE  Lines(Age(e), Present(e))
<1>1. \A a \in Present(e) : e[a].createdAt \in Nat
  BY DEF Entries, Entry, Present
<1>2. \A a, b \in Present(e) :
        <<a, b>> \in Age(e) <=>
          \/ e[a].createdAt < e[b].createdAt
          \/ e[a].createdAt = e[b].createdAt /\ <<a, b>> \in Order(e)
  BY DEF Age
<1>3. Age(e) \subseteq Present(e) \X Present(e)
  BY DEF Age
<1>4. /\ \A a \in Present(e) : <<a, a>> \notin Order(e)
      /\ \A a, b \in Present(e) : a # b => <<a, b>> \in Order(e) \/ <<b, a>> \in Order(e)
      /\ \A a, b, d \in Present(e) :
           <<a, b>> \in Order(e) /\ <<b, d>> \in Order(e) => <<a, d>> \in Order(e)
  BY DEF Lines
<1> DEFINE at(a) == e[a].createdAt
<1>5. /\ \A a \in Present(e) : at(a) \in Nat
      /\ \A a, b \in Present(e) :
           <<a, b>> \in Age(e) <=> at(a) < at(b) \/ (at(a) = at(b) /\ <<a, b>> \in Order(e))
  BY <1>1, <1>2
<1>. HIDE DEF at
<1>6. ASSUME NEW a \in Present(e)
      PROVE  <<a, a>> \notin Age(e)
  <2>1. <<a, a>> \in Age(e) => at(a) < at(a) \/ <<a, a>> \in Order(e)
    BY <1>5
  <2>. QED
    BY <1>4, <1>5, <2>1
<1>7. ASSUME NEW a \in Present(e), NEW b \in Present(e), a # b
      PROVE  <<a, b>> \in Age(e) \/ <<b, a>> \in Age(e)
  <2>1. /\ at(a) < at(b) => <<a, b>> \in Age(e)
        /\ at(b) < at(a) => <<b, a>> \in Age(e)
        /\ at(a) = at(b) /\ <<a, b>> \in Order(e) => <<a, b>> \in Age(e)
        /\ at(a) = at(b) /\ <<b, a>> \in Order(e) => <<b, a>> \in Age(e)
    BY <1>5
  <2>2. at(a) \in Nat /\ at(b) \in Nat /\ (<<a, b>> \in Order(e) \/ <<b, a>> \in Order(e))
    BY <1>4, <1>5, <1>7
  <2>. QED
    BY <2>1, <2>2
<1>8. \A a, b, d \in Present(e) :
        <<a, b>> \in Age(e) /\ <<b, d>> \in Age(e) => <<a, d>> \in Age(e)
  BY <1>4, <1>5
<1>. QED
  BY <1>3, <1>6, <1>7, <1>8 DEF Lines

LEMMA OldestFound ==
  ASSUME NEW e \in Entries, Lines(Order(e), Present(e)), Present(e) # {}
  PROVE  \E k \in Present(e) : k \in Oldest(e)
<1>1. PICK k \in Present(e) : \A j \in Present(e) \ {k} : <<k, j>> \in Age(e)
  BY AgeLines, LineHasFirst, PresentFinite
<1>. QED
  BY <1>1 DEF Oldest, Age

(* One entry above maxEntries is taken back. *)
LEMMA EvictionBounds ==
  ASSUME NEW e \in Entries, Lines(Order(e), Present(e)),
         Cardinality(Present(e)) <= MaxEntries + 1
  PROVE  Cardinality(Present(EvictOldestEntries(e))) <= MaxEntries
<1>0. MaxEntries \in Nat /\ Cardinality(Present(e)) \in Nat /\ IsFiniteSet(Present(e))
  BY CacheAssumption, PresentFinite
<1>1. CASE Cardinality(Present(e)) <= MaxEntries
  BY <1>1 DEF EvictOldestEntries
<1>2. CASE Cardinality(Present(e)) > MaxEntries
  <2>1. Present(e) # {}
    BY <1>0, <1>2, FS_EmptySet
  <2>2. PICK k \in Present(e) : k \in Oldest(e)
    BY <2>1, OldestFound
  <2>3. Present(EvictOldestEntries(e)) \in SUBSET (Present(e) \ {k})
    BY <1>0, <1>2, <2>2 DEF EvictOldestEntries, Present
  <2>4. /\ IsFiniteSet(Present(e) \ {k})
        /\ Cardinality(Present(e) \ {k}) = Cardinality(Present(e)) - 1
    BY <1>0, FS_RemoveElement
  <2>5. Cardinality(Present(EvictOldestEntries(e))) <= Cardinality(Present(e) \ {k})
    BY <2>3, <2>4, FS_Subset
  <2>. QED
    BY <1>0, <2>4, <2>5, PresentFinite
<1>. QED
  BY <1>0, <1>1, <1>2

LEMMA PlacedEntries ==
  ASSUME TypeOK, NEW k \in Keys
  PROVE  /\ Placed(k) \in Entries
         /\ Placed(k)[k] = CreateCacheEntry /\ CreateCacheEntry \in Entry
         /\ Present(Placed(k)) = Present(entries) \cup {k}
<1>1. CreateCacheEntry \in Entry /\ CreateCacheEntry # Null
  BY CacheAssumption DEF CreateCacheEntry, Entry, TypeOK
<1>2. Placed(k) = [entries EXCEPT ![k] = CreateCacheEntry] /\ entries \in Entries
  BY DEF Placed, TypeOK, Entries
<1>. QED
  BY <1>1, <1>2 DEF Entries, Present

LEMMA PlacedCount ==
  ASSUME TypeOK, StoreInv, NEW k \in Keys
  PROVE  /\ Cardinality(Present(Placed(k))) <= MaxEntries + 1
         /\ k \in Present(entries) => Cardinality(Present(Placed(k))) <= MaxEntries
<1>1. MaxEntries \in Nat /\ Cardinality(Present(entries)) \in Nat
  BY CacheAssumption, PresentFinite
<1>2. Cardinality(Present(Placed(k))) =
        IF k \in Present(entries) THEN Cardinality(Present(entries))
        ELSE Cardinality(Present(entries)) + 1
  BY PlacedEntries, PresentFinite, FS_AddElement
<1>. QED
  BY <1>1, <1>2 DEF StoreInv, WithinMaxEntries

(* evictOldestEntries never takes the entry that has just been set. *)
LEMMA NewEntryStays ==
  ASSUME TypeOK, StoreInv, NEW k \in Keys
  PROVE  EvictOldestEntries(Placed(k))[k] = CreateCacheEntry
<1> DEFINE e == Placed(k)
<1>1. e \in Entries /\ e[k] = CreateCacheEntry /\ Present(e) = Present(entries) \cup {k}
  BY PlacedEntries
<1>2. CASE Cardinality(Present(e)) <= MaxEntries
  BY <1>1, <1>2 DEF EvictOldestEntries
<1>3. CASE ~(Cardinality(Present(e)) <= MaxEntries)
  <2>1. k \notin Present(entries)
    BY <1>3, PlacedCount
  <2>2. Present(entries) # {}
    <3>1. MaxEntries \in Nat \ {0} /\ Cardinality({k}) = 1
      BY CacheAssumption, FS_Singleton
    <3>. QED
      BY <1>1, <1>3, <3>1
  <2>3. PICK j \in Present(entries) : TRUE
    BY <2>2
  <2>4. j \in Present(e) \ {k} /\ j \in Keys
    BY <1>1, <2>1, <2>3, PresentFinite
  <2>5. e[j] = entries[j] /\ e[j].createdAt <= now /\ e[j].createdAt \in Nat
    BY <2>1, <2>3, <2>4 DEF Placed, StoreInv, TypeOK, Present, Entry
  <2>6. e[k].createdAt = now /\ now \in Nat
    BY <1>1 DEF CreateCacheEntry, TypeOK
  <2>7. <<k, j>> \notin Order(e)
    BY <1>1, <2>1, <2>3 DEF Order, StoreInv, Lines
  <2>8. k \notin Oldest(e)
    BY <2>4, <2>5, <2>6, <2>7 DEF Oldest
  <2>. QED
    BY <1>1, <1>3, <2>8 DEF EvictOldestEntries
<1>. QED
  BY <1>2, <1>3

(* What a step does to the store: nothing, a delete, or a set. *)
LEMMA StoreSteps ==
  ASSUME TypeOK, ControlInv, [Next]_vars
  PROVE  /\ \/ Untouched
            \/ \E K \in SUBSET Keys : Write(Without(K)) /\ UNCHANGED now
            \/ \E k \in Keys : Write(EvictOldestEntries(Placed(k))) /\ UNCHANGED now
         /\ now' \in Nat /\ now <= now'
<1>0. now \in Nat
  BY DEF TypeOK
<1>1. ASSUME NEW c \in Calls, Progress(c) \/ LookupRejects(c) \/ Rejects(c)
      PROVE  /\ UNCHANGED now
             /\ \/ Untouched
                \/ \E K \in SUBSET Keys : Write(Without(K))
                \/ \E k \in Keys : Write(EvictOldestEntries(Placed(k)))
  <2>1. ASSUME pc[c] # "idle"
        PROVE  Key(c) \in Keys /\ {Key(c)} \in SUBSET Keys
    BY <2>1, CallFields DEF ControlInv
  <2>2. CASE Lookup(c) \/ Recheck(c)
    BY <2>1, <2>2 DEF Lookup, Recheck, StoreGet, Unlocked
  <2>3. CASE Check(c) \/ JudgeAgain(c)
    BY <2>1, <2>3 DEF Check, JudgeAgain, Judge, Untouched
  <2>4. CASE StoreSet(c)
    BY <2>1, <2>4 DEF StoreSet, Unlocked
  <2>. QED
    BY <1>1, <2>2, <2>3, <2>4
       DEF Progress, LookupRejects, Rejects, Own, Join, AcquireLock, LockTimesOut,
           FactoryReturns, Release, Cleanup, Unlocked, Untouched
<1>2. ASSUME NEW c \in Calls, NEW n \in Nodes, NEW k \in Keys, NEW o \in Options,
             Begin(c, n, k, o)
      PROVE  Untouched /\ UNCHANGED now
  BY <1>2 DEF Begin, Unlocked, Untouched
<1>3. CASE \E K \in SUBSET Keys : Invalidate(K)
  BY <1>0, <1>3 DEF Invalidate, Unlocked
<1>4. CASE Tick
  BY <1>0, <1>4 DEF Tick, Untouched
<1>5. CASE UNCHANGED vars
  BY <1>0, <1>5 DEF vars, Untouched
<1>. QED
  BY <1>0, <1>1, <1>2, <1>3, <1>4, <1>5 DEF Next

LEMMA NextStore ==
  ASSUME TypeOK, ControlInv, StoreInv, [Next]_vars
  PROVE  StoreInv' /\ entries' \in Entries /\ older' \in SUBSET (Keys \X Keys)
<1>0. /\ entries \in Entries /\ older \in SUBSET (Keys \X Keys) /\ now \in Nat
      /\ \A k \in Present(entries) : entries[k] \in Entry /\ entries[k].createdAt \in Nat
  BY DEF TypeOK, Entries, Entry, Present
<1>1. now' \in Nat /\ now <= now'
  BY StoreSteps
<1>2. CASE Untouched
  BY <1>0, <1>1, <1>2 DEF Untouched, StoreInv, Present, WithinMaxEntries
<1>3. ASSUME NEW e \in Entries, NEW k \in Keys, Write(e),
             Present(e) \subseteq Present(entries) \cup {k},
             Cardinality(Present(e)) <= MaxEntries,
             \A j \in Present(e) : e[j] = entries[j] \/ e[j] = CreateCacheEntry
      PROVE  StoreInv' /\ entries' \in Entries /\ older' \in SUBSET (Keys \X Keys)
  <2>1. entries' = e /\ older' = Order(e) /\ Present(entries)' = Present(e)
    BY <1>3 DEF Write, Present
  <2>2. Lines(Order(e), Present(e))
    BY <1>3, OrderLines DEF StoreInv
  <2>3. older' \in SUBSET (Keys \X Keys)
    BY <2>1, PresentFinite DEF Order
  <2>4. ASSUME NEW j \in Present(e)
        PROVE  e[j].createdAt <= now'
    <3>1. CASE e[j] = CreateCacheEntry
      BY <1>1, <3>1 DEF CreateCacheEntry
    <3>2. CASE e[j] = entries[j]
      <4>1. j \in Present(entries)
        BY <3>2 DEF Present
      <4>. QED
        BY <1>0, <1>1, <3>2, <4>1 DEF StoreInv
    <3>. QED
      BY <1>3, <3>1, <3>2
  <2>. QED
    BY <1>3, <2>1, <2>2, <2>3, <2>4 DEF StoreInv, WithinMaxEntries
<1>4. ASSUME NEW K \in SUBSET Keys, Write(Without(K))
      PROVE  StoreInv' /\ entries' \in Entries /\ older' \in SUBSET (Keys \X Keys)
  <2>1. CASE Keys = {}
    <3>1. entries' = entries /\ older' = older
      BY <1>0, <1>4, <2>1 DEF Write, Without, Order, Entries
    <3>. QED
      BY <1>2, <3>1 DEF Untouched
  <2>2. ASSUME NEW k \in Keys
        PROVE  StoreInv' /\ entries' \in Entries /\ older' \in SUBSET (Keys \X Keys)
    <3>1. /\ Without(K) \in Entries
          /\ Present(Without(K)) \in SUBSET Present(entries)
          /\ \A j \in Present(Without(K)) : Without(K)[j] = entries[j]
      BY <1>0 DEF Without, Entries, Present
    <3>2. Cardinality(Present(Without(K))) <= MaxEntries
      <4>1. Cardinality(Present(Without(K))) <= Cardinality(Present(entries))
        BY <3>1, FS_Subset, PresentFinite
      <4>. QED
        BY <4>1, PresentFinite, CacheAssumption DEF StoreInv, WithinMaxEntries
    <3>. QED
      BY <1>3, <1>4, <3>1, <3>2
  <2>. QED
    BY <2>1, <2>2
<1>5. ASSUME NEW k \in Keys, Write(EvictOldestEntries(Placed(k)))
      PROVE  StoreInv' /\ entries' \in Entries /\ older' \in SUBSET (Keys \X Keys)
  <2> DEFINE e == EvictOldestEntries(Placed(k))
  <2>1. /\ Placed(k) \in Entries
        /\ Present(Placed(k)) = Present(entries) \cup {k}
        /\ Cardinality(Present(Placed(k))) <= MaxEntries + 1
        /\ \A j \in Keys : Placed(k)[j] = entries[j] \/ Placed(k)[j] = CreateCacheEntry
    <3>1. \A j \in Keys : Placed(k)[j] = entries[j] \/ Placed(k)[j] = CreateCacheEntry
      BY <1>0 DEF Placed, Entries
    <3>. QED
      BY <3>1, PlacedEntries, PlacedCount
  <2>2. Lines(Order(Placed(k)), Present(Placed(k)))
    BY <2>1, OrderLines DEF StoreInv
  <2>3. Cardinality(Present(e)) <= MaxEntries
    BY <2>1, <2>2, EvictionBounds
  <2>4. /\ e \in Entries
        /\ Present(e) \subseteq Present(Placed(k))
        /\ \A j \in Present(e) : j \in Keys /\ e[j] = Placed(k)[j]
    BY <2>1 DEF EvictOldestEntries, Entries, Present
  <2>. HIDE DEF e
  <2>. QED
    BY <1>3, <1>5, <2>1, <2>3, <2>4 DEF e
<1>. QED
  BY <1>2, <1>4, <1>5, StoreSteps

(* What a step does to the counts: nothing, it forgets some, or one more. *)
LEMMA FillSteps ==
  ASSUME TypeOK, ControlInv, [Next]_vars
  PROVE  /\ \/ UNCHANGED fills
            \/ \E K : ForgetFills(K)
            \/ \E c \in Calls : FactoryReturns(c)
         /\ dropped \subseteq dropped' /\ dropped' \in SUBSET Keys
<1>0. dropped \in SUBSET Keys
  BY DEF TypeOK
<1>1. ASSUME NEW c \in Calls, Progress(c) \/ LookupRejects(c) \/ Rejects(c)
      PROVE  /\ \/ UNCHANGED fills
                \/ \E K : ForgetFills(K)
                \/ FactoryReturns(c)
             /\ dropped \subseteq dropped' /\ dropped' \in SUBSET Keys
  <2>1. CASE Check(c) \/ JudgeAgain(c)
    <3>1. UNCHANGED fills /\ dropped \subseteq dropped'
      BY <2>1 DEF Check, JudgeAgain, Judge
    <3>2. dropped' \in SUBSET Keys
      BY <1>0, <2>1, PresentFinite DEF Check, JudgeAgain, Judge
    <3>. QED
      BY <3>1, <3>2
  <2>2. CASE StoreSet(c) \/ Rejects(c)
    BY <1>0, <2>2 DEF StoreSet, Rejects, Unlocked
  <2>3. CASE FactoryReturns(c)
    BY <1>0, <2>3 DEF FactoryReturns, Unlocked
  <2>. QED
    BY <1>0, <1>1, <2>1, <2>2, <2>3
       DEF Progress, LookupRejects, Lookup, Recheck, StoreGet, Own, Join, AcquireLock,
           LockTimesOut, Release, Cleanup, Unlocked
<1>2. ASSUME NEW c \in Calls, NEW n \in Nodes, NEW k \in Keys, NEW o \in Options,
             Begin(c, n, k, o)
      PROVE  UNCHANGED <<fills, dropped>>
  BY <1>2 DEF Begin, Unlocked
<1>3. CASE \E K \in SUBSET Keys : Invalidate(K)
  BY <1>0, <1>3 DEF Invalidate, Unlocked
<1>4. CASE Tick
  BY <1>0, <1>4 DEF Tick
<1>5. CASE UNCHANGED vars
  BY <1>0, <1>5 DEF vars
<1>. QED
  BY <1>0, <1>1, <1>2, <1>3, <1>4, <1>5 DEF Next

LEMMA NextTyped ==
  ASSUME TypeOK, ControlInv, StoreInv, [Next]_vars
  PROVE  TypeOK'
<1>1. ControlInv' /\ now' \in Nat /\ dropped' \in SUBSET Keys
  BY NextControl, StoreSteps, FillSteps
<1>2. entries' \in Entries /\ older' \in SUBSET (Keys \X Keys)
  BY NextStore
<1>3. fills' \in [Keys -> Nat]
  <2>0. fills \in [Keys -> Nat]
    BY DEF TypeOK
  <2>1. CASE \E K : ForgetFills(K)
    BY <2>0, <2>1 DEF ForgetFills
  <2>2. ASSUME NEW c \in Calls, FactoryReturns(c)
        PROVE  fills' \in [Keys -> Nat]
    <3>1. \/ UNCHANGED fills
          \/ fills' = [fills EXCEPT ![Key(c)] = fills[Key(c)] + 1]
      BY <2>2 DEF FactoryReturns
    <3>. QED
      BY <2>0, <3>1
  <2>. QED
    BY <2>0, <2>1, <2>2, FillSteps
<1>. QED
  BY <1>1, <1>2, <1>3 DEF TypeOK, Entries, ControlInv, PlacesTyped

-----------------------------------------------------------------------------
(* A key stays as it is when no call enters its place under the lock, the    *)
(* count is kept or forgotten, and a fresh entry is lost only with its count. *)
LEMMA FillKept ==
  ASSUME TypeOK, FillInv, NEW k \in Keys, dropped \subseteq dropped',
         k \notin dropped',
         fills'[k] = fills[k] \/ fills'[k] = 0,
         Fresh(k) /\ fills'[k] = 1 => Fresh(k)',
         Fills(k, "store") /\ fills'[k] = 1 => Fills(k, "store")' \/ Fresh(k)',
         Fills(k, "compute")' => Fills(k, "compute") \/ fills'[k] = 0
  PROVE  /\ fills'[k] \in {0, 1}
         /\ fills'[k] = 1 => Fresh(k)' \/ Fills(k, "store")'
         /\ Fills(k, "compute")' => fills'[k] = 0
<1>1. k \in Keys \ dropped
  OBVIOUS
<1>2. /\ fills[k] \in {0, 1}
      /\ fills[k] = 1 => Fresh(k) \/ Fills(k, "store")
      /\ Fills(k, "compute") => fills[k] = 0
  BY <1>1 DEF FillInv
<1>. QED
  BY <1>2

LEMMA FillGoal ==
  ASSUME \A k \in Keys \ dropped' :
           /\ fills'[k] \in {0, 1}
           /\ fills'[k] = 1 => Fresh(k)' \/ Fills(k, "store")'
           /\ Fills(k, "compute")' => fills'[k] = 0
  PROVE  FillInv'
BY DEF FillInv

(* Who fills a key changes only where its holder, or its holder's place, does. *)
LEMMA FillsOfOthers ==
  ASSUME ControlInv, NEW c \in Calls, NEW k \in Keys, holder'[k] = holder[k], holder[k] # c,
         \A d \in Calls \ {c} : pc[d] \in Owning => pc'[d] = pc[d] /\ call'[d] = call[d]
  PROVE  /\ Fills(k, "store")' <=> Fills(k, "store")
         /\ Fills(k, "compute")' <=> Fills(k, "compute")
BY DEF Fills, ControlInv, PlacesTyped, NothingDangles, Owning

LEMMA OthersStay ==
  ASSUME ControlInv, NEW c \in Calls, NEW where, GoTo(c, where)
  PROVE  /\ pc'[c] = where /\ (where # "idle" => call'[c] = call[c])
         /\ \A d \in Calls \ {c} : pc'[d] = pc[d] /\ call'[d] = call[d]
BY DEF GoTo, ControlInv, PlacesTyped

LEMMA HolderPlace ==
  ASSUME ControlInv, NEW k \in Keys, NEW c \in Calls, holder[k] = c
  PROVE  /\ Key(c) = k /\ c # Null
         /\ pc[c] \in {"recheck", "judge", "compute", "store", "release"}
BY CacheAssumption DEF ControlInv, NothingDangles, LocksOfKeys

(* Steps of a call that does not hold the lock of its key and stores nothing. *)
LEMMA WaitingFills ==
  ASSUME TypeOK, ControlInv, FillInv, NEW c \in Calls, NEW where, GoTo(c, where),
         pc[c] \notin {"recheck", "judge", "compute", "store", "release"},
         UNCHANGED <<holder, fills>>, dropped \subseteq dropped',
         \A k \in Keys \ dropped' : Fresh(k) => Fresh(k)'
  PROVE  FillInv'
<1>. SUFFICES ASSUME NEW k \in Keys \ dropped'
              PROVE  /\ fills'[k] \in {0, 1}
                     /\ fills'[k] = 1 => Fresh(k)' \/ Fills(k, "store")'
                     /\ Fills(k, "compute")' => fills'[k] = 0
  BY FillGoal
<1>1. holder[k] # c
  BY HolderPlace
<1>2. /\ Fills(k, "store")' <=> Fills(k, "store")
      /\ Fills(k, "compute")' <=> Fills(k, "compute")
  BY <1>1, OthersStay, FillsOfOthers
<1>. QED
  BY <1>2, FillKept

(* The second look under the lock: it computes only what is not there. *)
LEMMA RecheckFills ==
  ASSUME TypeOK, ControlInv, FillInv, NEW c \in Calls,
         pc[c] \in {"recheck", "judge"},
         \/ GoTo(c, "judge") \/ GoTo(c, "release")
         \/ GoTo(c, "compute") /\ (Key(c) \in dropped' \/ ~Fresh(Key(c))),
         UNCHANGED <<holder, fills>>, dropped \subseteq dropped',
         \A k \in Keys \ dropped' : Fresh(k) => Fresh(k)'
  PROVE  FillInv'
<1>. SUFFICES ASSUME NEW k \in Keys \ dropped'
              PROVE  /\ fills'[k] \in {0, 1}
                     /\ fills'[k] = 1 => Fresh(k)' \/ Fills(k, "store")'
                     /\ Fills(k, "compute")' => fills'[k] = 0
  BY FillGoal
<1>1. CASE holder[k] # c
  <2>1. /\ Fills(k, "store")' <=> Fills(k, "store")
        /\ Fills(k, "compute")' <=> Fills(k, "compute")
    BY <1>1, OthersStay, FillsOfOthers
  <2>. QED
    BY <2>1, FillKept
<1>2. CASE holder[k] = c
  <2>1. Key(c) = k /\ ~Fills(k, "store")
    BY <1>2, HolderPlace DEF Fills
  <2>2. Fills(k, "compute")' => ~Fresh(k)
    BY <1>2, <2>1, OthersStay DEF Fills
  <2>3. fills[k] \in {0, 1} /\ (fills[k] = 1 => Fresh(k))
    BY <2>1 DEF FillInv
  <2>. QED
    BY <2>1, <2>2, <2>3
<1>. QED
  BY <1>1, <1>2

LEMMA AcquireFills ==
  ASSUME TypeOK, ControlInv, FillInv, NEW c \in Calls, AcquireLock(c)
  PROVE  FillInv'
<1>. SUFFICES ASSUME NEW k \in Keys \ dropped'
              PROVE  /\ fills'[k] \in {0, 1}
                     /\ fills'[k] = 1 => Fresh(k)' \/ Fills(k, "store")'
                     /\ Fills(k, "compute")' => fills'[k] = 0
  BY FillGoal
<1>1. /\ pc[c] = "locking" /\ holder[Key(c)] = Null
      /\ holder' = [holder EXCEPT ![Key(c)] = c]
      /\ GoTo(c, IF call[c].force THEN "compute" ELSE "recheck")
      /\ UNCHANGED <<entries, now, fills, dropped>>
  BY DEF AcquireLock
<1>2. Fresh(k)' <=> Fresh(k)
  BY <1>1 DEF Fresh, IsExpired
<1>3. CASE k = Key(c)
  <2>1. holder'[k] = c /\ ~Fills(k, "store")
    BY <1>1, <1>3 DEF TypeOK, Fills
  <2>2. ~Fills(k, "compute")'
    BY <1>1, <2>1, OthersStay DEF Fills
  <2>. QED
    BY <1>1, <1>2, <2>1, <2>2, FillKept
<1>4. CASE k # Key(c)
  <2>1. holder'[k] = holder[k] /\ holder[k] # c
    BY <1>1, <1>4, HolderPlace DEF TypeOK
  <2>2. /\ Fills(k, "store")' <=> Fills(k, "store")
        /\ Fills(k, "compute")' <=> Fills(k, "compute")
    BY <1>1, <2>1, OthersStay, FillsOfOthers
  <2>. QED
    BY <1>1, <1>2, <2>2, FillKept
<1>. QED
  BY <1>3, <1>4

LEMMA FactoryFills ==
  ASSUME TypeOK, ControlInv, FillInv, NEW c \in Calls, FactoryReturns(c)
  PROVE  FillInv'
<1>. SUFFICES ASSUME NEW k \in Keys \ dropped'
              PROVE  /\ fills'[k] \in {0, 1}
                     /\ fills'[k] = 1 => Fresh(k)' \/ Fills(k, "store")'
                     /\ Fills(k, "compute")' => fills'[k] = 0
  BY FillGoal
<1>1. /\ pc[c] = "compute" /\ GoTo(c, "store") /\ Key(c) \in Keys
      /\ fills' = IF holder[Key(c)] = c /\ ~call[c].force
                  THEN [fills EXCEPT ![Key(c)] = @ + 1] ELSE fills
      /\ UNCHANGED <<entries, now, dropped, holder>>
  BY CallFields DEF FactoryReturns, Unlocked, ControlInv
<1>2. Fresh(k)' <=> Fresh(k)
  BY <1>1 DEF Fresh, IsExpired
<1>3. CASE holder[k] = c
  <2>1. k = Key(c) /\ c # Null
    BY <1>3, HolderPlace
  <2>2. CASE call[c].force
    <3>1. /\ fills' = fills /\ ~Fills(k, "store") /\ ~Fills(k, "compute")'
      BY <1>1, <1>3, <2>1, <2>2, OthersStay DEF Fills
    <3>. QED
      BY <1>1, <1>2, <3>1, FillKept
  <2>3. CASE ~call[c].force
    <3>1. Fills(k, "compute")
      BY <1>1, <1>3, <2>1, <2>3 DEF Fills
    <3>2. fills[k] = 0
      BY <1>1, <3>1 DEF FillInv
    <3>3. fills'[k] = 1
      BY <1>1, <1>3, <2>1, <2>3, <3>2 DEF TypeOK
    <3>4. Fills(k, "store")' /\ ~Fills(k, "compute")'
      BY <1>1, <1>3, <2>1, <2>3, OthersStay DEF Fills
    <3>. QED
      BY <3>3, <3>4
  <2>. QED
    BY <2>2, <2>3
<1>4. CASE holder[k] # c
  <2>1. fills'[k] = fills[k]
    BY <1>1, <1>4 DEF TypeOK
  <2>2. /\ Fills(k, "store")' <=> Fills(k, "store")
        /\ Fills(k, "compute")' <=> Fills(k, "compute")
    BY <1>1, <1>4, OthersStay, FillsOfOthers
  <2>. QED
    BY <1>1, <1>2, <2>1, <2>2, FillKept
<1>. QED
  BY <1>3, <1>4

LEMMA StoreFills ==
  ASSUME TypeOK, ControlInv, StoreInv, FillInv, NEW c \in Calls, StoreSet(c)
  PROVE  FillInv'
<1>. SUFFICES ASSUME NEW k \in Keys \ dropped'
              PROVE  /\ fills'[k] \in {0, 1}
                     /\ fills'[k] = 1 => Fresh(k)' \/ Fills(k, "store")'
                     /\ Fills(k, "compute")' => fills'[k] = 0
  BY FillGoal
<1> DEFINE e == EvictOldestEntries(Placed(Key(c)))
<1>1. /\ pc[c] = "store" /\ GoTo(c, "release") /\ Key(c) \in Keys
      /\ entries' = e /\ ForgetFills(Freed(entries'))
      /\ UNCHANGED <<now, dropped, holder>>
  BY CallFields DEF StoreSet, Write, Unlocked, ControlInv
<1>2. /\ fills'[k] = IF k \in Freed(entries') THEN 0 ELSE fills[k]
  BY <1>1 DEF ForgetFills
<1>3. ~Fills(k, "compute")' \/ Fills(k, "compute")
  <2>1. CASE holder[k] = c
    BY <1>1, <2>1, OthersStay DEF Fills
  <2>2. CASE holder[k] # c
    BY <1>1, <2>2, OthersStay, FillsOfOthers
  <2>. QED
    BY <2>1, <2>2
<1>4. CASE k = Key(c)
  <2>1. entries'[k] = CreateCacheEntry
    BY <1>1, <1>4, NewEntryStays
  <2>2. Fresh(k)'
    <3>1. CreateCacheEntry # Null /\ CreateCacheEntry.expiresAt = now + TtlMs
      BY PlacedEntries, <1>4, CacheAssumption DEF CreateCacheEntry
    <3>2. now' = now /\ now \in Nat /\ TtlMs \in Nat \ {0}
      BY <1>1, CacheAssumption DEF TypeOK
    <3>3. ~(now >= now + TtlMs)
      BY <3>2
    <3>. QED
      BY <2>1, <3>1, <3>2, <3>3 DEF Fresh, IsExpired
  <2>. QED
    BY <1>1, <1>2, <1>3, <2>2, FillKept
<1>5. CASE k # Key(c)
  <2>1. Placed(Key(c))[k] = entries[k]
    BY <1>1, <1>5 DEF Placed, TypeOK
  <2>2. entries'[k] = entries[k] \/ entries'[k] = Null
    BY <1>1, <2>1 DEF EvictOldestEntries
  <2>3. Fresh(k) /\ fills'[k] = 1 => Fresh(k)'
    <3>1. CASE entries'[k] = entries[k]
      BY <1>1, <3>1 DEF Fresh, IsExpired
    <3>2. CASE entries'[k] = Null /\ entries[k] # Null
      <4>1. k \in Freed(entries')
        BY <3>2 DEF Freed, Present
      <4>. QED
        BY <1>2, <4>1
    <3>. QED
      BY <2>2, <3>1, <3>2 DEF Fresh
  <2>4. holder[k] # c
    BY <1>5, HolderPlace
  <2>5. Fills(k, "store")' <=> Fills(k, "store")
    BY <1>1, <2>4, OthersStay, FillsOfOthers
  <2>. QED
    BY <1>1, <1>2, <1>3, <2>3, <2>5, FillKept
<1>. QED
  BY <1>4, <1>5

LEMMA EndFills ==
  ASSUME TypeOK, ControlInv, FillInv, NEW c \in Calls, Rejects(c) \/ Release(c)
  PROVE  FillInv'
<1>. SUFFICES ASSUME NEW k \in Keys \ dropped'
              PROVE  /\ fills'[k] \in {0, 1}
                     /\ fills'[k] = 1 => Fresh(k)' \/ Fills(k, "store")'
                     /\ Fills(k, "compute")' => fills'[k] = 0
  BY FillGoal
<1>1. UNCHANGED <<entries, now, dropped>>
  BY DEF Rejects, Release, Unlocked
<1>2. Fresh(k)' <=> Fresh(k)
  BY <1>1 DEF Fresh, IsExpired
<1>3. CASE Rejects(c)
  <2>1. /\ pc[c] \in {"locking", "recheck", "judge", "compute", "store"} /\ GoTo(c, "release")
        /\ UNCHANGED holder
        /\ IF pc[c] = "store" THEN ForgetFills({Key(c)}) ELSE UNCHANGED fills
    BY <1>3 DEF Rejects, Unlocked
  <2>2. CASE holder[k] = c
    <3>1. k = Key(c) /\ ~Fills(k, "compute")'
      BY <2>1, <2>2, HolderPlace, OthersStay DEF Fills
    <3>2. CASE pc[c] = "store"
      BY <2>1, <3>1, <3>2 DEF ForgetFills
    <3>3. CASE pc[c] # "store"
      <4>1. ~Fills(k, "store") /\ fills' = fills
        BY <2>1, <2>2, <3>3 DEF Fills
      <4>. QED
        BY <1>1, <1>2, <3>1, <4>1, FillKept
    <3>. QED
      BY <3>2, <3>3
  <2>3. CASE holder[k] # c
    <3>1. fills'[k] = fills[k] \/ fills'[k] = 0
      BY <2>1 DEF ForgetFills
    <3>2. /\ Fills(k, "store")' <=> Fills(k, "store")
          /\ Fills(k, "compute")' <=> Fills(k, "compute")
      BY <2>1, <2>3, OthersStay, FillsOfOthers
    <3>. QED
      BY <1>1, <1>2, <3>1, <3>2, FillKept
  <2>. QED
    BY <2>2, <2>3
<1>4. CASE Release(c)
  <2>1. /\ pc[c] = "release" /\ flight[c] = Null /\ fills' = fills
        /\ holder'[k] = IF holder[k] = c THEN Null ELSE holder[k]
    BY <1>4 DEF Release, ControlInv, SlotsAgree
  <2>2. CASE holder[k] = c
    <3>1. ~Fills(k, "store") /\ ~Fills(k, "compute")'
      BY <2>1, <2>2 DEF Fills
    <3>. QED
      BY <1>1, <1>2, <2>1, <3>1, FillKept
  <2>3. CASE holder[k] # c
    <3>1. ASSUME NEW d \in Calls \ {c}, pc[d] \in Owning
          PROVE  pc'[d] = pc[d] /\ call'[d] = call[d]
      <4>1. flight[d] = Null /\ c # Null
        BY <3>1, CacheAssumption DEF ControlInv, SlotsAgree, Owning
      <4>. QED
        BY <1>4, <4>1 DEF Release, Settle
    <3>2. /\ Fills(k, "store")' <=> Fills(k, "store")
          /\ Fills(k, "compute")' <=> Fills(k, "compute")
      BY <2>1, <2>3, <3>1, FillsOfOthers
    <3>. QED
      BY <1>1, <1>2, <2>1, <3>2, FillKept
  <2>. QED
    BY <2>2, <2>3
<1>. QED
  BY <1>3, <1>4

LEMMA OutsideFills ==
  ASSUME TypeOK, ControlInv, FillInv,
         \/ \E K \in SUBSET Keys : Invalidate(K)
         \/ Tick
  PROVE  FillInv'
<1>. SUFFICES ASSUME NEW k \in Keys \ dropped'
              PROVE  /\ fills'[k] \in {0, 1}
                     /\ fills'[k] = 1 => Fresh(k)' \/ Fills(k, "store")'
                     /\ Fills(k, "compute")' => fills'[k] = 0
  BY FillGoal
<1>1. UNCHANGED <<pc, call, holder, dropped>>
  BY DEF Invalidate, Tick, Unlocked
<1>2. /\ Fills(k, "store")' <=> Fills(k, "store")
      /\ Fills(k, "compute")' <=> Fills(k, "compute")
  BY <1>1 DEF Fills
<1>3. fills'[k] = fills[k] \/ fills'[k] = 0
  BY DEF Invalidate, Tick, ForgetFills
<1>4. Fresh(k) /\ fills'[k] = 1 => Fresh(k)'
  <2>1. ASSUME NEW K \in SUBSET Keys, Invalidate(K)
        PROVE  Fresh(k) /\ fills'[k] = 1 => Fresh(k)'
    <3>1. /\ entries'[k] = IF k \in K THEN Null ELSE entries[k]
          /\ fills'[k] = IF k \in K THEN 0 ELSE fills[k]
          /\ now' = now
      BY <2>1 DEF Invalidate, Write, Without, ForgetFills, Unlocked
    <3>. QED
      BY <3>1 DEF Fresh, IsExpired
  <2>2. CASE Tick
    <3>1. /\ entries' = entries
          /\ fills'[k] = IF k \in Present(entries) /\ now' >= entries[k].expiresAt
                         THEN 0 ELSE fills[k]
      BY <2>2 DEF Tick, ForgetFills
    <3>. QED
      BY <3>1 DEF Fresh, IsExpired, Present
  <2>. QED
    BY <2>1, <2>2
<1>. QED
  BY <1>1, <1>2, <1>3, <1>4, FillKept

LEMMA NextFills ==
  ASSUME TypeOK, ControlInv, StoreInv, FillInv, [Next]_vars
  PROVE  FillInv'
<1>1. ASSUME UNCHANGED <<entries, now>>
      PROVE  \A k \in Keys : Fresh(k) => Fresh(k)'
  BY <1>1 DEF Fresh, IsExpired
<1>2. ASSUME NEW c \in Calls, Progress(c) \/ LookupRejects(c) \/ Rejects(c)
      PROVE  FillInv'
  <2> DEFINE live == entries[Key(c)] # Null /\ ~IsExpired(entries[Key(c)])
  <2>1. CASE Lookup(c) \/ Recheck(c)
    <3>1. ASSUME NEW k \in Keys, Fresh(k)
          PROVE  Fresh(k)'
      BY <1>1, <2>1, <3>1
         DEF Lookup, Recheck, StoreGet, Untouched, Write, Without, Fresh, IsExpired, Unlocked
    <3>2. CASE Lookup(c)
      <4>1. /\ pc[c] = "get" /\ GoTo(c, IF live THEN "check" ELSE "missed")
            /\ UNCHANGED <<holder, fills, dropped>>
        BY <3>2 DEF Lookup, StoreGet, Unlocked
      <4>. QED
        BY <3>1, <4>1, WaitingFills
    <3>3. CASE Recheck(c)
      <4>1. /\ pc[c] = "recheck" /\ UNCHANGED <<holder, fills, dropped>>
            /\ GoTo(c, "judge") \/ (GoTo(c, "compute") /\ ~Fresh(Key(c)))
        BY <3>3 DEF Recheck, StoreGet, Unlocked, Fresh
      <4>. QED
        BY <3>1, <4>1, RecheckFills
    <3>. QED
      BY <2>1, <3>2, <3>3
  <2>2. CASE Check(c) \/ JudgeAgain(c)
    <3>1. dropped \subseteq dropped' /\ UNCHANGED <<holder, fills, now>>
      BY <2>2 DEF Check, JudgeAgain, Judge
    <3>2. pc[c] # "idle" /\ Key(c) \in Keys
      BY <2>2, CallFields DEF Check, JudgeAgain, ControlInv
    <3>3. CASE ~IsExpired(copy[c])
      <4>1. UNCHANGED <<entries, now, dropped>>
        BY <2>2, <3>3 DEF Check, JudgeAgain, Judge
      <4>2. CASE Check(c)
        <5>1. pc[c] = "check" /\ GoTo(c, "idle")
          BY <3>3, <4>2 DEF Check, Judge
        <5>. QED
          BY <1>1, <3>1, <4>1, <5>1, WaitingFills
      <4>3. CASE JudgeAgain(c)
        <5>1. pc[c] = "judge" /\ GoTo(c, "release")
          BY <3>3, <4>3 DEF JudgeAgain, Judge
        <5>. QED
          BY <1>1, <3>1, <4>1, <5>1, RecheckFills
      <4>. QED
        BY <2>2, <4>2, <4>3
    <3>4. CASE IsExpired(copy[c])
      <4>1. /\ Write(Without({Key(c)}))
            /\ dropped' = dropped \cup
                 {k \in Present(entries) : k = Key(c) /\ ~IsExpired(entries[k])}
        BY <2>2, <3>4 DEF Check, JudgeAgain, Judge
      <4>2. Fresh(Key(c)) => Key(c) \in dropped'
        BY <3>2, <4>1 DEF Fresh, Present
      <4>3. \A k \in Keys \ dropped' : Fresh(k) => Fresh(k)'
        BY <3>1, <4>1, <4>2 DEF Write, Without, Fresh, IsExpired
      <4>4. CASE Check(c)
        <5>1. pc[c] = "check" /\ GoTo(c, "missed")
          BY <3>4, <4>4 DEF Check, Judge
        <5>. QED
          BY <3>1, <4>3, <5>1, WaitingFills
      <4>5. CASE JudgeAgain(c)
        <5>1. pc[c] = "judge" /\ GoTo(c, "compute")
          BY <3>4, <4>5 DEF JudgeAgain, Judge
        <5>. QED
          BY <3>1, <4>2, <4>3, <5>1, RecheckFills
      <4>. QED
        BY <2>2, <4>4, <4>5
    <3>. QED
      BY <3>3, <3>4
  <2>3. CASE LookupRejects(c) \/ Own(c) \/ Join(c) \/ LockTimesOut(c) \/ Cleanup(c)
    <3>1. /\ pc[c] \in {"get", "check", "missed", "locking", "settled"}
          /\ \E where : GoTo(c, where)
          /\ UNCHANGED <<entries, now, holder, fills, dropped>>
      BY <2>3 DEF LookupRejects, Own, Join, LockTimesOut, Cleanup, Unlocked
    <3>. QED
      BY <1>1, <3>1, WaitingFills
  <2>. QED
    BY <1>2, <2>1, <2>2, <2>3, AcquireFills, FactoryFills, StoreFills, EndFills DEF Progress
<1>3. ASSUME UNCHANGED <<entries, now, holder, fills, dropped>>,
             \A k \in Keys : holder[k] # Null =>
               pc'[holder[k]] = pc[holder[k]] /\ call'[holder[k]] = call[holder[k]]
      PROVE  FillInv'
  <2>1. ASSUME NEW k \in Keys
        PROVE  /\ Fresh(k)' <=> Fresh(k)
               /\ Fills(k, "store")' <=> Fills(k, "store")
               /\ Fills(k, "compute")' <=> Fills(k, "compute")
    BY <1>3 DEF Fresh, IsExpired, Fills
  <2>. QED
    BY <1>3, <2>1 DEF FillInv
<1>4. ASSUME NEW c \in Calls, NEW n \in Nodes, NEW k \in Keys, NEW o \in Options,
             Begin(c, n, k, o)
      PROVE  FillInv'
  <2>1. \A j \in Keys : holder[j] # Null => holder[j] \in Calls /\ holder[j] # c
    BY <1>4, HolderPlace DEF Begin, ControlInv, PlacesTyped
  <2>2. \A j \in Keys : holder[j] # Null =>
          pc'[holder[j]] = pc[holder[j]] /\ call'[holder[j]] = call[holder[j]]
    BY <1>4, <2>1 DEF Begin, ControlInv, PlacesTyped
  <2>. QED
    BY <1>3, <1>4, <2>2 DEF Begin, Unlocked
<1>5. CASE UNCHANGED vars
  BY <1>3, <1>5 DEF vars
<1>. QED
  BY <1>2, <1>4, <1>5, OutsideFills DEF Next

-----------------------------------------------------------------------------
LEMMA InitCache == Init => CacheInv
<1>. SUFFICES ASSUME Init PROVE CacheInv
  OBVIOUS
<1>1. Present(entries) = {} /\ Cardinality({}) = 0 /\ MaxEntries \in Nat
  BY CacheAssumption, FS_EmptySet DEF Init, Present
<1>2. TypeOK
  BY CacheAssumption DEF Init, TypeOK
<1>3. StoreInv
  BY <1>1 DEF Init, StoreInv, Lines, WithinMaxEntries
<1>4. FillInv
  BY DEF Init, FillInv, Fills
<1>. QED
  BY <1>2, <1>3, <1>4, InitControl DEF CacheInv

LEMMA AlwaysCacheInv == Spec => []CacheInv
<1>1. CacheInv /\ [Next]_vars => CacheInv'
  BY NextTyped, NextControl, NextStore, NextFills DEF CacheInv
<1>. QED
  BY <1>1, InitCache, PTL DEF Spec

(* One isolate never runs two factories of a key at a time, however its calls *)
(* interleave between the look-up and the map: getOrSet of any isolates.     *)
THEOREM OneFlightPerKey == Spec => []SingleFlight
<1>1. CacheInv => SingleFlight
  BY DEF CacheInv, ControlInv, OwnersListed, SingleFlight
<1>. QED
  BY <1>1, AlwaysCacheInv, PTL

(* Every promise in a map and every lock that is held belongs to a call that  *)
(* will take it away, and the store never holds more than maxEntries entries. *)
THEOREM NothingIsLeft == Spec => []Consistent
<1>1. CacheInv => Consistent
  BY DEF CacheInv, ControlInv, StoreInv, Consistent
<1>. QED
  BY <1>1, AlwaysCacheInv, PTL

(* Under the lock a key is computed once for as long as its entry lives, but  *)
(* for the keys of which a late expiry check has dropped a live entry.       *)
THEOREM LockFillsOnce == Spec => []LockedFillOnce
<1>1. CacheInv => LockedFillOnce
  BY DEF CacheInv, FillInv, LockedFillOnce
<1>. QED
  BY <1>1, AlwaysCacheInv, PTL
=============================================================================
