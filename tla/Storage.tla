------------------------------- MODULE Storage -------------------------------
(***************************************************************************)
(* The object stores of packages/state/storage/mod.ts: in memory, files of a*)
(* directory, and an S3 bucket.  Callers put, delete and clear while one    *)
(* of them lists page by page.  Keys are numbers in their sort order; of an *)
(* object only its presence matters, and of a file whether it is whole:     *)
(* Deno.writeFile truncates and then writes, in place.                      *)
(***************************************************************************)
EXTENDS Integers, SequencesExt

CONSTANTS
  Callers,     \* callers of put, delete and clear
  Keys,        \* object keys
  Prefixed,    \* the keys below the prefix that is listed
  Stores,      \* "memory", "local", "s3"
  MaxObjects,  \* memoryStorageStore's maxObjects
  Limit,       \* the page size of the listing
  None         \* no key, no answer

StorageAssumption ==
  /\ Keys \subseteq Nat /\ Prefixed \subseteq Keys /\ None \notin Keys
  /\ Stores \subseteq {"memory", "local", "s3"}
  /\ MaxObjects \in Nat \ {0} /\ Limit \in Nat \ {0}

VARIABLES
  kind,     \* the store of this run
  object,   \* what the store holds under each key
  order,    \* the memory store's Map order
  pc,       \* where each caller stands
  key,      \* the key each call is about
  todo,     \* the keys clear() has still to remove
  scarred,  \* history: keys whose writes overlapped, were cut off or rejected
  listing   \* the listing: its cursor, page and what it returned

vars == <<kind, object, order, pc, key, todo, scarred, listing>>

Contents == {"absent", "torn", "whole"}
Listing == [at: {"begin", "reading", "between", "end"}, cursor: Keys \cup {None},
            page: Seq(Keys), seen: Seq(Keys), kept: SUBSET Keys, met: SUBSET Keys]

TypeOK ==
  /\ kind \in Stores
  /\ object \in [Keys -> Contents]
  /\ order \in Seq(Keys)
  /\ pc \in [Callers -> {"idle", "writing", "removing", "clearing"}]
  /\ key \in [Callers -> Keys \cup {None}]
  /\ todo \in [Callers -> SUBSET Keys]
  /\ scarred \subseteq Keys
  /\ listing \in Listing

Fresh == [at |-> "begin", cursor |-> None, page |-> <<>>, seen |-> <<>>,
          kept |-> {}, met |-> {}]

Init ==
  /\ kind \in Stores
  /\ object = [k \in Keys |-> "absent"]
  /\ order = <<>>
  /\ pc = [c \in Callers |-> "idle"]
  /\ key = [c \in Callers |-> None]
  /\ todo = [c \in Callers |-> {}]
  /\ scarred = {}
  /\ listing = Fresh

-----------------------------------------------------------------------------
There(o) == {k \in Keys : o[k] # "absent"}
Least(k, S) == k \in S /\ \A j \in S : k <= j

(* What an action makes of the store, and of the history of the listing.    *)
Becomes(o) ==
  /\ object' = o
  /\ listing' = [listing EXCEPT
       !.kept = @ \cap There(o),
       !.met = IF listing.at \in {"begin", "end"} THEN @ ELSE @ \cup There(o)]

Idle(c) ==
  /\ pc' = [pc EXCEPT ![c] = "idle"]
  /\ key' = [key EXCEPT ![c] = None]

-----------------------------------------------------------------------------
(* put *)
Without(s, k) ==
  IF k \in ToSet(s) THEN RemoveAt(s, CHOOSE i \in DOMAIN s : s[i] = k) ELSE s

(* memoryStorageStore: the key moves to the end, and the oldest goes.       *)
EvictOldestObjects(s) ==
  IF Len(s) <= MaxObjects THEN s ELSE SubSeq(s, Len(s) - MaxObjects + 1, Len(s))

MemoryPut(c, k) ==
  /\ kind = "memory" /\ pc[c] = "idle"
  /\ order' = EvictOldestObjects(Append(Without(order, k), k))
  /\ LET o == [j \in Keys |-> IF j \in ToSet(order') THEN "whole" ELSE "absent"] IN
       Becomes(o)
  /\ Idle(c)
  /\ UNCHANGED <<kind, todo, scarred>>

S3Put(c, k) ==
  /\ kind = "s3" /\ pc[c] = "idle"
  /\ Becomes([object EXCEPT ![k] = "whole"])
  /\ Idle(c)
  /\ UNCHANGED <<kind, order, todo, scarred>>

(* writeFile truncates the file and writes it; two at once may leave the    *)
(* tail of the longer record behind the shorter one.                        *)
Writers(k) == {c \in Callers : pc[c] = "writing" /\ key[c] = k}

LocalPut(c, k) ==
  /\ kind = "local" /\ pc[c] = "idle"
  /\ pc' = [pc EXCEPT ![c] = "writing"]
  /\ key' = [key EXCEPT ![c] = k]
  /\ scarred' = IF Writers(k) = {} THEN scarred \ {k} ELSE scarred \cup {k}
  /\ Becomes([object EXCEPT ![k] = "torn"])
  /\ UNCHANGED <<kind, order, todo>>

Mut_WriteWithoutTruncate(c) ==
  /\ pc[c] = "writing"
  /\ \E content \in {"whole", "torn"} :
       Becomes([object EXCEPT ![key[c]] = content])
  /\ scarred' = scarred
  /\ Idle(c)
  /\ UNCHANGED <<kind, order, todo>>

(* A file that was removed since it was opened stays away.                  *)
LocalPutWritten(c) ==
  /\ pc[c] = "writing"
  /\ LET k == key[c] IN
       \E content \in {IF object[k] = "absent" THEN "absent" ELSE "whole"}
                        \cup (IF k \in scarred THEN {object[k]} ELSE {}) :
         Becomes([object EXCEPT ![k] = content])
  /\ scarred' = IF object'[key[c]] = "whole" /\ Writers(key[c]) = {c}
                THEN scarred \ {key[c]} ELSE scarred
  /\ Idle(c)
  /\ UNCHANGED <<kind, order, todo>>

(* The write rejects after it has truncated: the disk is full, or fails.  What *)
(* there is of the file stays.                                               *)
LocalPutRejected(c) ==
  /\ pc[c] = "writing"
  /\ LET k == key[c] IN
       /\ \E content \in IF object[k] = "absent" THEN {"absent"} ELSE {"torn", "whole"} :
            Becomes([object EXCEPT ![k] = content])
       /\ scarred' = scarred \cup {k}
  /\ Idle(c)
  /\ UNCHANGED <<kind, order, todo>>

-----------------------------------------------------------------------------
(* delete: the memory store answers what it did; the others look first, and *)
(* then remove whatever is there by that time, the S3 store in any case, the *)
(* local one if it could read a record.                                     *)
MemoryDelete(c, k) ==
  /\ kind = "memory" /\ pc[c] = "idle"
  /\ order' = Without(order, k)
  /\ Becomes([object EXCEPT ![k] = "absent"])
  /\ Idle(c)
  /\ UNCHANGED <<kind, todo, scarred>>

DeleteLooks(c, k) ==
  /\ kind # "memory" /\ pc[c] = "idle" /\ (kind = "s3" \/ object[k] = "whole")
  /\ pc' = [pc EXCEPT ![c] = "removing"]
  /\ key' = [key EXCEPT ![c] = k]
  /\ UNCHANGED <<kind, object, order, todo, scarred, listing>>

DeleteRemoves(c) ==
  /\ pc[c] = "removing"
  /\ Becomes([object EXCEPT ![key[c]] = "absent"])
  /\ Idle(c)
  /\ UNCHANGED <<kind, order, todo, scarred>>

(* clear: the memory store at once, the local one file by file as listed;   *)
(* the S3 store has none.                                                   *)
MemoryClear(c) ==
  /\ kind = "memory" /\ pc[c] = "idle"
  /\ order' = <<>>
  /\ Becomes([k \in Keys |-> "absent"])
  /\ Idle(c)
  /\ UNCHANGED <<kind, todo, scarred>>

LocalClear(c) ==
  /\ kind = "local" /\ pc[c] = "idle"
  /\ pc' = [pc EXCEPT ![c] = "clearing"]
  /\ todo' = [todo EXCEPT ![c] = There(object)]
  /\ \E k \in There(object) : Least(k, There(object)) /\ key' = [key EXCEPT ![c] = k]
  /\ UNCHANGED <<kind, object, order, scarred, listing>>

LocalClearRemoves(c) ==
  /\ pc[c] = "clearing"
  /\ LET rest == todo[c] \ {key[c]}
         o == [object EXCEPT ![key[c]] = "absent"] IN
       /\ Becomes(o)
       /\ todo' = [todo EXCEPT ![c] = rest]
       /\ \/ rest = {} /\ Idle(c)
          \/ /\ \E k \in rest : Least(k, rest) /\ key' = [key EXCEPT ![c] = k]
             /\ UNCHANGED pc
  /\ UNCHANGED <<kind, order, scarred>>

(* The process of the local store dies: what it wrote stays as it is.       *)
Crash ==
  /\ kind = "local" /\ \E c \in Callers : pc[c] # "idle"
  /\ scarred' = scarred \cup {key[c] : c \in {c \in Callers : pc[c] = "writing"}}
  /\ pc' = [c \in Callers |-> "idle"]
  /\ key' = [c \in Callers |-> None]
  /\ todo' = [c \in Callers |-> {}]
  /\ listing' = Fresh
  /\ UNCHANGED <<kind, object, order>>

-----------------------------------------------------------------------------
(* list: the keys below the prefix in order, from the cursor on.            *)
Mut_AfterCursor(keys, cursor) == {k \in keys : cursor # None => k > cursor}

(* getCursorStartIndex: at the cursor's key, or at the next one that is left. *)
FromCursor(keys, cursor) == {k \in keys : cursor # None => k >= cursor}

Available == FromCursor(There(object) \cap Prefixed, listing.cursor)

(* The page of the first Limit keys, sorted, and the key that follows it.   *)
Ascending(p) == \A i, j \in DOMAIN p : i < j => p[i] < p[j]
Pages(keys) ==
  {p \in UNION {[1..n -> keys] : n \in 0..Limit} :
     /\ Ascending(p)
     /\ \A k \in keys \ ToSet(p) : Len(p) = Limit /\ \A i \in DOMAIN p : p[i] < k}
NextCursors(keys) == IF keys = {} THEN {None} ELSE {k \in keys : Least(k, keys)}

(* The first page fixes what is there from the start.                       *)
Opened == IF listing.at = "begin"
          THEN [listing EXCEPT !.kept = There(object) \cap Prefixed, !.met = There(object)]
          ELSE listing

(* Memory and S3 answer a page at once.                                     *)
ListPage ==
  /\ kind # "local" /\ listing.at \in {"begin", "between"}
  /\ \E page \in Pages(Available) : \E next \in NextCursors(Available \ ToSet(page)) :
       listing' = [Opened EXCEPT !.seen = @ \o page, !.cursor = next,
                                 !.at = IF next = None THEN "end" ELSE "between"]
  /\ UNCHANGED <<kind, object, order, pc, key, todo, scarred>>

(* The local store reads the directory, then each record of the page.       *)
LocalListPage ==
  /\ kind = "local" /\ listing.at \in {"begin", "between"}
  /\ \E page \in Pages(Available) : \E next \in NextCursors(Available \ ToSet(page)) :
       listing' = [Opened EXCEPT !.page = page, !.cursor = next, !.at = "reading"]
  /\ UNCHANGED <<kind, object, order, pc, key, todo, scarred>>

LocalListReads ==
  /\ listing.at = "reading" /\ listing.page # <<>> /\ object[Head(listing.page)] # "torn"
  /\ listing' = [listing EXCEPT !.page = Tail(@),
       !.seen = IF object[Head(listing.page)] = "whole" THEN Append(@, Head(listing.page)) ELSE @]
  /\ UNCHANGED <<kind, object, order, pc, key, todo, scarred>>

LocalListPageDone ==
  /\ listing.at = "reading" /\ listing.page = <<>>
  /\ listing' = [listing EXCEPT !.at = IF listing.cursor = None THEN "end" ELSE "between"]
  /\ UNCHANGED <<kind, object, order, pc, key, todo, scarred>>

(* A torn record fails the page; a listing that failed or ended starts over. *)
ListAgain ==
  /\ \/ listing.at = "end"
     \/ listing.at = "reading" /\ listing.page # <<>> /\ object[Head(listing.page)] = "torn"
  /\ listing' = Fresh
  /\ UNCHANGED <<kind, object, order, pc, key, todo, scarred>>

Next ==
  \/ \E c \in Callers, k \in Keys :
       \/ MemoryPut(c, k)
       \/ S3Put(c, k)
       \/ LocalPut(c, k)
       \/ MemoryDelete(c, k)
       \/ DeleteLooks(c, k)
  \/ \E c \in Callers :
       \/ LocalPutWritten(c)
       \/ LocalPutRejected(c)
       \/ DeleteRemoves(c)
       \/ MemoryClear(c)
       \/ LocalClear(c)
       \/ LocalClearRemoves(c)
  \/ Crash
  \/ ListPage \/ LocalListPage \/ LocalListReads \/ LocalListPageDone \/ ListAgain

Spec == Init /\ [][Next]_vars

-----------------------------------------------------------------------------
(* A listing that follows its cursors returns every key that was there all  *)
(* the while, each once and in order, and nothing that never was.           *)
ListingComplete ==
  /\ Ascending(listing.seen)
  /\ ToSet(listing.seen) \subseteq listing.met \cap Prefixed
  /\ listing.at = "end" => listing.kept \subseteq ToSet(listing.seen)

(* A file no put is writing is whole, unless the puts of its key since it was  *)
(* last truncated by one alone overlapped, or one of them was rejected or died  *)
(* with its process: only then does a record stay unreadable.                *)
TornNeedsCause ==
  \A k \in Keys : object[k] = "torn" /\ Writers(k) = {} => k \in scarred
=============================================================================
