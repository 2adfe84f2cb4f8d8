----------------------------- MODULE JobListing -----------------------------
(***************************************************************************)
(* A job listing of packages/async/jobs that follows its cursors from page  *)
(* to page, while jobs are enqueued and deleted: by memoryJobStore, which   *)
(* sorts by creation and id, and by the PostgreSQL store, which sorts by id.*)
(* Ids are numbers in their sort order, the same one in both stores.  The   *)
(* filters only choose the jobs to look at, and are left out.               *)
(***************************************************************************)
EXTENDS Integers, SequencesExt

CONSTANTS
  JobIds,     \* ids of jobs
  PageSize,   \* JobListOptions.limit
  Stores,     \* the stores that are listed: "memory", "postgres"
  MaxSeen,    \* bound: jobs the caller looks at
  None        \* no cursor

ListingAssumption ==
  /\ JobIds \subseteq Nat /\ None \notin JobIds
  /\ PageSize \in Nat \ {0} /\ MaxSeen \in Nat
  /\ Stores \subseteq {"memory", "postgres"}

VARIABLES
  store,      \* the store of this run
  enqueued,   \* the jobs of the store, in the order of their creation
  at,         \* "begin", "between" two pages, or "end"
  cursor,     \* JobListResult.cursor of the last page
  seen,       \* history: the jobs the pages held
  kept        \* history: the jobs there from the first page on

vars == <<store, enqueued, at, cursor, seen, kept>>

TypeOK ==
  /\ store \in Stores
  /\ enqueued \in Seq(JobIds)
  /\ at \in {"begin", "between", "end"}
  /\ cursor \in JobIds \cup {None}
  /\ seen \in Seq(JobIds)
  /\ kept \subseteq JobIds

Init ==
  /\ store \in Stores
  /\ enqueued = <<>>
  /\ at = "begin" /\ cursor = None
  /\ seen = <<>> /\ kept = {}

(* Every job has a creation time of its own, and ids come in any order.     *)
Enqueue(i) ==
  /\ i \notin ToSet(enqueued) \cup ToSet(seen)
  /\ enqueued' = Append(enqueued, i)
  /\ UNCHANGED <<store, at, cursor, seen, kept>>

Delete(i) ==
  /\ enqueued' = RemoveAt(enqueued, i)
  /\ kept' = kept \ {enqueued[i]}
  /\ UNCHANGED <<store, at, cursor, seen>>

-----------------------------------------------------------------------------
(* One page: the jobs it holds, and the cursor it returns if there is more. *)
Turn(page, next) ==
  /\ at # "end" /\ Len(seen) < MaxSeen
  /\ seen' = seen \o page
  /\ cursor' = next
  /\ at' = IF next = None THEN "end" ELSE "between"
  /\ kept' = IF at = "begin" THEN ToSet(enqueued) ELSE kept
  /\ UNCHANGED <<store, enqueued>>

(* memoryJobStore.list: the cursor names the first job of the next page,    *)
(* and the next page starts after the job the cursor names.                 *)
AfterCursor(jobs) ==
  IF cursor \in ToSet(jobs)
  THEN SubSeq(jobs, (CHOOSE i \in DOMAIN jobs : jobs[i] = cursor) + 1, Len(jobs))
  ELSE jobs

MemoryList ==
  /\ store = "memory"
  /\ LET available == AfterCursor(enqueued) IN
       IF Len(available) <= PageSize THEN Turn(available, None)
       ELSE Turn(SubSeq(available, 1, PageSize), available[PageSize + 1])

(* listSql: id > cursor, by id, one row more than the page; the cursor names *)
(* the last job of the page.                                                *)
Available == {i \in ToSet(enqueued) : cursor # None => i > cursor}

ListSql(ids) ==
  {p \in UNION {[1..n -> ids] : n \in 0..PageSize} :
     /\ \A i, j \in DOMAIN p : i < j => p[i] < p[j]
     /\ \A id \in ids \ ToSet(p) : Len(p) = PageSize /\ \A i \in DOMAIN p : p[i] < id}

PostgresList ==
  /\ store = "postgres"
  /\ \E page \in ListSql(Available) :
       Turn(page, IF Available = ToSet(page) THEN None ELSE Last(page))

Next ==
  \/ \E i \in JobIds : Enqueue(i)
  \/ \E i \in DOMAIN enqueued : Delete(i)
  \/ MemoryList
  \/ PostgresList

Spec == Init /\ [][Next]_vars

-----------------------------------------------------------------------------
(* A caller who follows the cursors to the end has met every job that was   *)
(* there from the first page on, and no job twice.                          *)
PagesMissNothing ==
  /\ IsInjective(seen)
  /\ at = "end" => kept \subseteq ToSet(seen)

(* The PostgreSQL store keeps that promise.                                 *)
PostgresPagesMissNothing == store = "postgres" => PagesMissNothing
=============================================================================
