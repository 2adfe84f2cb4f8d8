----------------------------- MODULE MCStateSuite -----------------------------
(***************************************************************************)
(* Three components that share nothing - the sessions, the object stores    *)
(* and the job listing: component says which of them acts, the others stay  *)
(* where they begin.  MCSafetySuite adds the algorithms.                    *)
(***************************************************************************)
EXTENDS Session

CONSTANTS
  CacheIds,                                              \* bound: ids over the cache store
  Callers, Keys, Prefixed, ObjectStores, MaxObjects, Limit, \* of the object stores
  JobIds, PageSize, JobStores, MaxSeen,                  \* of the job listing
  Nothing

VARIABLES
  component,
  kind, object, order, place, key, todo, scarred, listing,
  store, enqueued, at, cursor, seen, kept

OS == INSTANCE Storage WITH Stores <- ObjectStores, pc <- place, None <- Nothing
JL == INSTANCE JobListing WITH Stores <- JobStores, None <- Nothing

ASSUME StateAssumption == OS!StorageAssumption /\ JL!ListingAssumption

(* Every store, rolling or not.                                             *)
SomeManagers ==
  {[store |-> "memory", rolling |-> TRUE, maxAgeMs |-> 1],
   [store |-> "cache", rolling |-> FALSE, maxAgeMs |-> 1],
   [store |-> "noop", rolling |-> FALSE, maxAgeMs |-> 0]}

storageVars == <<kind, object, order, place, key, todo, scarred, listing>>
listingVars == <<store, enqueued, at, cursor, seen, kept>>
stateVars == <<component, vars, storageVars, listingVars>>

StateInit ==
  /\ component \in {"sessions", "storage", "jobs", "algorithms"}
  /\ Init /\ OS!Init /\ JL!Init
  /\ component # "sessions" => manager.store = "noop"
  /\ component # "storage" => kind = "s3"
  /\ component # "jobs" => store = "postgres"

(* The cache store evicts nothing, so that its ids are fewer. *)
SessionsAct ==
  /\ component = "sessions" /\ Next
  /\ manager.store = "cache" => issued' <= CacheIds
  /\ UNCHANGED <<component, storageVars, listingVars>>
StorageActs ==
  component = "storage" /\ OS!Next /\ UNCHANGED <<component, vars, listingVars>>
JobsAct ==
  component = "jobs" /\ JL!Next /\ UNCHANGED <<component, vars, storageVars>>

StateNext == SessionsAct \/ StorageActs \/ JobsAct

StateSpec == StateInit /\ [][StateNext]_stateVars

-----------------------------------------------------------------------------
(* Records, pages, cursors and histories stay what they are declared to be, *)
(* whatever callers interleave and however the local store's writes tear.   *)
TypesOK == TypeOK /\ OS!TypeOK /\ JL!TypeOK

(* Who follows a listing's cursors to its end meets everything that was     *)
(* there all along, and nothing twice, while others put and delete: in the  *)
(* object stores, and in the PostgreSQL job store.                          *)
ListingsMissNothing == OS!ListingComplete /\ JL!PostgresPagesMissNothing

(* A file of the local store is torn only by writes that overlapped, were   *)
(* cut off or were rejected.                                                *)
TornNeedsCause == OS!TornNeedsCause
=============================================================================
