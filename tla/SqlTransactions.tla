--------------------------- MODULE SqlTransactions ---------------------------
(***************************************************************************)
(* transaction() and execute() of the SQL executors that the ORM and the    *)
(* migrator run on (packages/data/orm and packages/data/migrate, postgres   *)
(* and sqlite executor.ts).  An executor has one #transactionClient for all *)
(* its callers, over a pool or over the one client it was given; SQLite has  *)
(* one database handle.  Calls are split at their awaits, and every call is  *)
(* made once.                                                                *)
(***************************************************************************)
EXTENDS Naturals, FiniteSets
LOCAL INSTANCE TLC

CONSTANTS
  Calls,     \* calls of transaction() and execute()
  Conns,     \* connections of the pool; one of them serves where there is one
  None,      \* no connection
  Kinds,     \* the executors: PostgreSQL on a "pool" or a "client", and "sqlite"
  MaxWrites  \* bound: writes of a transaction's callback

ASSUME SqlAssumption ==
  /\ None \notin Conns
  /\ Conns # {}
  /\ Kinds \subseteq {"pool", "client", "sqlite"}
  /\ MaxWrites \in Nat \ {0}

VARIABLES
  kind,       \* which executor this is
  handle,     \* #transactionClient
  free,       \* the pool's idle connections
  open,       \* connections on which a transaction is open
  aborted,    \* connections whose open transaction PostgreSQL has aborted
  pending,    \* what each open transaction has written
  committed,  \* what is written for good
  pc,         \* the await each call stands at, or its outcome
  own,        \* the connection each transaction() call began on
  wrote,      \* how often each call has written
  alone,      \* history: calls that no other call overlapped
  fate,       \* history: what failing statements did to each call's transaction
  unsure      \* history: calls whose write or commit lost its answer

vars ==
  <<kind, handle, free, open, aborted, pending, committed, pc, own, wrote, alone, fate, unsure>>

Writes == Calls \X (1..MaxWrites)
Settled == {"ok", "failed"}
Active(c) == pc[c] \notin {"idle"} \cup Settled

(* A transaction is whole while no statement of it has failed.  PostgreSQL    *)
(* aborts it when one does; it is lost with its connection, or when SQLite     *)
(* rolls it back by itself, and astray when its callback writes on after that. *)
Fates == {"whole", "aborted", "lost", "astray"}

TypeOK ==
  /\ kind \in Kinds
  /\ handle \in Conns \cup {None}
  /\ free \subseteq Conns
  /\ open \subseteq Conns
  /\ aborted \subseteq open
  /\ pending \in [Conns -> SUBSET Writes]
  /\ committed \subseteq Writes
  /\ pc \in [Calls -> Settled \cup {"idle", "connect", "begin", "refused", "execute",
                                    "fn", "done", "undone"}]
  /\ own \in [Calls -> Conns \cup {None}]
  /\ wrote \in [Calls -> 0..MaxWrites]
  /\ alone \subseteq Calls
  /\ fate \in [Calls -> Fates]
  /\ unsure \subseteq Calls

Init ==
  /\ kind \in Kinds
  /\ handle = None
  /\ free = Conns
  /\ open = {}
  /\ aborted = {}
  /\ pending = [k \in Conns |-> {}]
  /\ committed = {}
  /\ pc = [c \in Calls |-> "idle"]
  /\ own = [c \in Calls |-> None]
  /\ wrote = [c \in Calls |-> 0]
  /\ alone = Calls
  /\ fate = [c \in Calls |-> "whole"]
  /\ unsure = {}

-----------------------------------------------------------------------------
GoTo(c, where) == pc' = [pc EXCEPT ![c] = where]

(* SQLite's one database handle, or the one client of the executor. *)
Database == CHOOSE k \in Conns : TRUE

(* A call begins: it and the calls under way overlap from now on. *)
Begins(c) ==
  /\ pc[c] = "idle"
  /\ LET others == {d \in Calls : Active(d)}
     IN  alone' = IF others = {} THEN alone ELSE alone \ (others \cup {c})
  /\ UNCHANGED <<kind, wrote, fate, unsure, aborted, committed, pending>>

(* PostgreSQL: with a transaction client set, the callback simply joins. *)
PgTransaction(c) ==
  /\ kind # "sqlite"
  /\ Begins(c)
  /\ GoTo(c, IF handle = None THEN "connect" ELSE "fn")
  /\ UNCHANGED <<handle, free, open, own>>

(* #acquireClient has resolved: the client becomes everybody's, begin is sent. *)
(* The one client is had at once, whoever uses it: a begin inside a            *)
(* transaction only warns, inside an aborted one it is refused.               *)
Connect(c) ==
  /\ pc[c] = "connect"
  /\ \E k \in IF kind = "client" THEN {Database} ELSE free :
       /\ free' = IF kind = "client" THEN free ELSE free \ {k}
       /\ own' = [own EXCEPT ![c] = k]
       /\ handle' = k
       /\ open' = open \cup {k}
       /\ GoTo(c, IF k \in aborted THEN "refused" ELSE "begin")
  /\ UNCHANGED <<kind, aborted, pending, committed, wrote, alone, fate, unsure>>

ConnectFails(c) ==
  /\ pc[c] = "connect" /\ kind = "pool"
  /\ GoTo(c, "failed")
  /\ UNCHANGED <<kind, handle, free, open, aborted, pending, committed, own, wrote, alone,
                 fate, unsure>>

(* The one client is had within the microtasks of the call, before any answer. *)
NobodyConnects == kind = "client" => \A d \in Calls : pc[d] # "connect"

BeginReturns(c) ==
  /\ pc[c] = "begin" /\ NobodyConnects
  /\ GoTo(c, "fn")
  /\ UNCHANGED <<kind, handle, free, open, aborted, pending, committed, own, wrote, alone,
                 fate, unsure>>

(* The transaction open on k is gone, and with it what it wrote. *)
Loses(k) ==
  /\ open' = open \ {k}
  /\ aborted' = aborted \ {k}
  /\ pending' = [pending EXCEPT ![k] = {}]
  /\ fate' = [d \in Calls |->
                IF own[d] = k /\ fate[d] # "astray" THEN "lost" ELSE fate[d]]

(* begin rejects because the connection is gone, and the transaction with it,  *)
(* or because another call's transaction there was aborted: finally runs at    *)
(* once.                                                                      *)
BeginFails(c) ==
  /\ pc[c] \in {"begin", "refused"} /\ NobodyConnects
  /\ IF pc[c] = "begin" THEN Loses(own[c]) ELSE UNCHANGED <<open, aborted, pending, fate>>
  /\ handle' = None
  /\ free' = free \cup {own[c]}
  /\ own' = [own EXCEPT ![c] = None]
  /\ GoTo(c, "failed")
  /\ UNCHANGED <<kind, committed, wrote, alone, unsure>>

(* SQLite: begin on the one handle, which a transaction under way refuses. *)
SqliteTransaction(c) ==
  /\ kind = "sqlite"
  /\ Begins(c)
  /\ IF Database \in open
     THEN GoTo(c, "failed") /\ UNCHANGED <<open, own>>
     ELSE /\ open' = open \cup {Database}
          /\ own' = [own EXCEPT ![c] = Database]
          /\ GoTo(c, "fn")
  /\ UNCHANGED <<handle, free>>

Statement(c) ==
  /\ Begins(c)
  /\ GoTo(c, "execute")
  /\ UNCHANGED <<handle, free, open, own>>

-----------------------------------------------------------------------------
(* Where execute sends a statement: to the transaction client if there is one, *)
(* else to a connection of the pool.                                         *)
Targets ==
  IF kind # "pool" THEN {Database} ELSE IF handle # None THEN {handle} ELSE free

(* A write belongs to the transaction that is open where it goes; an aborted   *)
(* one takes none.                                                           *)
Write(c) ==
  /\ pc[c] \in {"fn", "execute"} /\ wrote[c] < MaxWrites
  /\ wrote' = [wrote EXCEPT ![c] = @ + 1]
  /\ fate' = [fate EXCEPT ![c] = IF @ = "lost" THEN "astray" ELSE @]
  /\ \E k \in Targets \ aborted :
       IF k \in open
       THEN /\ pending' = [pending EXCEPT ![k] = @ \cup {<<c, wrote'[c]>>}]
            /\ UNCHANGED committed
       ELSE committed' = committed \cup {<<c, wrote'[c]>>} /\ UNCHANGED pending
  /\ GoTo(c, IF pc[c] = "execute" THEN "ok" ELSE "fn")
  /\ UNCHANGED <<kind, handle, free, open, aborted, own, alone, unsure>>

(* What a failing statement does to the transaction open where it went, its    *)
(* caller's or another's: PostgreSQL aborts it, and only SQLite undoes no more  *)
(* than the statement; or the transaction is gone altogether.                 *)
Disturbs(k) ==
  /\ k \in open
  /\ \/ /\ kind # "sqlite"
        /\ aborted' = aborted \cup {k}
        /\ fate' = [d \in Calls |->
                      IF own[d] = k /\ fate[d] = "whole" THEN "aborted" ELSE fate[d]]
        /\ UNCHANGED <<open, pending>>
     \/ Loses(k)

(* A statement of a callback fails, and the callback catches it. *)
WriteFails(c) ==
  /\ pc[c] = "fn"
  /\ \E k \in Targets : Disturbs(k)
  /\ UNCHANGED <<kind, handle, free, committed, pc, own, wrote, alone, unsure>>

(* A statement of its own fails: within another call's transaction, without    *)
(* effect, or written and its answer lost.                                    *)
StatementFails(c) ==
  /\ pc[c] = "execute"
  /\ GoTo(c, "failed")
  /\ \E k \in Targets :
       \/ Disturbs(k) /\ UNCHANGED <<committed, wrote, unsure>>
       \/ UNCHANGED <<open, aborted, pending, fate, committed, wrote, unsure>>
       \/ /\ k \notin open
          /\ committed' = committed \cup {<<c, 1>>}
          /\ wrote' = [wrote EXCEPT ![c] = 1]
          /\ unsure' = unsure \cup {c}
          /\ UNCHANGED <<open, aborted, pending, fate>>
  /\ UNCHANGED <<kind, handle, free, own, alone>>

(* commit or rollback on the call's own connection. *)
Ends(c, W) ==
  /\ own[c] # None
  /\ committed' = committed \cup W
  /\ pending' = [pending EXCEPT ![own[c]] = {}]
  /\ open' = open \ {own[c]}
  /\ aborted' = aborted \ {own[c]}

(* What a commit there makes good: nothing of an aborted transaction. *)
Commits(c) == IF own[c] \in aborted THEN {} ELSE pending[own[c]]

(* commit resolves, for an aborted transaction that it rolls back as well; only *)
(* SQLite rejects it where none is open.                                      *)
FnReturns(c) ==
  /\ pc[c] = "fn"
  /\ IF own[c] = None
     THEN GoTo(c, "ok") /\ UNCHANGED <<committed, pending, open, aborted>>
     ELSE /\ kind = "sqlite" => own[c] \in open
          /\ GoTo(c, "done") /\ Ends(c, Commits(c))
  /\ UNCHANGED <<kind, handle, free, own, wrote, alone, fate, unsure>>

(* commit rejects, with or without its effect; what is left is rolled back. *)
CommitFails(c) ==
  /\ pc[c] = "fn"
  /\ \/ Ends(c, {}) /\ UNCHANGED unsure
     \/ Ends(c, Commits(c)) /\ unsure' = unsure \cup {c}
  /\ GoTo(c, "undone")
  /\ UNCHANGED <<kind, handle, free, own, wrote, alone, fate>>

Mut_ThrowWithoutRollback(c) ==
  /\ pc[c] = "fn"
  /\ GoTo(c, IF own[c] = None THEN "failed" ELSE "undone")
  /\ UNCHANGED <<kind, handle, free, open, aborted, pending, committed, own, wrote, alone,
                 fate, unsure>>

Mut_ThrowCommits(c) ==
  /\ pc[c] = "fn"
  /\ IF own[c] = None
     THEN GoTo(c, "failed") /\ UNCHANGED <<committed, pending, open, aborted>>
     ELSE GoTo(c, "undone") /\ Ends(c, pending[own[c]])
  /\ UNCHANGED <<kind, handle, free, own, wrote, alone, fate, unsure>>

(* The callback throws: rollback.  A rollback that fails has lost its          *)
(* connection, which has the same effect.                                    *)
FnThrows(c) ==
  /\ pc[c] = "fn"
  /\ IF own[c] = None
     THEN GoTo(c, "failed") /\ UNCHANGED <<committed, pending, open, aborted>>
     ELSE GoTo(c, "undone") /\ Ends(c, {})
  /\ UNCHANGED <<kind, handle, free, own, wrote, alone, fate, unsure>>

Mut_FinallyKeepsClient(c) ==
  /\ pc[c] \in {"done", "undone"}
  /\ GoTo(c, IF pc[c] = "done" THEN "ok" ELSE "failed")
  /\ handle' = None
  /\ own' = [own EXCEPT ![c] = None]
  /\ UNCHANGED <<kind, free, open, aborted, pending, committed, wrote, alone, fate, unsure>>

(* finally: nobody has a transaction client any more. *)
Finally(c) ==
  /\ pc[c] \in {"done", "undone"}
  /\ GoTo(c, IF pc[c] = "done" THEN "ok" ELSE "failed")
  /\ handle' = None
  /\ free' = free \cup {own[c]}
  /\ own' = [own EXCEPT ![c] = None]
  /\ UNCHANGED <<kind, open, aborted, pending, committed, wrote, alone, fate, unsure>>

Progress(c) ==
  \/ Connect(c) \/ BeginReturns(c) \/ Write(c) \/ FnReturns(c) \/ Finally(c)

Failure(c) ==
  \/ ConnectFails(c) \/ BeginFails(c) \/ WriteFails(c) \/ StatementFails(c)
  \/ CommitFails(c) \/ FnThrows(c)

Next ==
  \E c \in Calls :
    \/ PgTransaction(c) \/ SqliteTransaction(c) \/ Statement(c)
    \/ Progress(c) \/ Failure(c)

Spec == Init /\ [][Next]_vars

-----------------------------------------------------------------------------
(* A connection that goes back to the pool has no transaction open and nothing *)
(* pending, however the calls overlap and fail, and no connection gets lost.   *)
PoolIsClean ==
  kind = "pool" =>
    /\ free \cap open = {}
    /\ \A k \in free : pending[k] = {}
    /\ \A k \in Conns \ free : Cardinality({c \in Calls : own[c] = k}) = 1

Done(c) == {<<c, i>> : i \in 1..wrote[c]}
Anywhere == committed \cup UNION {pending[k] : k \in Conns}

(* A call that no other call overlaps is all or nothing, whatever ran on the   *)
(* executor before it.  All that it wrote is there for good if it succeeds and *)
(* no statement of it failed.  Nothing is there if it fails, unless its answer *)
(* was lost, and also if it succeeds where its callback caught a failure that  *)
(* had aborted or lost the transaction: then only what it writes after the loss *)
(* is left.                                                                  *)
AtomicWhenAlone ==
  \A c \in alone :
    /\ pc[c] = "ok" /\ fate[c] = "whole" => Done(c) \subseteq committed
    /\ \/ pc[c] = "failed" /\ c \notin unsure /\ fate[c] = "whole"
       \/ pc[c] \in Settled /\ fate[c] \in {"aborted", "lost"}
       => Done(c) \cap Anywhere = {}

(* What the README of the ORM says of every transaction: ROLLBACK if fn throws. *)
RollbackUndoes ==
  \A c \in Calls :
    pc[c] = "failed" /\ c \notin unsure /\ fate[c] = "whole" => Done(c) \cap committed = {}

(* A statement always has somewhere to go: the connections are never all held *)
(* by transactions whose callbacks wait for one.                             *)
SomewhereToSend == \A c \in Calls : pc[c] \in {"fn", "execute"} => Targets # {}

(* The calls are alike, whichever is named first. *)
CallSymmetry == Permutations(Calls)
=============================================================================
