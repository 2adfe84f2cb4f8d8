------------------------ MODULE SqlTransactionsProofs ------------------------
(***************************************************************************)
(* Theorems about SqlTransactions, for every number of calls and of         *)
(* connections.                                                            *)
(***************************************************************************)
EXTENDS SqlTransactions, FiniteSetTheorems, TLAPS

(* Who has taken a connection holds it alone until it gives it back, and a    *)
(* transaction is open only on the connection of a call that has not yet      *)
(* ended it.                                                                *)
Holding == {"begin", "refused", "fn", "done", "undone"}

PoolInv ==
  /\ TypeOK
  /\ \A c \in Calls : own[c] # None => pc[c] \in Holding
  /\ \A c \in Calls : pc[c] \in Holding \ {"fn"} => own[c] # None
  /\ \A k \in open : \E c \in Calls : own[c] = k /\ pc[c] \in {"begin", "fn"}
  /\ \A k \in Conns \ open : pending[k] = {}
  /\ kind = "pool" =>
       /\ \A c, d \in Calls : own[c] # None /\ own[c] = own[d] => c = d
       /\ \A k \in Conns : k \in free <=> \A c \in Calls : own[c] # k
       /\ handle = None => free # {}
  /\ kind # "pool" =>
       /\ free = Conns /\ handle \in {None, Database}
       /\ \A c \in Calls : own[c] \in {None, Database}
  /\ kind = "sqlite" =>
       /\ handle = None
       /\ \A c \in Calls : pc[c] \notin {"connect", "begin", "refused"}
       /\ \A c \in Calls : pc[c] = "fn" => own[c] = Database

LEMMA DatabaseIsConn == Database \in Conns
BY SqlAssumption DEF Database

LEMMA TargetsAreConns == PoolInv => Targets \subseteq Conns
BY SqlAssumption, DatabaseIsConn DEF Targets, PoolInv, TypeOK

LEMMA InitPool == Init => PoolInv
BY SqlAssumption DEF Init, PoolInv, TypeOK, Holding, Fates

LEMMA NextPool == PoolInv /\ [Next]_vars => PoolInv'
<1>. SUFFICES ASSUME PoolInv, [Next]_vars PROVE PoolInv'
  OBVIOUS
<1>. USE SqlAssumption, DatabaseIsConn DEF PoolInv, TypeOK, Holding, GoTo, Settled
<1>1. ASSUME NEW c \in Calls, PgTransaction(c) PROVE PoolInv'
  BY <1>1 DEF PgTransaction, Begins
<1>2. ASSUME NEW c \in Calls, Connect(c) PROVE PoolInv'
  BY <1>2 DEF Connect
<1>3. ASSUME NEW c \in Calls, ConnectFails(c) PROVE PoolInv'
  BY <1>3 DEF ConnectFails
<1>4. ASSUME NEW c \in Calls, BeginReturns(c) PROVE PoolInv'
  BY <1>4 DEF BeginReturns
<1>5. ASSUME NEW c \in Calls, BeginFails(c) PROVE PoolInv'
  BY <1>5 DEF BeginFails, Loses, Fates
<1>6. ASSUME NEW c \in Calls, SqliteTransaction(c) PROVE PoolInv'
  BY <1>6 DEF SqliteTransaction, Begins
<1>7. ASSUME NEW c \in Calls, Statement(c) PROVE PoolInv'
  BY <1>7 DEF Statement, Begins
<1>8. ASSUME NEW c \in Calls, Write(c) PROVE PoolInv'
  BY <1>8 DEF Write, Targets, Writes, Fates
<1>9. ASSUME NEW c \in Calls, StatementFails(c) PROVE PoolInv'
  BY <1>9, TargetsAreConns DEF StatementFails, Disturbs, Loses, Fates, Writes
<1>15. ASSUME NEW c \in Calls, WriteFails(c) PROVE PoolInv'
  BY <1>15, TargetsAreConns DEF WriteFails, Disturbs, Loses, Fates
<1>10. ASSUME NEW c \in Calls, FnReturns(c) PROVE PoolInv'
  BY <1>10 DEF FnReturns, Ends, Commits
<1>11. ASSUME NEW c \in Calls, CommitFails(c) PROVE PoolInv'
  BY <1>11 DEF CommitFails, Ends, Commits
<1>12. ASSUME NEW c \in Calls, FnThrows(c) PROVE PoolInv'
  BY <1>12 DEF FnThrows, Ends
<1>13. ASSUME NEW c \in Calls, Finally(c) PROVE PoolInv'
  BY <1>13 DEF Finally
<1>14. CASE UNCHANGED vars
  BY <1>14 DEF vars
<1>. QED
  BY <1>1, <1>2, <1>3, <1>4, <1>5, <1>6, <1>7, <1>8, <1>9, <1>10, <1>11, <1>12, <1>13,
     <1>14, <1>15 DEF Next, Progress, Failure

LEMMA PoolImpliesClean == PoolInv => PoolIsClean
<1>. SUFFICES ASSUME PoolInv, kind = "pool" PROVE PoolIsClean
  BY DEF PoolIsClean
<1>1. free \cap open = {}
  BY DEF PoolInv, TypeOK
<1>2. \A k \in free : pending[k] = {}
  BY <1>1 DEF PoolInv, TypeOK
<1>3. ASSUME NEW k \in Conns \ free
      PROVE  Cardinality({c \in Calls : own[c] = k}) = 1
  <2>1. PICK c \in Calls : own[c] = k
    BY <1>3 DEF PoolInv
  <2>2. k # None
    BY <1>3, SqlAssumption
  <2>3. {d \in Calls : own[d] = k} = {c}
    BY <2>1, <2>2 DEF PoolInv
  <2>. QED
    BY <2>3, FS_Singleton
<1>. QED
  BY <1>1, <1>2, <1>3 DEF PoolIsClean

LEMMA PoolImpliesSend == PoolInv => SomewhereToSend
BY SqlAssumption DEF PoolInv, TypeOK, SomewhereToSend, Targets

-----------------------------------------------------------------------------
(* Type correctness (TypeOK). *)
THEOREM TypeCorrect == Spec => []TypeOK
<1>1. PoolInv => TypeOK
  BY DEF PoolInv
<1>. QED
  BY <1>1, InitPool, NextPool, PTL DEF Spec

(* However many calls share the executor, overlap and fail, a connection goes *)
(* back to the pool once, with nothing open on it (RootwarePgExecutor,        *)
(* PoolIsClean).                                                             *)
THEOREM PoolStaysClean == Spec => []PoolIsClean
BY InitPool, NextPool, PoolImpliesClean, PTL DEF Spec

(* No statement waits for a connection that only transactions hold: without a *)
(* transaction client there is an idle one (SomewhereToSend).                *)
THEOREM AlwaysSomewhereToSend == Spec => []SomewhereToSend
BY InitPool, NextPool, PoolImpliesSend, PTL DEF Spec

-----------------------------------------------------------------------------
(* Atomicity of a call that stays alone.                                     *)
(* A call that is still alone has its connection to itself, and all it wrote  *)
(* is where its place and its fate say: pending on its connection, for good,   *)
(* or nowhere.                                                               *)
Stands(c) ==
  pc[c] \in {"begin", "fn"} =>
    /\ own[c] \in Conns
    /\ kind # "sqlite" => handle = own[c]
    /\ fate[c] = "whole" => own[c] \notin aborted
    /\ fate[c] = "aborted" => own[c] \in aborted
InFlight(c) ==
  /\ pc[c] # "refused"
  /\ Stands(c)
  /\ pc[c] \in {"begin", "fn"} /\ fate[c] \in {"whole", "aborted"} =>
       /\ own[c] \in open
       /\ Done(c) \subseteq pending[own[c]]
       /\ Done(c) \cap committed = {}
       /\ \A k \in Conns \ {own[c]} : Done(c) \cap pending[k] = {}
  /\ pc[c] \in {"begin", "fn"} /\ fate[c] = "lost" =>
       Done(c) \cap Anywhere = {}
Kept(c) == pc[c] \in {"done", "ok"} /\ fate[c] = "whole" => Done(c) \subseteq committed
Gone(c) ==
  \/ pc[c] \in {"undone", "failed"} /\ c \notin unsure /\ fate[c] = "whole"
  \/ pc[c] \in {"undone", "failed", "done", "ok"} /\ fate[c] \in {"aborted", "lost"}
  => Done(c) \cap Anywhere = {}

AloneInv ==
  /\ \A c \in alone : Active(c) => \A d \in Calls \ {c} : ~Active(d)
  /\ \A c \in alone : InFlight(c) /\ Kept(c) /\ Gone(c)

(* What is written was counted, nobody writes or loses anything before its     *)
(* callback runs, and the transaction client is the connection of a call that  *)
(* has not ended.                                                            *)
WroteInv ==
  /\ \A w \in Anywhere : w[2] <= wrote[w[1]]
  /\ \A c \in Calls :
       /\ pc[c] \in {"idle", "connect", "begin", "refused", "execute"} => wrote[c] = 0
       /\ pc[c] \in {"idle", "connect", "execute"} => fate[c] = "whole"
  /\ handle # None => \E c \in Calls : own[c] = handle

LEMMA AnywhereIs ==
  ASSUME NEW w
  PROVE  w \in Anywhere <=> w \in committed \/ \E k \in Conns : w \in pending[k]
BY DEF Anywhere

(* What one step of call c may change. *)
StepOf(c) ==
  \/ PgTransaction(c) \/ SqliteTransaction(c) \/ Statement(c) \/ Progress(c) \/ Failure(c)

LEMMA OthersUntouched ==
  ASSUME PoolInv, NEW c \in Calls, StepOf(c)
  PROVE  /\ \A d \in Calls \ {c} : pc'[d] = pc[d] /\ own'[d] = own[d] /\ wrote'[d] = wrote[d]
         /\ alone' \subseteq alone /\ alone \subseteq Calls
         /\ \A d \in Calls \ {c} : d \in unsure' <=> d \in unsure
         /\ kind' = kind
BY DEF StepOf, PoolInv, TypeOK, PgTransaction, SqliteTransaction, Statement, Begins, GoTo,
       Progress, Connect, BeginReturns, Write, FnReturns, Finally, Failure, ConnectFails,
       BeginFails, WriteFails, StatementFails, CommitFails, FnThrows, Ends

(* A failing statement reaches no call that has no connection. *)
LEMMA FateOfOthers ==
  ASSUME PoolInv, NEW c \in Calls, StepOf(c), NEW d \in Calls \ {c}, own[d] = None
  PROVE  fate'[d] = fate[d]
<1>. USE DEF PoolInv, TypeOK
<1>1. \A k \in Conns : own[d] # k
  BY SqlAssumption
<1>2. ASSUME NEW k \in Conns, Loses(k) \/ Disturbs(k)
      PROVE  fate'[d] = fate[d]
  BY <1>1, <1>2 DEF Loses, Disturbs
<1>3. CASE BeginFails(c)
  <2>1. own[c] \in Conns
    BY <1>3 DEF BeginFails, Holding
  <2>. QED
    BY <1>2, <1>3, <2>1 DEF BeginFails
<1>4. CASE WriteFails(c) \/ StatementFails(c)
  BY <1>2, <1>4, TargetsAreConns DEF WriteFails, StatementFails
<1>5. CASE Write(c)
  BY <1>5 DEF Write
<1>6. CASE UNCHANGED fate
  BY <1>6
<1>. QED
  BY <1>3, <1>4, <1>5, <1>6
     DEF StepOf, PgTransaction, SqliteTransaction, Statement, Begins, Progress, Connect,
         BeginReturns, FnReturns, Finally, Failure, ConnectFails, CommitFails, FnThrows

(* Writes are counted one by one, and nothing is written but what is counted. *)
LEMMA WritesMove ==
  ASSUME PoolInv, WroteInv, NEW c \in Calls, StepOf(c)
  PROVE  /\ committed \subseteq committed'
         /\ wrote'[c] \in {wrote[c], wrote[c] + 1}
         /\ \A w \in Anywhere' :
              w \in Anywhere \/ (wrote'[c] = wrote[c] + 1 /\ w = <<c, wrote[c] + 1>>)
<1>. USE DEF PoolInv, TypeOK
<1> DEFINE Moved(w) == w \in committed' \/ \E j \in Conns : w \in pending'[j]
           Was(w) == w \in committed \/ \E j \in Conns : w \in pending[j]
<1>1. CASE Write(c)
  <2>1. wrote'[c] = wrote[c] + 1
    BY <1>1 DEF Write
  <2>2. PICK k \in Targets :
          IF k \in open
          THEN /\ pending' = [pending EXCEPT ![k] = @ \cup {<<c, wrote'[c]>>}]
               /\ UNCHANGED committed
          ELSE committed' = committed \cup {<<c, wrote'[c]>>} /\ UNCHANGED pending
    BY <1>1 DEF Write
  <2>3. committed \subseteq committed'
    BY <2>2
  <2>4. ASSUME NEW w \in Anywhere'
        PROVE  w \in Anywhere \/ w = <<c, wrote[c] + 1>>
    <3>1. w \in committed' \/ \E j \in Conns : w \in pending'[j]
      BY <2>4 DEF Anywhere
    <3>2. w \in committed \/ w = <<c, wrote[c] + 1>> \/ \E j \in Conns : w \in pending[j]
      BY <2>1, <2>2, <3>1
    <3>. QED
      BY <3>2, AnywhereIs
  <2>. QED
    BY <2>1, <2>3, <2>4
<1>2. CASE StatementFails(c) /\ committed' = committed \cup {<<c, 1>>}
           /\ wrote' = [wrote EXCEPT ![c] = 1] /\ UNCHANGED pending
  <2>1. wrote[c] = 0 /\ wrote'[c] = wrote[c] + 1
    BY <1>2 DEF StatementFails, WroteInv
  <2>2. ASSUME NEW w \in Anywhere'
        PROVE  w \in Anywhere \/ w = <<c, wrote[c] + 1>>
    BY <1>2, <2>1, <2>2 DEF Anywhere
  <2>. QED
    BY <1>2, <2>1, <2>2
<1>3. ASSUME committed \subseteq committed', UNCHANGED wrote, \A w : Moved(w) => Was(w)
      PROVE  /\ committed \subseteq committed'
             /\ wrote'[c] \in {wrote[c], wrote[c] + 1}
             /\ \A w \in Anywhere' : w \in Anywhere
  BY <1>3 DEF Anywhere
<1>4. ASSUME UNCHANGED <<wrote, committed>>,
             UNCHANGED pending \/ \E k \in Conns : Loses(k) \/ Disturbs(k)
      PROVE  /\ committed \subseteq committed' /\ UNCHANGED wrote
             /\ \A w : Moved(w) => Was(w)
  BY <1>4 DEF Loses, Disturbs
<1>5. ASSUME NEW W, W = {} \/ W = Commits(c), Ends(c, W), UNCHANGED wrote
      PROVE  /\ committed \subseteq committed' /\ UNCHANGED wrote
             /\ \A w : Moved(w) => Was(w)
  <2>1. own[c] \in Conns
    BY <1>5 DEF Ends
  <2>2. committed' = committed \cup W /\ pending' = [pending EXCEPT ![own[c]] = {}]
    BY <1>5 DEF Ends
  <2>3. W \subseteq pending[own[c]]
    BY <1>5 DEF Commits
  <2>. QED
    BY <1>5, <2>1, <2>2, <2>3
<1>6. CASE BeginFails(c)
  <2>1. own[c] \in Conns
    BY <1>6 DEF BeginFails, Holding
  <2>. QED
    BY <1>3, <1>4, <1>6, <2>1 DEF BeginFails
<1>7. CASE WriteFails(c) \/ StatementFails(c)
  BY <1>2, <1>3, <1>4, <1>7, TargetsAreConns DEF WriteFails, StatementFails
<1>8. CASE FnReturns(c) \/ CommitFails(c) \/ FnThrows(c)
  BY <1>3, <1>4, <1>5, <1>8 DEF FnReturns, CommitFails, FnThrows
<1>9. CASE UNCHANGED <<wrote, committed, pending>>
  BY <1>3, <1>4, <1>9
<1>. QED
  BY <1>1, <1>6, <1>7, <1>8, <1>9
     DEF StepOf, PgTransaction, SqliteTransaction, Statement, Begins, Progress, Connect,
         BeginReturns, Finally, Failure, ConnectFails

LEMMA NextWrote ==
  ASSUME PoolInv, WroteInv, NEW c \in Calls, StepOf(c)
  PROVE  WroteInv'
<1>. USE DEF PoolInv, TypeOK
<1>1. ASSUME NEW w \in Anywhere'
      PROVE  w[2] <= wrote'[w[1]]
  <2>1. CASE w \in Anywhere
    <3>1. w \in Writes /\ w[2] <= wrote[w[1]]
      BY <2>1, AnywhereIs DEF WroteInv
    <3>2. w[1] \in Calls /\ w[2] \in Nat /\ wrote[w[1]] \in Nat
      BY <3>1 DEF Writes
    <3>3. wrote'[w[1]] \in {wrote[w[1]], wrote[w[1]] + 1}
      BY <3>2, WritesMove, OthersUntouched
    <3>. QED
      BY <3>1, <3>2, <3>3
  <2>2. CASE wrote'[c] = wrote[c] + 1 /\ w = <<c, wrote[c] + 1>>
    BY <2>2
  <2>. QED
    BY <2>1, <2>2, WritesMove
<1>2. ASSUME NEW d \in Calls
      PROVE  /\ pc'[d] \in {"idle", "connect", "begin", "refused", "execute"} => wrote'[d] = 0
             /\ pc'[d] \in {"idle", "connect", "execute"} => fate'[d] = "whole"
  <2>1. CASE d # c
    <3>1. pc'[d] = pc[d] /\ wrote'[d] = wrote[d]
      BY <2>1, OthersUntouched
    <3>2. pc[d] \in {"idle", "connect", "execute"} => fate'[d] = fate[d]
      BY <2>1, FateOfOthers DEF Holding
    <3>. QED
      BY <3>1, <3>2 DEF WroteInv
  <2>2. CASE d = c
    <3>1. pc'[c] \in {"idle", "connect", "begin", "refused", "execute"} =>
            /\ pc[c] \in {"idle", "connect", "begin", "refused", "execute"}
            /\ UNCHANGED wrote
            /\ pc'[c] \in {"idle", "connect", "execute"} =>
                 pc[c] \in {"idle", "connect", "execute"} /\ UNCHANGED fate
      BY DEF StepOf, PgTransaction, SqliteTransaction, Statement, Begins, GoTo,
             Progress, Connect, BeginReturns, Write, FnReturns, Finally, Failure, ConnectFails,
             BeginFails, WriteFails, StatementFails, CommitFails, FnThrows
    <3>. QED
      BY <2>2, <3>1 DEF WroteInv
  <2>. QED
    BY <2>1, <2>2
<1>3. handle' # None => \E d \in Calls : own'[d] = handle'
  <2>1. CASE UNCHANGED <<handle, own>>
    BY <2>1 DEF WroteInv
  <2>2. CASE Connect(c)
    <3>1. PICK k : own' = [own EXCEPT ![c] = k] /\ handle' = k
      BY <2>2 DEF Connect
    <3>. QED
      BY <3>1
  <2>3. CASE BeginFails(c) \/ Finally(c)
    BY <2>3 DEF BeginFails, Finally
  <2>4. CASE SqliteTransaction(c)
    BY <2>4 DEF SqliteTransaction
  <2>. QED
    BY <2>1, <2>2, <2>3, <2>4
       DEF StepOf, PgTransaction, Statement, Progress, BeginReturns, Write, FnReturns,
           Failure, ConnectFails, WriteFails, StatementFails, CommitFails, FnThrows
<1>. QED
  BY <1>1, <1>2, <1>3 DEF WroteInv

(* A call that is alone and not the one that steps is not under way, and      *)
(* nothing of it moves.                                                      *)
LEMMA AloneBystander ==
  ASSUME PoolInv, WroteInv, AloneInv, NEW c \in Calls, StepOf(c), NEW d \in alone', d # c
  PROVE  /\ ~Active(d)' /\ InFlight(d)' /\ Kept(d)' /\ Gone(d)'
<1>. USE DEF PoolInv, TypeOK
<1>1. /\ d \in alone /\ d \in Calls /\ pc'[d] = pc[d] /\ own'[d] = own[d] /\ wrote'[d] = wrote[d]
      /\ (d \in unsure' <=> d \in unsure) /\ Done(d)' = Done(d)
  BY OthersUntouched DEF Done
<1>2. ~Active(d)
  <2>. SUFFICES ASSUME Active(d) PROVE FALSE
    OBVIOUS
  <2>1. pc[c] \in {"idle", "ok", "failed"}
    BY <1>1 DEF AloneInv, Active, Settled
  <2>2. Begins(c)
    BY <2>1 DEF StepOf, PgTransaction, SqliteTransaction, Statement, Progress, Connect,
                BeginReturns, Write, FnReturns, Finally, Failure, ConnectFails, BeginFails,
                WriteFails, StatementFails, CommitFails, FnThrows
  <2>3. alone' = alone \ ({e \in Calls : Active(e)} \cup {c})
    BY <1>1, <2>2 DEF Begins
  <2>. QED
    BY <1>1, <2>3
<1>3. pc[d] \in {"idle", "ok", "failed"}
  BY <1>1, <1>2 DEF Active, Settled
<1>4. \A w \in Done(d) : w \in Anywhere' => w \in Anywhere
  <2>1. \A w \in Done(d) : w # <<c, wrote[c] + 1>>
    BY DEF Done
  <2>. QED
    BY <2>1, WritesMove
<1>5. InFlight(d) /\ Kept(d) /\ Gone(d)
  BY <1>1 DEF AloneInv
<1>6. fate'[d] = fate[d]
  BY <1>1, <1>3, FateOfOthers DEF Holding
<1>7. ~Active(d)' /\ InFlight(d)'
  BY <1>1, <1>3 DEF Active, InFlight, Stands, Settled
<1>8. Kept(d)'
  BY <1>1, <1>5, <1>6, WritesMove DEF Kept
<1>9. Gone(d)'
  BY <1>1, <1>4, <1>5, <1>6 DEF Gone
<1>. QED
  BY <1>7, <1>8, <1>9

(* A call that is alone when it has stepped has nobody else under way, before *)
(* and after the step.                                                       *)
LEMMA AloneActs ==
  ASSUME PoolInv, AloneInv, NEW c \in alone', StepOf(c)
  PROVE  /\ c \in alone /\ c \in Calls
         /\ \A d \in Calls \ {c} : ~Active(d) /\ ~Active(d)'
<1>. USE DEF PoolInv, TypeOK
<1>0. c \in alone /\ c \in Calls /\ \A d \in Calls \ {c} : pc'[d] = pc[d]
  <2>1. c \in Calls
    BY DEF StepOf, PgTransaction, SqliteTransaction, Statement, Begins, Progress, Connect,
           BeginReturns, Write, FnReturns, Finally, Failure, ConnectFails, BeginFails,
           WriteFails, StatementFails, CommitFails, FnThrows
  <2>. QED
    BY <2>1, OthersUntouched
<1>1. ASSUME NEW d \in Calls \ {c}
      PROVE  ~Active(d)
  <2>1. CASE Active(c)
    BY <1>0, <2>1 DEF AloneInv
  <2>2. CASE ~Active(c)
    <3>1. Begins(c)
      BY <2>2 DEF StepOf, PgTransaction, SqliteTransaction, Statement, Progress, Connect,
                  BeginReturns, Write, FnReturns, Finally, Failure, ConnectFails, BeginFails,
                  WriteFails, StatementFails, CommitFails, FnThrows, Active, Settled
    <3>2. {e \in Calls : Active(e)} = {}
      BY <3>1 DEF Begins
    <3>. QED
      BY <3>2
  <2>. QED
    BY <2>1, <2>2
<1>. QED
  BY <1>0, <1>1 DEF Active

(* Nothing is open, and nobody's client is set, while nobody is under way.    *)
LEMMA NobodyElse ==
  ASSUME PoolInv, WroteInv, NEW c \in Calls, \A d \in Calls \ {c} : ~Active(d)
  PROVE  /\ own[c] = None => handle = None /\ open = {} /\ aborted = {}
         /\ \A k \in open : own[c] = k
         /\ handle # None => own[c] = handle
<1>1. \A d \in Calls \ {c} : own[d] = None
  BY DEF PoolInv, Active, Holding, Settled
<1>2. \A k \in open : own[c] = k /\ k # None
  BY <1>1, SqlAssumption DEF PoolInv, TypeOK
<1>3. handle # None => own[c] = handle
  BY <1>1 DEF WroteInv
<1>. QED
  BY <1>2, <1>3 DEF PoolInv, TypeOK

(* Where the statements of a call alone in its transaction go.                *)
LEMMA OwnTarget ==
  ASSUME PoolInv, NEW c \in Calls, pc[c] = "fn", Stands(c)
  PROVE  Targets = {own[c]} /\ own[c] \in Conns
<1>1. own[c] \in Conns /\ own[c] # None /\ (kind # "sqlite" => handle = own[c])
  BY SqlAssumption DEF Stands
<1>2. kind # "pool" => own[c] = Database
  BY <1>1 DEF PoolInv
<1>. QED
  BY <1>1, <1>2 DEF Targets

LEMMA AloneWrites ==
  ASSUME PoolInv, WroteInv, AloneInv, NEW c \in alone', Write(c)
  PROVE  InFlight(c)' /\ Kept(c)' /\ Gone(c)'
<1>. USE DEF PoolInv, TypeOK
<1>0. StepOf(c)
  BY DEF StepOf, Progress
<1>1. /\ c \in alone /\ c \in Calls /\ \A d \in Calls \ {c} : ~Active(d)
      /\ InFlight(c)
  BY <1>0, AloneActs DEF AloneInv
<1>2. /\ pc[c] \in {"fn", "execute"} /\ wrote'[c] = wrote[c] + 1 /\ wrote[c] \in Nat
      /\ UNCHANGED <<own, open, aborted, handle, kind, unsure>>
      /\ pc'[c] = IF pc[c] = "execute" THEN "ok" ELSE "fn"
      /\ fate'[c] = IF fate[c] = "lost" THEN "astray" ELSE fate[c]
  BY <1>1 DEF Write, GoTo
<1> DEFINE w == <<c, wrote[c] + 1>>
<1>3. PICK k \in Targets \ aborted :
        IF k \in open
        THEN pending' = [pending EXCEPT ![k] = @ \cup {w}] /\ UNCHANGED committed
        ELSE committed' = committed \cup {w} /\ UNCHANGED pending
  BY <1>2 DEF Write
<1>4. Done(c)' = Done(c) \cup {w} /\ w \notin Anywhere
  <2>1. (1..wrote[c])' = 1..wrote[c] \cup {wrote[c] + 1}
    BY <1>2
  <2>2. w \notin Anywhere
    BY <1>2 DEF WroteInv
  <2>. QED
    BY <2>1, <2>2 DEF Done
<1>5. w \notin committed /\ \A j \in Conns : w \notin pending[j]
  BY <1>4, AnywhereIs
<1>. HIDE DEF w
<1>6. CASE pc[c] = "fn"
  <2>1. k = own[c] /\ own[c] \in Conns /\ Stands(c)
    BY <1>1, <1>3, <1>6, OwnTarget DEF InFlight
  <2>2. Stands(c)' /\ fate'[c] # "lost" /\ fate[c] # "aborted" /\ pc'[c] = "fn"
    BY <1>2, <1>3, <1>6, <2>1 DEF Stands
  <2>3. ASSUME fate'[c] = "whole"
        PROVE  /\ own'[c] \in open' /\ Done(c)' \subseteq pending'[own'[c]]
               /\ Done(c)' \cap committed' = {}
               /\ \A j \in Conns \ {own'[c]} : Done(c)' \cap pending'[j] = {}
    <3>1. fate[c] = "whole"
      BY <1>2, <2>3
    <3>2. /\ own[c] \in open
          /\ Done(c) \subseteq pending[own[c]] /\ Done(c) \cap committed = {}
          /\ \A j \in Conns \ {own[c]} : Done(c) \cap pending[j] = {}
      BY <1>1, <1>6, <3>1 DEF InFlight
    <3>3. pending' = [pending EXCEPT ![k] = @ \cup {w}] /\ committed' = committed
      BY <1>3, <2>1, <3>2
    <3>. QED
      BY <1>2, <1>4, <1>5, <2>1, <3>2, <3>3
  <2>4. fate'[c] \in {"whole", "astray"}
    BY <1>1, <1>2, <2>2 DEF Fates
  <2>5. InFlight(c)'
    BY <2>2, <2>3, <2>4 DEF InFlight
  <2>. QED
    BY <2>2, <2>5 DEF Kept, Gone
<1>7. CASE pc[c] = "execute"
  <2>1. wrote[c] = 0 /\ own[c] = None /\ fate[c] = "whole"
    BY <1>1, <1>7 DEF WroteInv, Holding
  <2>2. open = {}
    BY <1>1, <2>1, NobodyElse
  <2>3. committed' = committed \cup {w}
    BY <1>3, <2>2
  <2>4. Done(c)' \subseteq committed'
    BY <1>4, <2>1, <2>3 DEF Done
  <2>. QED
    BY <1>2, <1>7, <2>1, <2>4 DEF InFlight, Stands, Kept, Gone
<1>. QED
  BY <1>2, <1>6, <1>7

(* A failing statement of a callback aborts or loses the call's transaction.  *)
LEMMA AloneSuffers ==
  ASSUME PoolInv, AloneInv, NEW c \in alone', WriteFails(c)
  PROVE  InFlight(c)' /\ Kept(c)' /\ Gone(c)'
<1>. USE DEF PoolInv, TypeOK
<1>0. StepOf(c)
  BY DEF StepOf, Failure
<1>1. c \in alone /\ c \in Calls /\ pc[c] = "fn" /\ InFlight(c)
  BY <1>0, AloneActs DEF AloneInv, WriteFails
<1>2. own[c] \in Conns /\ Disturbs(own[c])
  BY <1>1, OwnTarget DEF InFlight, WriteFails
<1>3. /\ pc' = pc /\ own' = own /\ kind' = kind /\ handle' = handle /\ committed' = committed
      /\ Done(c)' = Done(c)
  BY DEF WriteFails, Done
<1>4. CASE /\ aborted' = aborted \cup {own[c]}
           /\ fate'[c] = IF fate[c] = "whole" THEN "aborted" ELSE fate[c]
           /\ UNCHANGED <<open, pending>>
  <2>1. own[c] \in open /\ fate'[c] # "whole"
    BY <1>2, <1>4 DEF Disturbs
  <2>2. Stands(c)'
    BY <1>1, <1>3, <1>4, <2>1 DEF InFlight, Stands
  <2>3. Anywhere' = Anywhere
    BY <1>3, <1>4 DEF Anywhere
  <2>. QED
    BY <1>1, <1>3, <1>4, <2>1, <2>2, <2>3 DEF InFlight, Kept, Gone
<1>5. CASE Loses(own[c])
  <2>1. /\ fate'[c] \in {"lost", "astray"}
        /\ pending' = [pending EXCEPT ![own[c]] = {}]
        /\ fate'[c] = "lost" => fate[c] \in {"whole", "aborted", "lost"}
    BY <1>1, <1>5 DEF Loses, Fates
  <2>2. Stands(c)'
    BY <1>1, <1>3, <2>1 DEF InFlight, Stands
  <2>3. ASSUME fate'[c] = "lost" PROVE Done(c)' \cap Anywhere' = {}
    <3>1. CASE fate[c] = "lost"
      <4>1. Done(c) \cap Anywhere = {}
        BY <1>1, <3>1 DEF InFlight
      <4>2. ASSUME NEW v \in Anywhere' PROVE v \in Anywhere
        BY <1>2, <1>3, <2>1, <4>2 DEF Anywhere
      <4>. QED
        BY <1>3, <4>1, <4>2
    <3>2. CASE fate[c] \in {"whole", "aborted"}
      <4>1. /\ Done(c) \cap committed = {}
            /\ \A j \in Conns \ {own[c]} : Done(c) \cap pending[j] = {}
        BY <1>1, <3>2 DEF InFlight
      <4>. SUFFICES ASSUME NEW v \in Done(c), v \in Anywhere' PROVE FALSE
        BY <1>3
      <4>2. v \in committed' \/ \E j \in Conns : v \in pending'[j]
        BY DEF Anywhere
      <4>. QED
        BY <1>2, <1>3, <2>1, <4>1, <4>2
    <3>. QED
      BY <2>1, <2>3, <3>1, <3>2
  <2>. QED
    BY <1>1, <1>3, <2>1, <2>2, <2>3 DEF InFlight, Kept, Gone
<1>. QED
  BY <1>1, <1>2, <1>4, <1>5 DEF Disturbs

LEMMA AloneEnds ==
  ASSUME PoolInv, WroteInv, AloneInv, NEW c \in alone',
         FnReturns(c) \/ CommitFails(c) \/ FnThrows(c)
  PROVE  InFlight(c)' /\ Kept(c)' /\ Gone(c)'
<1>. USE DEF PoolInv, TypeOK
<1>0. StepOf(c)
  BY DEF StepOf, Progress, Failure
<1>1. c \in alone /\ c \in Calls /\ pc[c] = "fn" /\ InFlight(c)
  BY <1>0, AloneActs DEF AloneInv, FnReturns, CommitFails, FnThrows
<1>2. own[c] # None /\ own[c] \in Conns /\ Stands(c)
  BY <1>1, SqlAssumption DEF InFlight, Stands
<1>3. Done(c)' = Done(c) /\ fate' = fate
  BY DEF FnReturns, CommitFails, FnThrows, Done
<1>4. ASSUME NEW W, Ends(c, W), W = {} \/ fate[c] \notin {"whole", "aborted"},
             W \subseteq pending[own[c]], fate[c] # "astray"
      PROVE  Done(c)' \cap Anywhere' = {}
  <2>1. committed' = committed \cup W /\ pending' = [pending EXCEPT ![own[c]] = {}]
    BY <1>4 DEF Ends
  <2>. SUFFICES ASSUME NEW v \in Done(c), v \in Anywhere' PROVE FALSE
    BY <1>3
  <2>2. v \in committed' \/ \E j \in Conns : v \in pending'[j]
    BY DEF Anywhere
  <2>3. CASE fate[c] = "lost"
    <3>1. v \notin Anywhere
      BY <1>1, <2>3 DEF InFlight
    <3>. QED
      BY <1>2, <1>4, <2>1, <2>2, <3>1, AnywhereIs
  <2>4. CASE fate[c] \in {"whole", "aborted"}
    BY <1>1, <1>2, <1>4, <2>1, <2>2, <2>4 DEF InFlight
  <2>. QED
    BY <1>1, <1>4, <2>3, <2>4 DEF Fates
<1>5. CASE Ends(c, Commits(c))
           /\ (pc'[c] = "done" \/ (pc'[c] = "undone" /\ c \in unsure'))
  <2>1. committed' = committed \cup Commits(c)
    BY <1>5 DEF Ends
  <2>2. CASE fate[c] = "whole"
    <3>1. Commits(c) = pending[own[c]] /\ Done(c) \subseteq pending[own[c]]
      BY <1>1, <1>2, <2>2 DEF Commits, Stands, InFlight
    <3>. QED
      BY <1>3, <1>5, <2>1, <2>2, <3>1 DEF InFlight, Stands, Kept, Gone
  <2>3. CASE fate[c] = "aborted" \/ fate[c] = "lost"
    <3>1. Commits(c) = {} \/ fate[c] = "lost"
      BY <1>1, <1>2, <2>3 DEF Commits, Stands
    <3>2. Commits(c) \subseteq pending[own[c]]
      BY DEF Commits
    <3>3. Done(c)' \cap Anywhere' = {}
      BY <1>4, <1>5, <2>3, <3>1, <3>2
    <3>. QED
      BY <1>3, <1>5, <2>3, <3>3 DEF InFlight, Stands, Kept, Gone
  <2>4. CASE fate[c] = "astray"
    BY <1>3, <1>5, <2>4 DEF InFlight, Stands, Kept, Gone
  <2>. QED
    BY <1>1, <2>2, <2>3, <2>4 DEF Fates
<1>6. CASE Ends(c, {}) /\ pc'[c] = "undone"
  <2>1. fate[c] # "astray" => Done(c)' \cap Anywhere' = {}
    BY <1>4, <1>6
  <2>. QED
    BY <1>3, <1>6, <2>1 DEF InFlight, Stands, Kept, Gone
<1>. QED
  BY <1>1, <1>2, <1>5, <1>6 DEF FnReturns, CommitFails, FnThrows, GoTo

LEMMA AloneActor ==
  ASSUME PoolInv, WroteInv, AloneInv, NEW c \in alone', StepOf(c)
  PROVE  InFlight(c)' /\ Kept(c)' /\ Gone(c)'
<1>. USE DEF PoolInv, TypeOK
<1>1. /\ c \in alone /\ c \in Calls /\ \A d \in Calls \ {c} : ~Active(d)
      /\ InFlight(c) /\ Kept(c) /\ Gone(c)
  BY AloneActs DEF AloneInv
<1>2. ASSUME UNCHANGED wrote
      PROVE  Done(c)' = Done(c) /\ \A w \in Anywhere' : w \in Anywhere
  BY <1>1, <1>2, WritesMove DEF Done
<1>3. wrote[c] = 0 => Done(c) = {}
  BY DEF Done
<1>4. CASE PgTransaction(c)
  <2>1. pc[c] = "idle" /\ own[c] = None
    BY <1>1, <1>4 DEF PgTransaction, Begins, Holding
  <2>2. handle = None
    BY <1>1, <2>1, NobodyElse
  <2>3. pc'[c] = "connect"
    BY <1>1, <1>4, <2>2 DEF PgTransaction, GoTo
  <2>. QED
    BY <2>3 DEF InFlight, Stands, Kept, Gone
<1>5. CASE SqliteTransaction(c)
  <2>1. /\ pc[c] = "idle" /\ own[c] = None /\ kind = "sqlite" /\ wrote[c] = 0
        /\ fate[c] = "whole" /\ UNCHANGED <<wrote, kind, fate, aborted>>
    BY <1>1, <1>5 DEF SqliteTransaction, Begins, Holding, WroteInv
  <2>2. open = {} /\ aborted = {} /\ Database \notin open
    BY <1>1, <2>1, NobodyElse
  <2>3. pc'[c] = "fn" /\ own'[c] = Database /\ Database \in open'
    BY <1>1, <1>5, <2>2 DEF SqliteTransaction, Begins, GoTo
  <2>4. Done(c)' = {}
    BY <1>2, <1>3, <2>1
  <2>. QED
    BY <2>1, <2>2, <2>3, <2>4, DatabaseIsConn DEF InFlight, Stands, Kept, Gone
<1>6. CASE Connect(c)
  <2>1. /\ pc[c] = "connect" /\ wrote[c] = 0 /\ fate[c] = "whole" /\ own[c] = None
        /\ UNCHANGED <<wrote, fate, aborted>>
    BY <1>1, <1>6 DEF Connect, WroteInv, Holding
  <2>2. Done(c)' = {} /\ aborted = {}
    BY <1>1, <1>2, <1>3, <2>1, NobodyElse
  <2>3. PICK k \in Conns : /\ own' = [own EXCEPT ![c] = k] /\ handle' = k
                           /\ open' = open \cup {k}
                           /\ GoTo(c, IF k \in aborted THEN "refused" ELSE "begin")
    BY <1>6, DatabaseIsConn DEF Connect
  <2>4. pc'[c] = "begin" /\ own'[c] = k /\ handle' = k /\ k \in open'
    BY <1>1, <2>2, <2>3 DEF GoTo
  <2>. QED
    BY <2>1, <2>2, <2>4 DEF InFlight, Stands, Kept, Gone
<1>7. CASE BeginReturns(c)
  <2>1. /\ pc[c] = "begin" /\ pc'[c] = "fn"
        /\ UNCHANGED <<own, open, aborted, handle, kind, pending, committed, wrote, fate>>
    BY <1>1, <1>7 DEF BeginReturns, GoTo
  <2>2. Anywhere' = Anywhere
    BY <2>1 DEF Anywhere
  <2>3. InFlight(c)'
    BY <1>1, <1>2, <2>1, <2>2 DEF InFlight, Stands
  <2>. QED
    BY <2>1, <2>3 DEF Kept, Gone
<1>8. CASE ConnectFails(c) \/ BeginFails(c)
  <2>1. /\ pc[c] \in {"connect", "begin", "refused"} /\ wrote'[c] = wrote[c] /\ pc'[c] = "failed"
    BY <1>1, <1>8 DEF ConnectFails, BeginFails, GoTo
  <2>2. wrote[c] = 0
    BY <1>1, <2>1 DEF WroteInv
  <2>3. Done(c)' = {}
    BY <2>1, <2>2 DEF Done
  <2>. QED
    BY <2>1, <2>3 DEF InFlight, Stands, Kept, Gone
<1>9. CASE Statement(c)
  <2>1. pc'[c] = "execute"
    BY <1>1, <1>9 DEF Statement, GoTo
  <2>. QED
    BY <2>1 DEF InFlight, Stands, Kept, Gone
<1>10. CASE Finally(c)
  <2>1. /\ pc[c] \in {"done", "undone"} /\ pc'[c] = IF pc[c] = "done" THEN "ok" ELSE "failed"
        /\ UNCHANGED <<pending, committed, unsure, wrote, fate>>
    BY <1>1, <1>10 DEF Finally, GoTo
  <2>2. Done(c)' = Done(c) /\ Anywhere' = Anywhere
    BY <2>1 DEF Done, Anywhere
  <2>. QED
    BY <1>1, <2>1, <2>2 DEF InFlight, Stands, Kept, Gone
<1>11. CASE StatementFails(c)
  <2>1. pc[c] = "execute" /\ pc'[c] = "failed" /\ own[c] = None /\ fate[c] = "whole" /\ wrote[c] = 0
    BY <1>1, <1>11 DEF StatementFails, GoTo, WroteInv, Holding
  <2>2. open = {}
    BY <1>1, <2>1, NobodyElse
  <2>3. fate' = fate /\ (UNCHANGED wrote \/ c \in unsure')
    BY <1>11, <2>2 DEF StatementFails, Disturbs
  <2>4. UNCHANGED wrote => Done(c)' = {}
    BY <1>2, <1>3, <2>1
  <2>. QED
    BY <2>1, <2>3, <2>4 DEF InFlight, Stands, Kept, Gone
<1>. QED
  BY <1>4, <1>5, <1>6, <1>7, <1>8, <1>9, <1>10, <1>11, AloneWrites, AloneSuffers, AloneEnds
     DEF StepOf, Progress, Failure

AtomicInv == PoolInv /\ WroteInv /\ AloneInv

LEMMA InitAtomic == Init => AtomicInv
BY InitPool DEF Init, AtomicInv, WroteInv, AloneInv, Anywhere, Active, InFlight, Stands, Kept, Gone

LEMMA NextAtomic == AtomicInv /\ [Next]_vars => AtomicInv'
<1>. SUFFICES ASSUME AtomicInv, [Next]_vars PROVE AtomicInv'
  OBVIOUS
<1>1. PoolInv'
  BY NextPool DEF AtomicInv
<1>2. ASSUME NEW c \in Calls, StepOf(c)
      PROVE  WroteInv' /\ AloneInv'
  <2>1. WroteInv'
    BY <1>2, NextWrote DEF AtomicInv
  <2>2. ASSUME NEW d \in alone'
        PROVE  /\ InFlight(d)' /\ Kept(d)' /\ Gone(d)'
               /\ Active(d)' => \A e \in Calls \ {d} : ~Active(e)'
    <3>1. CASE d = c
      BY <1>2, <3>1, AloneActor, AloneActs DEF AtomicInv
    <3>2. CASE d # c
      BY <1>2, <3>2, AloneBystander DEF AtomicInv
    <3>. QED
      BY <3>1, <3>2
  <2>. QED
    BY <2>1, <2>2 DEF AloneInv
<1>3. CASE UNCHANGED vars
  <2>1. WroteInv' /\ AloneInv'
    BY <1>3 DEF AtomicInv, vars, WroteInv, AloneInv, Anywhere, Active, InFlight,
           Stands, Kept, Gone, Done
  <2>. QED
    BY <1>1, <2>1 DEF AtomicInv
<1>. QED
  <2>1. CASE Next
    <3>1. PICK c \in Calls : StepOf(c)
      BY <2>1 DEF Next, StepOf
    <3>. QED
      BY <1>1, <1>2, <3>1 DEF AtomicInv
  <2>. QED
    BY <1>1, <1>3, <2>1 DEF AtomicInv

(* A transaction or a statement that no other call of the executor overlaps   *)
(* is all or nothing - all if no statement of it failed - for any callback,    *)
(* whichever failures it catches, and whatever ran and failed on the executor  *)
(* before it (AtomicWhenAlone).                                              *)
THEOREM AtomicAlone == Spec => []AtomicWhenAlone
<1>1. AtomicInv => AtomicWhenAlone
  BY DEF AtomicInv, AloneInv, Kept, Gone, AtomicWhenAlone, Settled
<1>. QED
  BY <1>1, InitAtomic, NextAtomic, PTL DEF Spec
=============================================================================
