---------------------------- MODULE MigratorProofs ----------------------------
(***************************************************************************)
(* Theorems about the migrator, for any number of processes, migrations and *)
(* calls.  That the history is true rests on the rows that open             *)
(* transactions have written: no two of them have written the same row, and *)
(* the committed history is still what they found.                         *)
(***************************************************************************)
EXTENDS Migrator, TLAPS

(* A step of p to a place other than the commit, that p's own row of every    *)
(* function shows and no other.                                            *)
OthersStay(p) ==
  \A q \in Processes \ {p} :
    /\ pc'[q] = pc[q] /\ plan'[q] = plan[q]
    /\ direction'[q] = direction[q] /\ (q \in hit' <=> q \in hit)

Deletes(p) == direction[p] = "down" /\ p \in hit
AtCommit(p, m) == pc[p] = "commit" /\ IsCurrent(p, m)

(* What a transaction found when it wrote the row of m still holds. *)
StillAsFound ==
  \A p \in Processes, m \in Ids :
    AtCommit(p, m) =>
      /\ direction[p] = "up" => history[m] = None
      /\ Deletes(p) => history[m] # None

(* No two transactions have inserted, or have deleted, the same row. *)
OneWriter ==
  \A p, q \in Processes, m \in Ids :
    /\ AtCommit(p, m) /\ AtCommit(q, m)
    /\ direction[p] = direction[q]
    /\ direction[p] = "up" \/ (p \in hit /\ q \in hit)
    => p = q

RowsInv == Transactional => StillAsFound /\ OneWriter /\ HistoryTrue

(* An invariant of the lock: its holder, and only its holder, is between      *)
(* acquiring and releasing it.                                              *)
LockInv ==
  kind = "memory" =>
    /\ \A p, q \in Processes : p \in locked /\ q \in locked => p = q
    /\ \A p \in Processes :
         /\ p \in locked => lock
         /\ pc[p] \in {"step", "mark"} => p \in locked
         /\ pc[p] # "commit"
         /\ p \in locked => pc[p] \notin {"idle", "lock"}

-----------------------------------------------------------------------------
(* Every state is well typed: checksums and marks are what the store allows,  *)
(* plans stay within the known migrations, calls within their bound.         *)
THEOREM TypeCorrect == Spec => []TypeOK
<1>. USE MigratorAssumption
<1>1. Init => TypeOK
  <2> SUFFICES ASSUME Init PROVE TypeOK
    OBVIOUS
  <2>1. calls \in [Processes -> 0..MaxCalls]
    BY DEF Init
  <2>2. effect \in [Ids -> Int] /\ history \in [Ids -> Sums \cup {None}]
    BY DEF Init
  <2>3. plan \in [Processes -> SUBSET Ids]
    BY DEF Init
  <2>4. pc \in [Processes -> {"idle"}] /\ direction \in [Processes -> {"up"}]
    BY DEF Init
  <2> QED
    BY <2>1, <2>2, <2>3, <2>4 DEF Init, TypeOK
<1>2. ASSUME TypeOK, [Next]_vars
      PROVE  TypeOK'
  <2>1. CASE UNCHANGED vars
    BY <1>2, <2>1 DEF TypeOK, vars
  <2>2. ASSUME NEW p \in Processes, Up(p) \/ Down(p) PROVE TypeOK'
    <3>1. PICK all \in {Pending, Applied}, dir \in {"up", "down"} : Plans(p, dir, all)
      BY <2>2, Zenon DEF Up, Down
    <3>2. all \subseteq Ids
      BY DEF Pending, Applied
    <3>3. calls'[p] \in 0..MaxCalls
      BY <1>2, <3>1 DEF TypeOK, Plans
    <3> QED
      BY <1>2, <3>1, <3>2, <3>3 DEF TypeOK, Plans, GoTo
  <2>3. ASSUME NEW p \in Processes, AcquireLock(p) \/ LockTaken(p) \/ Finally(p) PROVE TypeOK'
    BY <1>2, <2>3 DEF TypeOK, AcquireLock, LockTaken, Finally, GoTo
  <2>4. ASSUME NEW p \in Processes, NEW m \in plan[p], TakesEffect(p, m)
        PROVE  effect' \in [Ids -> Int]
    BY <1>2, <2>4 DEF TypeOK, TakesEffect
  <2>5. ASSUME NEW p \in Processes, Step(p) \/ StepFails(p) PROVE TypeOK'
    <3>1. effect' \in [Ids -> Int]
      BY <1>2, <2>4, <2>5 DEF TypeOK, Step, StepFails
    <3> QED
      BY <1>2, <2>5, <3>1 DEF TypeOK, Step, StepFails, Abandons, GoTo
  <2>6. ASSUME NEW p \in Processes, NEW m \in plan[p], Records(p, m)
        PROVE  history' \in [Ids -> Sums \cup {None}]
    <3>1. m \in Ids /\ Checksum[p][m] \in Sums
      BY <1>2 DEF TypeOK
    <3> QED
      BY <1>2, <2>6, <3>1 DEF TypeOK, Records
  <2>7. ASSUME NEW p \in Processes, Mark(p) PROVE TypeOK'
    <3>1. history' \in [Ids -> Sums \cup {None}]
      BY <1>2, <2>6, <2>7 DEF TypeOK, Mark
    <3>2. hit' \subseteq Processes /\ plan' \in [Processes -> SUBSET Ids]
      BY <1>2, <2>7 DEF TypeOK, Mark
    <3>3. pc' = [pc EXCEPT ![p] = "commit"] \/ pc' = [pc EXCEPT ![p] = "step"]
      BY <2>7 DEF Mark, GoTo
    <3> QED
      BY <1>2, <2>7, <3>1, <3>2, <3>3 DEF TypeOK, Mark
  <2>8. ASSUME NEW p \in Processes, MarkFails(p) PROVE TypeOK'
    BY <1>2, <2>8 DEF TypeOK, MarkFails, Abandons, GoTo
  <2>9. ASSUME NEW p \in Processes, NEW m \in plan[p], Commits(p, m)
        PROVE  /\ effect' \in [Ids -> Int]
               /\ history' \in [Ids -> Sums \cup {None}]
               /\ stale' \subseteq Ids
    <3>1. effect' \in [Ids -> Int]
      BY <2>4, <2>9 DEF Commits
    <3>2. CASE direction[p] = "up" \/ p \in hit
      BY <1>2, <2>6, <2>9, <3>1, <3>2 DEF TypeOK, Commits
    <3>3. CASE ~(direction[p] = "up" \/ p \in hit)
      <4>1. stale \subseteq Ids /\ m \in Ids /\ history \in [Ids -> Sums \cup {None}]
        BY <1>2 DEF TypeOK
      <4> QED
        BY <2>9, <3>1, <3>3, <4>1 DEF Commits
    <3> QED
      BY <3>2, <3>3
  <2>10. ASSUME NEW p \in Processes, Commit(p) \/ CommitFails(p) \/ Crash(p) PROVE TypeOK'
    <3>1. /\ effect' \in [Ids -> Int]
          /\ history' \in [Ids -> Sums \cup {None}]
          /\ stale' \subseteq Ids
      BY <1>2, <2>9, <2>10 DEF TypeOK, Commit, CommitFails, Crash
    <3>2. plan' \in [Processes -> SUBSET Ids]
      BY <1>2, <2>10 DEF TypeOK, Commit, CommitFails, Crash, Abandons
    <3> QED
      BY <1>2, <2>10, <3>1, <3>2 DEF TypeOK, Commit, CommitFails, Crash, Abandons, GoTo
  <2> QED
    BY <1>2, <2>1, <2>2, <2>3, <2>5, <2>7, <2>8, <2>10 DEF Next, Progress, Failure
<1> QED
  BY <1>1, <1>2, PTL DEF Spec

-----------------------------------------------------------------------------
LEMMA OneCurrent ==
  ASSUME TypeOK, NEW p \in Processes, NEW m, NEW n, IsCurrent(p, m), IsCurrent(p, n)
  PROVE  m = n
<1>1. m \in Nat /\ n \in Nat
  BY MigratorAssumption DEF TypeOK, IsCurrent
<1>2. (m <= n /\ n <= m) \/ (m >= n /\ n >= m)
  BY DEF IsCurrent
<1> QED
  BY <1>1, <1>2

(* A step that writes nothing and takes its process to no commit. *)
LEMMA QuietStep ==
  ASSUME RowsInv, NEW p \in Processes,
         OthersStay(p), pc'[p] # "commit",
         UNCHANGED <<kind, history, effect, stale>>
  PROVE  RowsInv'
<1>1. ASSUME NEW q \in Processes, NEW m \in Ids, AtCommit(q, m)'
      PROVE  /\ AtCommit(q, m)
             /\ direction'[q] = direction[q]
             /\ q \in hit' <=> q \in hit
  BY <1>1 DEF OthersStay, AtCommit, IsCurrent
<1>2. Transactional' = Transactional
  BY DEF Transactional
<1>3. StillAsFound => StillAsFound'
  BY <1>1 DEF StillAsFound, Deletes
<1>4. OneWriter => OneWriter'
  BY <1>1 DEF OneWriter
<1>5. HistoryTrue => HistoryTrue'
  BY DEF HistoryTrue, Transactional, Applied
<1> QED
  BY <1>2, <1>3, <1>4, <1>5 DEF RowsInv

(* A transaction that commits writes its row; nobody else has written it.    *)
LEMMA CommitStep ==
  ASSUME TypeOK, RowsInv, Transactional, NEW p \in Processes, pc[p] = "commit",
         NEW m \in plan[p], Commits(p, m),
         OthersStay(p), pc'[p] # "commit", UNCHANGED kind
  PROVE  RowsInv'
<1>1. m \in Ids /\ AtCommit(p, m)
  BY DEF TypeOK, Commits, AtCommit
<1>2. StillAsFound /\ OneWriter /\ HistoryTrue
  BY DEF RowsInv
<1>3. ASSUME NEW q \in Processes, NEW n \in Ids, AtCommit(q, n)'
      PROVE  /\ q # p
             /\ AtCommit(q, n)
             /\ direction'[q] = direction[q]
             /\ q \in hit' <=> q \in hit
  BY <1>3 DEF OthersStay, AtCommit, IsCurrent
<1>4. /\ direction[p] \in {"up", "down"}
      /\ history \in [Ids -> Sums \cup {None}]
      /\ effect \in [Ids -> Int]
      /\ Checksum[p][m] # None
  BY <1>1, MigratorAssumption DEF TypeOK
<1>5. CASE direction[p] = "down" /\ p \notin hit
  <2>1. /\ history' = history
        /\ stale' = stale \cup {m}
        /\ \A n \in Ids \ {m} : effect'[n] = effect[n]
    BY <1>4, <1>5 DEF Commits, TakesEffect
  <2>2. StillAsFound'
    BY <1>2, <1>3, <2>1 DEF StillAsFound, Deletes
  <2>3. HistoryTrue'
    BY <1>2, <2>1 DEF HistoryTrue, Transactional, Applied
  <2> QED
    BY <1>2, <1>3, <2>2, <2>3 DEF RowsInv, OneWriter
<1>6. CASE direction[p] = "up" \/ p \in hit
  <2>1. /\ Records(p, m) /\ stale' = stale /\ TakesEffect(p, m)
    BY <1>6 DEF Commits
  <2>2. \A n \in Ids \ {m} : history'[n] = history[n] /\ effect'[n] = effect[n]
    BY <1>4, <2>1 DEF Records, TakesEffect
  <2>3. ASSUME NEW q \in Processes, AtCommit(q, m), q # p
        PROVE  direction[q] # "up" /\ ~Deletes(q)
    BY <1>1, <1>2, <1>4, <1>6, <2>3 DEF StillAsFound, OneWriter, Deletes
  <2>4. StillAsFound'
    <3>1. ASSUME NEW q \in Processes, NEW n \in Ids, AtCommit(q, n)'
          PROVE  /\ direction'[q] = "up" => history'[n] = None
                 /\ Deletes(q)' => history'[n] # None
      BY <1>2, <1>3, <2>2, <2>3, <3>1 DEF StillAsFound, Deletes
    <3> QED
      BY <3>1 DEF StillAsFound
  <2>5. HistoryTrue'
    <3>1. CASE direction[p] = "up"
      <4>1. history[m] = None /\ history'[m] # None /\ effect'[m] = effect[m] + 1
        BY <1>1, <1>2, <1>4, <2>1, <3>1 DEF StillAsFound, Records, TakesEffect
      <4> QED
        BY <1>1, <1>2, <1>4, <2>1, <2>2, <4>1 DEF HistoryTrue, Transactional, Applied
    <3>2. CASE direction[p] = "down"
      <4>1. history[m] # None /\ history'[m] = None /\ effect'[m] = effect[m] - 1
        BY <1>1, <1>2, <1>4, <1>6, <2>1, <3>2 DEF StillAsFound, Deletes, Records, TakesEffect
      <4> QED
        BY <1>1, <1>2, <1>4, <2>1, <2>2, <4>1 DEF HistoryTrue, Transactional, Applied
    <3> QED
      BY <1>4, <3>1, <3>2
  <2> QED
    BY <1>2, <1>3, <2>4, <2>5 DEF RowsInv, OneWriter
<1> QED
  BY <1>4, <1>5, <1>6

(* The row of a mark that has gone through is free: no other open transaction *)
(* has written it.                                                          *)
LEMMA MarkStep ==
  ASSUME TypeOK, RowsInv, Transactional, NEW p \in Processes, Mark(p)
  PROVE  RowsInv'
<1>1. PICK m \in plan[p] :
        /\ IsCurrent(p, m)
        /\ direction[p] = "up" => history[m] = None
        /\ RowIsFree(p, m)
        /\ p \in hit' <=> history[m] # None
        /\ \A q \in Processes \ {p} : q \in hit' <=> q \in hit
        /\ pc' = [pc EXCEPT ![p] = "commit"]
        /\ UNCHANGED <<history, plan>>
  BY DEF Mark, Transactional, GoTo
<1>2. UNCHANGED <<kind, effect, stale, direction>>
  BY DEF Mark
<1>3. StillAsFound /\ OneWriter /\ HistoryTrue
  BY DEF RowsInv
<1>4. ASSUME NEW q \in Processes \ {p}, NEW n \in Ids, AtCommit(q, n)'
      PROVE  AtCommit(q, n) /\ (q \in hit' <=> q \in hit)
  BY <1>1, <1>2, <1>4 DEF TypeOK, AtCommit, IsCurrent
<1>5. ASSUME NEW n \in Ids, AtCommit(p, n)' PROVE n = m
  <2>1. IsCurrent(p, n)
    BY <1>1, <1>2, <1>5 DEF AtCommit, IsCurrent
  <2> QED
    BY <1>1, <2>1, OneCurrent
<1>6. StillAsFound'
  <2>1. ASSUME NEW q \in Processes, NEW n \in Ids, AtCommit(q, n)'
        PROVE  /\ direction'[q] = "up" => history'[n] = None
               /\ Deletes(q)' => history'[n] # None
    <3>1. CASE q = p
      BY <1>1, <1>2, <1>5, <2>1, <3>1 DEF Deletes
    <3>2. CASE q # p
      BY <1>1, <1>2, <1>3, <1>4, <2>1, <3>2 DEF Deletes, StillAsFound
    <3> QED
      BY <3>1, <3>2
  <2> QED
    BY <2>1 DEF StillAsFound
<1>7. ASSUME NEW q \in Processes \ {p}, AtCommit(q, m)', AtCommit(p, m)',
             direction[q] = direction[p],
             direction[p] = "up" \/ (p \in hit' /\ q \in hit')
      PROVE  FALSE
  <2>1. AtCommit(q, m) /\ (q \in hit' <=> q \in hit)
    BY <1>1, <1>4, <1>7 DEF TypeOK
  <2>2. direction[q] \in {"up", "down"}
    BY DEF TypeOK
  <2> QED
    BY <1>1, <1>7, <2>1, <2>2 DEF RowIsFree, AtCommit
<1>8. OneWriter'
  <2>1. ASSUME NEW q \in Processes, NEW r \in Processes, NEW n \in Ids,
               AtCommit(q, n)', AtCommit(r, n)',
               direction'[q] = direction'[r],
               direction'[q] = "up" \/ (q \in hit' /\ r \in hit')
        PROVE  q = r
    <3>1. CASE q # p /\ r # p
      BY <1>2, <1>3, <1>4, <2>1, <3>1 DEF OneWriter
    <3>2. CASE q = p /\ r # p
      BY <1>2, <1>5, <1>7, <2>1, <3>2
    <3>3. CASE q # p /\ r = p
      BY <1>2, <1>5, <1>7, <2>1, <3>3
    <3> QED
      BY <3>1, <3>2, <3>3
  <2> QED
    BY <2>1 DEF OneWriter
<1>9. HistoryTrue'
  BY <1>1, <1>2, <1>3 DEF HistoryTrue, Transactional, Applied
<1> QED
  BY <1>6, <1>8, <1>9 DEF RowsInv
(* Outside transactions the rows carry no promise. *)
LEMMA RowsStep == TypeOK /\ RowsInv /\ [Next]_vars => RowsInv'
<1> SUFFICES ASSUME TypeOK, RowsInv, [Next]_vars, Transactional PROVE RowsInv'
  BY DEF RowsInv, Transactional, Next, Up, Down, Plans, Progress, Failure, AcquireLock,
         LockTaken, Step, StepFails, Mark, MarkFails, Commit, CommitFails, Crash,
         Finally, vars
<1>1. CASE UNCHANGED vars
  BY <1>1 DEF vars, RowsInv, Transactional, StillAsFound, OneWriter, HistoryTrue,
              AtCommit, Deletes, IsCurrent, Applied
<1>2. ASSUME NEW p \in Processes, Up(p) \/ Down(p) PROVE RowsInv'
  <2>1. PICK all \in {Pending, Applied}, dir \in {"up", "down"} : Plans(p, dir, all)
    BY <1>2, Zenon DEF Up, Down
  <2>2. OthersStay(p) /\ pc'[p] # "commit" /\ UNCHANGED <<kind, history, effect, stale>>
    BY <2>1 DEF TypeOK, Plans, GoTo, OthersStay
  <2> QED
    BY <2>2, QuietStep
<1>3. ASSUME NEW p \in Processes, AcquireLock(p) \/ LockTaken(p) \/ Finally(p)
      PROVE  RowsInv'
  <2>1. OthersStay(p) /\ pc'[p] # "commit" /\ UNCHANGED <<kind, history, effect, stale>>
    BY <1>3 DEF TypeOK, AcquireLock, LockTaken, Finally, GoTo, OthersStay
  <2> QED
    BY <2>1, QuietStep
<1>4. ASSUME NEW p \in Processes, Step(p) \/ StepFails(p) \/ MarkFails(p) PROVE RowsInv'
  <2>1. OthersStay(p) /\ pc'[p] # "commit" /\ UNCHANGED <<kind, history, effect, stale>>
    BY <1>4 DEF TypeOK, Step, StepFails, MarkFails, Abandons, GoTo, OthersStay
  <2> QED
    BY <2>1, QuietStep
<1>5. ASSUME NEW p \in Processes, Mark(p) PROVE RowsInv'
  BY <1>5, MarkStep
<1>6. ASSUME NEW p \in Processes, Commit(p) \/ CommitFails(p) \/ Crash(p) PROVE RowsInv'
  <2>1. OthersStay(p) /\ pc'[p] # "commit" /\ UNCHANGED kind
    BY <1>6 DEF TypeOK, Commit, CommitFails, Crash, Abandons, GoTo, OthersStay
  <2>2. CASE UNCHANGED <<history, effect, stale>>
    BY <2>1, <2>2, QuietStep
  <2>3. CASE pc[p] = "commit" /\ \E m \in plan[p] : Commits(p, m)
    BY <2>1, <2>3, CommitStep
  <2> QED
    BY <1>6, <2>2, <2>3 DEF Commit, CommitFails, Crash
<1> QED
  BY <1>1, <1>2, <1>3, <1>4, <1>5, <1>6 DEF Next, Progress, Failure

(* With transactions the history of migrations is true in every state, for    *)
(* any number of migrators that overlap, fail and crash.                     *)
THEOREM HistoryStaysTrue == Spec => []HistoryTrue
<1>1. Init => RowsInv
  BY DEF Init, RowsInv, StillAsFound, OneWriter, HistoryTrue, AtCommit, Applied
<1>2. RowsInv => HistoryTrue
  BY DEF RowsInv, HistoryTrue
<1> QED
  BY <1>1, <1>2, TypeCorrect, RowsStep, PTL DEF Spec

-----------------------------------------------------------------------------
LEMMA LockStep == TypeOK /\ LockInv /\ [Next]_vars => LockInv'
<1> SUFFICES ASSUME TypeOK, LockInv, [Next]_vars, kind = "memory" PROVE LockInv'
  BY DEF LockInv, Next, Up, Down, Plans, Progress, Failure, AcquireLock,
         LockTaken, Step, StepFails, Mark, MarkFails, Commit, CommitFails, Crash,
         Finally, vars
<1>1. CASE UNCHANGED vars
  BY <1>1 DEF vars, LockInv
<1>2. ASSUME NEW p \in Processes, Up(p) \/ Down(p) PROVE LockInv'
  <2>1. PICK all \in {Pending, Applied}, dir \in {"up", "down"} : Plans(p, dir, all)
    BY <1>2, Zenon DEF Up, Down
  <2> QED
    BY <2>1 DEF TypeOK, LockInv, Plans, GoTo
<1>3. ASSUME NEW p \in Processes, AcquireLock(p) PROVE LockInv'
  BY <1>3 DEF TypeOK, LockInv, AcquireLock, GoTo
<1>4. ASSUME NEW p \in Processes, LockTaken(p) PROVE LockInv'
  BY <1>4 DEF TypeOK, LockInv, LockTaken, GoTo
<1>5. ASSUME NEW p \in Processes, Finally(p) PROVE LockInv'
  BY <1>5 DEF TypeOK, LockInv, Finally, GoTo
<1>6. ASSUME NEW p \in Processes, Step(p) \/ StepFails(p) PROVE LockInv'
  BY <1>6 DEF TypeOK, LockInv, Step, StepFails, Abandons, GoTo
<1>7. ASSUME NEW p \in Processes, Mark(p) PROVE LockInv'
  BY <1>7 DEF TypeOK, LockInv, Mark, Transactional, GoTo
<1>8. ASSUME NEW p \in Processes,
             MarkFails(p) \/ Commit(p) \/ CommitFails(p) \/ Crash(p)
      PROVE  LockInv'
  BY <1>8 DEF LockInv, MarkFails, Commit, CommitFails, Crash
<1> QED
  BY <1>1, <1>2, <1>3, <1>4, <1>5, <1>6, <1>7, <1>8 DEF Next, Progress, Failure

(* The lock of the memory store: no two calls run migrations at a time,       *)
(* whatever the calls that did not get it do.                                *)
THEOREM MigrationsExclude == Spec => []LockExcludes
<1>1. Init => LockInv
  BY DEF Init, LockInv
<1>2. LockInv => LockExcludes
  BY DEF LockInv, LockExcludes
<1> QED
  BY <1>1, <1>2, TypeCorrect, LockStep, PTL DEF Spec
-----------------------------------------------------------------------------
(* As long as no up has overlapped a down, the calls under way all go in one  *)
(* direction, and what a call's plan no longer holds or never held is done:   *)
(* everything before it is applied, or everything after it rolled back.      *)
OneDirection ==
  \A p, q \in Processes : Busy(p) /\ Busy(q) => direction[p] = direction[q]

PlansFit ==
  \A p \in Processes : Busy(p) =>
    \A m \in plan[p], n \in Ids \ plan[p] :
      /\ direction[p] = "up" /\ n < m => n \in Applied
      /\ direction[p] = "down" /\ n > m => n \notin Applied

NothingToDelete ==
  \A p \in Processes, m \in Ids :
    AtCommit(p, m) /\ direction[p] = "down" /\ p \notin hit => m \notin Applied

OrderInv == ~mixed => AppliedInOrder /\ OneDirection /\ PlansFit /\ NothingToDelete

(* A step that records nothing and leaves each plan alone or empties it. *)
LEMMA NoRecord ==
  ASSUME TypeOK, OrderInv, NEW p \in Processes,
         UNCHANGED <<history, direction, mixed>>,
         Busy(p) \/ ~Busy(p)',
         OthersStay(p), plan'[p] \in {plan[p], {}},
         pc'[p] # "commit"
  PROVE  OrderInv'
<1> SUFFICES ASSUME ~mixed PROVE OrderInv'
  BY DEF OrderInv
<1>1. AppliedInOrder /\ OneDirection /\ PlansFit /\ NothingToDelete
  BY DEF OrderInv
<1>2. AppliedInOrder'
  BY <1>1 DEF AppliedInOrder, Applied
<1>3. ASSUME NEW q \in Processes, Busy(q)'
      PROVE  Busy(q) /\ plan'[q] \in {plan[q], {}}
  BY <1>3 DEF OthersStay, Busy
<1>4. OneDirection'
  BY <1>1, <1>3 DEF OneDirection
<1>5. PlansFit'
  BY <1>1, <1>3 DEF PlansFit, Applied
<1>6. ASSUME NEW q \in Processes, NEW m \in Ids, AtCommit(q, m)'
      PROVE  AtCommit(q, m) /\ (q \in hit' <=> q \in hit)
  BY <1>6 DEF OthersStay, AtCommit, IsCurrent
<1>7. NothingToDelete'
  BY <1>1, <1>6 DEF NothingToDelete, Applied
<1> QED
  BY <1>2, <1>4, <1>5, <1>7 DEF OrderInv

(* A step that records the migration whose turn it is in the history. *)
LEMMA RecordStep ==
  ASSUME TypeOK, OrderInv, ~mixed, NEW p \in Processes, Busy(p),
         NEW m \in plan[p], IsCurrent(p, m), Records(p, m),
         UNCHANGED <<direction, mixed>>,
         OthersStay(p), plan'[p] \in {plan[p] \ {m}, {}},
         pc'[p] # "commit"
  PROVE  OrderInv'
<1>1. AppliedInOrder /\ OneDirection /\ PlansFit /\ NothingToDelete
  BY DEF OrderInv
<1>2. m \in Ids /\ Ids \subseteq Nat /\ direction[p] \in {"up", "down"}
  BY MigratorAssumption DEF TypeOK
<1>3. Applied' = IF direction[p] = "up" THEN Applied \cup {m} ELSE Applied \ {m}
  <2>1. Checksum[p][m] # None
    BY <1>2, MigratorAssumption
  <2> QED
    BY <1>2, <2>1 DEF TypeOK, Records, Applied
<1>4. \A n \in plan[p] : n \in Nat
  BY <1>2 DEF TypeOK
<1>5. direction[p] = "up" => \A n \in Ids : n < m => n \in Applied
  BY <1>1, <1>2, <1>4 DEF IsCurrent, PlansFit
<1>6. direction[p] = "down" => \A n \in Ids : n > m => n \notin Applied
  BY <1>1, <1>2, <1>4 DEF IsCurrent, PlansFit
<1>7. AppliedInOrder'
  <2>1. ASSUME NEW k \in Applied', NEW n \in Ids, n < k
        PROVE  n \in Applied'
    <3>1. CASE direction[p] = "up"
      BY <1>1, <1>2, <1>3, <1>5, <2>1, <3>1 DEF AppliedInOrder
    <3>2. CASE direction[p] = "down"
      <4>1. k \in Applied /\ k \in Ids /\ k # m
        BY <1>3, <3>2 DEF Applied
      <4>2. k < m
        BY <1>2, <1>6, <3>2, <4>1
      <4> QED
        BY <1>1, <1>2, <1>3, <2>1, <3>2, <4>1, <4>2 DEF AppliedInOrder
    <3> QED
      BY <1>2, <3>1, <3>2
  <2> QED
    BY <2>1 DEF AppliedInOrder
<1>8. ASSUME NEW q \in Processes, Busy(q)'
      PROVE  /\ Busy(q) /\ direction[q] = direction[p]
             /\ q # p => plan'[q] = plan[q]
  BY <1>1, <1>8 DEF OthersStay, Busy, OneDirection
<1>9. OneDirection'
  BY <1>1, <1>8 DEF OneDirection
<1>10. PlansFit'
  <2>1. ASSUME NEW q \in Processes, Busy(q)', NEW k \in plan'[q], NEW n \in Ids \ plan'[q]
        PROVE  /\ direction[q] = "up" /\ n < k => n \in Applied'
               /\ direction[q] = "down" /\ n > k => n \notin Applied'
    <3>1. k \in plan[q] /\ (n \notin plan[q] \/ n = m)
      BY <1>8, <2>1
    <3>2. n # m => /\ direction[q] = "up" /\ n < k => n \in Applied
                   /\ direction[q] = "down" /\ n > k => n \notin Applied
      BY <1>1, <1>8, <2>1, <3>1 DEF PlansFit
    <3> QED
      BY <1>3, <1>8, <2>1, <3>2
  <2> QED
    BY <2>1 DEF PlansFit
<1>11. NothingToDelete'
  <2>1. ASSUME NEW q \in Processes, NEW n \in Ids, AtCommit(q, n)'
        PROVE  AtCommit(q, n) /\ (q \in hit' <=> q \in hit) /\ Busy(q)'
    BY <2>1 DEF OthersStay, AtCommit, IsCurrent, Busy
  <2>2. ASSUME NEW q \in Processes, NEW n \in Ids, AtCommit(q, n)',
               direction[q] = "down", q \notin hit
        PROVE  n \notin Applied'
    <3>1. direction[p] = "down" /\ n \notin Applied
      BY <1>1, <1>8, <2>1, <2>2 DEF NothingToDelete
    <3> QED
      BY <1>3, <3>1
  <2> QED
    BY <2>1, <2>2 DEF NothingToDelete
<1> QED
  BY <1>7, <1>9, <1>10, <1>11 DEF OrderInv
LEMMA CommitRecords ==
  ASSUME TypeOK, OrderInv, ~mixed, NEW p \in Processes, pc[p] = "commit",
         NEW m \in plan[p], Commits(p, m)
  PROVE  Records(p, m)
<1>1. CASE direction[p] = "up" \/ p \in hit
  BY <1>1 DEF Commits
<1>2. CASE ~(direction[p] = "up" \/ p \in hit)
  <2>1. m \in Ids /\ direction[p] = "down" /\ history' = history
    BY <1>2 DEF TypeOK, Commits
  <2>2. history[m] = None
    BY <1>2, <2>1 DEF OrderInv, NothingToDelete, AtCommit, Commits, Applied
  <2> QED
    BY <2>1, <2>2 DEF TypeOK, Records
<1> QED
  BY <1>1, <1>2

LEMMA PlanStep ==
  ASSUME TypeOK, OrderInv, NEW p \in Processes, Up(p) \/ Down(p)
  PROVE  OrderInv'
<1> SUFFICES ASSUME ~mixed' PROVE OrderInv'
  BY DEF OrderInv
<1>1. PICK dir \in {"up", "down"} :
        /\ Plans(p, dir, IF dir = "up" THEN Pending ELSE Applied)
  BY DEF Up, Down
<1>2. /\ AppliedInOrder /\ OneDirection /\ PlansFit /\ NothingToDelete
      /\ ~mixed /\ ~Overlaps(p, dir)
  BY <1>1 DEF OrderInv, Plans
<1>3. /\ direction'[p] = dir
      /\ UNCHANGED <<history, hit>>
      /\ \A q \in Processes \ {p} :
           pc'[q] = pc[q] /\ plan'[q] = plan[q] /\ direction'[q] = direction[q]
      /\ pc'[p] = "lock"
      /\ FirstOf(plan'[p], IF dir = "up" THEN Pending ELSE Applied, dir)
  BY <1>1 DEF TypeOK, Plans, GoTo
<1>4. Applied' = Applied /\ AppliedInOrder'
  BY <1>2, <1>3 DEF AppliedInOrder, Applied
<1>5. OneDirection'
  BY <1>2, <1>3 DEF OneDirection, Overlaps, Busy
<1>6. PlansFit'
  <2>1. ASSUME NEW q \in Processes, Busy(q)', NEW m \in plan'[q], NEW n \in Ids \ plan'[q]
        PROVE  /\ direction'[q] = "up" /\ n < m => n \in Applied
               /\ direction'[q] = "down" /\ n > m => n \notin Applied
    <3>1. CASE q # p
      BY <1>2, <1>3, <2>1, <3>1 DEF PlansFit, Busy
    <3>2. CASE q = p
      <4>1. m \in Nat /\ n \in Nat
        BY <1>3, <2>1, <3>2, MigratorAssumption DEF FirstOf, Pending, Applied
      <4> QED
        BY <1>3, <2>1, <3>2, <4>1 DEF FirstOf, Pending
    <3> QED
      BY <3>1, <3>2
  <2> QED
    BY <1>4, <2>1 DEF PlansFit
<1>7. ASSUME NEW q \in Processes, NEW m \in Ids, AtCommit(q, m)'
      PROVE  AtCommit(q, m) /\ direction'[q] = direction[q]
  BY <1>3, <1>7 DEF AtCommit, IsCurrent
<1>8. NothingToDelete'
  BY <1>2, <1>3, <1>4, <1>7 DEF NothingToDelete
<1> QED
  BY <1>4, <1>5, <1>6, <1>8 DEF OrderInv

LEMMA MarkInTransaction ==
  ASSUME TypeOK, OrderInv, Transactional, NEW p \in Processes, Mark(p)
  PROVE  OrderInv'
<1>1. PICK m \in plan[p] :
        /\ IsCurrent(p, m)
        /\ p \in hit' <=> history[m] # None
        /\ \A q \in Processes \ {p} : q \in hit' <=> q \in hit
        /\ pc' = [pc EXCEPT ![p] = "commit"]
        /\ UNCHANGED <<history, plan, direction, mixed>>
  BY DEF Mark, Transactional, GoTo
<1>2. Applied' = Applied
  BY <1>1 DEF Applied
<1>3. \A q \in Processes : Busy(q)' => Busy(q)
  BY <1>1 DEF TypeOK, Busy, Mark
<1>4. ASSUME ~mixed, NEW q \in Processes, NEW n \in Ids, AtCommit(q, n)',
             direction[q] = "down", q \notin hit'
      PROVE  n \notin Applied
  <2>1. CASE q = p
    <3>1. IsCurrent(p, n)
      BY <1>1, <1>4, <2>1 DEF AtCommit, IsCurrent
    <3>2. n = m
      BY <1>1, <3>1, OneCurrent
    <3> QED
      BY <1>1, <1>4, <2>1, <3>2 DEF Applied
  <2>2. CASE q # p
    <3>1. AtCommit(q, n)
      BY <1>1, <1>4, <2>2 DEF TypeOK, AtCommit, IsCurrent
    <3> QED
      BY <1>1, <1>4, <2>2, <3>1 DEF OrderInv, NothingToDelete
  <2> QED
    BY <2>1, <2>2
<1>5. NothingToDelete' \/ mixed
  BY <1>1, <1>2, <1>4 DEF NothingToDelete
<1> QED
  BY <1>1, <1>2, <1>3, <1>5 DEF OrderInv, AppliedInOrder, OneDirection, PlansFit

LEMMA OrderStep == TypeOK /\ OrderInv /\ [Next]_vars => OrderInv'
<1> SUFFICES ASSUME TypeOK, OrderInv, [Next]_vars PROVE OrderInv'
  OBVIOUS
<1>1. CASE UNCHANGED vars
  BY <1>1 DEF vars, OrderInv, AppliedInOrder, OneDirection, PlansFit, NothingToDelete,
              AtCommit, IsCurrent, Applied, Busy
<1>2. ASSUME NEW p \in Processes, Up(p) \/ Down(p) PROVE OrderInv'
  BY <1>2, PlanStep
<1>3. ASSUME NEW p \in Processes, AcquireLock(p) \/ LockTaken(p) \/ Finally(p)
      PROVE  OrderInv'
  <2>1. /\ OthersStay(p) /\ plan'[p] \in {plan[p], {}} /\ pc'[p] # "commit" /\ Busy(p)
        /\ UNCHANGED <<history, direction, mixed>>
    BY <1>3 DEF TypeOK, AcquireLock, LockTaken, Finally, GoTo, OthersStay, Busy
  <2> QED
    BY <2>1, NoRecord
<1>4. ASSUME NEW p \in Processes, Step(p) \/ StepFails(p) \/ MarkFails(p) PROVE OrderInv'
  <2>1. /\ OthersStay(p) /\ plan'[p] \in {plan[p], {}} /\ pc'[p] # "commit" /\ Busy(p)
        /\ UNCHANGED <<history, direction, mixed>>
    BY <1>4 DEF TypeOK, Step, StepFails, MarkFails, Abandons, GoTo, OthersStay, Busy
  <2> QED
    BY <2>1, NoRecord
<1>5. ASSUME NEW p \in Processes, Mark(p) PROVE OrderInv'
  <2>1. CASE Transactional
    BY <1>5, <2>1, MarkInTransaction
  <2>2. CASE ~Transactional
    <3>1. PICK m \in plan[p] :
            /\ IsCurrent(p, m) /\ Records(p, m)
            /\ plan' = [plan EXCEPT ![p] = @ \ {m}]
            /\ pc' = [pc EXCEPT ![p] = "step"]
            /\ hit' = hit
      BY <1>5, <2>2 DEF Mark, GoTo
    <3>2. OthersStay(p) /\ Busy(p) /\ UNCHANGED <<direction, mixed>>
      BY <1>5, <3>1 DEF TypeOK, Mark, OthersStay, Busy
    <3>3. plan'[p] = plan[p] \ {m} /\ pc'[p] # "commit"
      BY <3>1 DEF TypeOK
    <3> QED
      BY <3>1, <3>2, <3>3, RecordStep DEF OrderInv
  <2> QED
    BY <2>1, <2>2
<1>6. ASSUME NEW p \in Processes, Commit(p) \/ CommitFails(p) \/ Crash(p) PROVE OrderInv'
  <2>1. /\ OthersStay(p) /\ pc'[p] # "commit" /\ Busy(p)
        /\ UNCHANGED <<direction, mixed>>
    BY <1>6 DEF TypeOK, Commit, CommitFails, Crash, Abandons, GoTo, OthersStay, Busy
  <2>2. CASE plan'[p] = {} /\ UNCHANGED history
    BY <2>1, <2>2, NoRecord
  <2>3. ASSUME NEW m \in plan[p], pc[p] = "commit", Commits(p, m),
               plan'[p] \in {plan[p] \ {m}, {}}
        PROVE  OrderInv'
    BY <2>1, <2>3, CommitRecords, RecordStep DEF OrderInv, Commits
  <2> QED
    BY <1>6, <2>2, <2>3 DEF TypeOK, Commit, CommitFails, Crash, Abandons
<1> QED
  BY <1>1, <1>2, <1>3, <1>4, <1>5, <1>6 DEF Next, Progress, Failure

(* Unless an up overlaps a down, the migrations are applied in order and      *)
(* without gaps, with or without a lock and transactions.                    *)
THEOREM OrderKept == Spec => []AppliedInOrder
<1>1. Init => OrderInv
  BY DEF Init, OrderInv, AppliedInOrder, OneDirection, PlansFit, NothingToDelete,
         AtCommit, Applied, Busy
<1>2. OrderInv => AppliedInOrder
  BY DEF OrderInv, AppliedInOrder
<1> QED
  BY <1>1, <1>2, TypeCorrect, OrderStep, PTL DEF Spec
=============================================================================
