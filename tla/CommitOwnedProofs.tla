--------------------------- MODULE CommitOwnedProofs ---------------------------
(***************************************************************************)
(* Proofs about CommitOwned for any number of agents, processes and paths: *)
(* its locks are never leaked or shared, a guarded commit changes its      *)
(* owned files only, and the sync after it unstages nothing that was       *)
(* staged before it. LockInv gives one agent the repository at a time as   *)
(* far as agents go; TxnInv follows the isolated index through that time.  *)
(***************************************************************************)
EXTENDS CommitOwned, TLAPS

USE CommitAssumption

\* Every step of CommitOwned and beside it keeps each variable in its type.
LEMMA TypeStep == TypeOK /\ [Next]_vars => TypeOK'
<1> SUFFICES ASSUME TypeOK, [Next]_vars PROVE TypeOK'
  OBVIOUS
<1> USE DEF TypeOK, Tree, Steps
<1>1. ASSUME NEW p \in Paths, NEW c \in Contents \cup {Absent}, Edit(p, c) PROVE TypeOK'
  BY <1>1 DEF Edit, Outside, locks, txn, ghost
<1>2. ASSUME NEW p \in Paths, Stage(p) PROVE TypeOK'
  BY <1>2 DEF Stage, Outside, locks, txn
<1>3. CASE PlainCommit
  BY <1>3 DEF PlainCommit, Outside, locks, txn
<1>4. ASSUME NEW a \in Agents, NEW O \in SUBSET Paths, Begin(a, O) PROVE TypeOK'
  BY <1>4 DEF Begin, To, repository, locks, ghost
<1>5. ASSUME NEW a \in Agents, TakeMutex(a) PROVE TypeOK'
  BY <1>5 DEF TakeMutex, To, repository, txn, counters, ghost
<1>6. ASSUME NEW a \in Agents, TakeFlock(a) PROVE TypeOK'
  BY <1>6 DEF TakeFlock, To, repository, txn, counters, ghost
<1>7. ASSUME NEW a \in Agents, FlockFails(a) PROVE TypeOK'
  BY <1>7 DEF FlockFails, To, repository, counters, ghost
<1>8. ASSUME NEW a \in Agents, SnapshotIndex(a) PROVE TypeOK'
  BY <1>8 DEF SnapshotIndex, To, repository, locks, counters
<1>9. ASSUME NEW a \in Agents, CheckPreStaged(a) PROVE TypeOK'
  <2> DEFINE F == {p \in owned[a] : scratch[a][p] = Absent}
  <2>1. F \in SUBSET Paths
    OBVIOUS
  <2>2. pc' \in [Agents -> Steps]
    BY <1>9 DEF CheckPreStaged, To
  <2>3. fresh' \in {fresh, [fresh EXCEPT ![a] = F]}
    BY <1>9 DEF CheckPreStaged
  <2> HIDE DEF F
  <2>4. fresh' \in [Agents -> SUBSET Paths]
    BY <2>1, <2>3
  <2>5. QED
    BY <1>9, <2>2, <2>4 DEF CheckPreStaged, repository, locks, counters, ghost
<1>10. ASSUME NEW a \in Agents, StageTracked(a) PROVE TypeOK'
  BY <1>10 DEF StageTracked, Add, To, repository, locks, counters, ghost
<1>11. ASSUME NEW a \in Agents, StageNew(a) PROVE TypeOK'
  BY <1>11 DEF StageNew, Add, To, repository, locks, counters, ghost
<1>12. ASSUME NEW a \in Agents, CheckStaged(a) PROVE TypeOK'
  BY <1>12 DEF CheckStaged, To, repository, locks, txn, counters
<1>13. ASSUME NEW a \in Agents, Commit(a) PROVE TypeOK'
  BY <1>13 DEF Commit, To, locks, txn, counters, ghost
<1>14. ASSUME NEW a \in Agents, SyncIndexAfterCommit(a) PROVE TypeOK'
  BY <1>14 DEF SyncIndexAfterCommit, To, locks, txn, counters, ghost
<1>15. ASSUME NEW a \in Agents, Fails(a) PROVE TypeOK'
  BY <1>15 DEF Fails, To, repository, locks, txn, counters, ghost
<1>16. ASSUME NEW S \in SUBSET Agents, Forget(S)
       PROVE  /\ owned' \in [Agents -> SUBSET Paths]
              /\ scratch' \in [Agents -> Tree]
              /\ fresh' \in [Agents -> SUBSET Paths]
  BY <1>16 DEF Forget, EmptyTree
<1>17. ASSUME NEW S \in SUBSET Agents, Unlock(S)
       PROVE  mutex' \in [Procs -> Agents \cup {None}] /\ flock' \in Agents \cup {None}
  BY <1>17 DEF Unlock
<1>18. ASSUME NEW a \in Agents, Release(a) PROVE TypeOK'
  BY <1>16, <1>17, <1>18 DEF Release, To, repository, counters, ghost
<1>19. ASSUME NEW k \in Procs, Crash(k) PROVE TypeOK'
  <2> DEFINE dead == {a \in Agents : proc[a] = k /\ pc[a] \notin Orphaned}
             done == {a \in dead : pc[a] \notin {"commit", "sync"}}
  <2>1. Forget(done) /\ Unlock(dead) /\ dead \subseteq Agents /\ done \subseteq Agents
    BY <1>19 DEF Crash
  <2>2. pc' \in [Agents -> Steps]
    BY <1>19 DEF Crash
  <2> HIDE DEF dead, done
  <2>3. QED
    BY <1>16, <1>17, <1>19, <2>1, <2>2 DEF Crash, repository, ghost
<1>20. ASSUME NEW a \in Agents, NEW p \in Paths, NEW c \in Contents \cup {Absent},
              HookStages(a, p, c)
       PROVE  TypeOK'
  <2>1. scratch' \in [Agents -> Tree] /\ hooked' \in [Agents -> SUBSET Paths]
    BY <1>20 DEF HookStages
  <2>2. QED
    BY <1>20, <2>1 DEF HookStages, Outside, repository, locks
<1>21. ASSUME NEW a \in Agents, OrphanCommits(a) PROVE TypeOK'
  BY <1>16, <1>21 DEF OrphanCommits, To, locks, counters
<1>22. ASSUME NEW a \in Agents, OrphanSyncs(a) PROVE TypeOK'
  BY <1>16, <1>22 DEF OrphanSyncs, To, locks, counters
<1>23. ASSUME NEW a \in Agents, OrphanDies(a) PROVE TypeOK'
  BY <1>16, <1>23 DEF OrphanDies, To, repository, locks, counters, ghost
<1>24. CASE UNCHANGED vars
  BY <1>24 DEF vars, repository, locks, txn, counters, ghost
<1>25. QED
  BY <1>1, <1>2, <1>3, <1>4, <1>5, <1>6, <1>7, <1>8, <1>9, <1>10, <1>11, <1>12, <1>13,
     <1>14, <1>15, <1>18, <1>19, <1>20, <1>21, <1>22, <1>23, <1>24
  DEF Next, OutsideStep, AgentStep, OrphanStep

\* TypeOK is an invariant of CommitOwned.
THEOREM TypeCorrect == Spec => []TypeOK
<1>1. Init => TypeOK
  BY DEF Init, TypeOK, Tree, EmptyTree, Steps
<1>2. QED
  BY <1>1, TypeStep, PTL DEF Spec

\* A step that leaves the locks alone leaves every agent as far as it was past
\* them, so that LockInv goes on to hold.
LEMMA LocksUnmoved ==
  ASSUME LockInv, UNCHANGED <<locks>>,
         \A a \in Agents : pc'[a] \in HoldsMutex <=> pc[a] \in HoldsMutex,
         \A a \in Agents : pc'[a] \in HoldsFlock <=> pc[a] \in HoldsFlock
  PROVE  LockInv'
<1>1. proc' = proc /\ mutex' = mutex /\ flock' = flock
  BY DEF locks
<1>2. ASSUME NEW a \in Agents
      PROVE  /\ pc'[a] \in HoldsMutex <=> mutex'[proc'[a]] = a
             /\ pc'[a] \in HoldsFlock <=> flock' = a
  BY <1>1 DEF LockInv
<1>3. \A k \in Procs : mutex'[k] # None => proc'[mutex'[k]] = k
  BY <1>1 DEF LockInv
<1>4. QED
  BY <1>2, <1>3, Zenon DEF LockInv

\* Taking, failing to take and dropping the locks keeps LockInv, crashes included.
LEMMA LockStep == TypeOK /\ LockInv /\ [Next]_vars => LockInv'
<1> SUFFICES ASSUME TypeOK, LockInv, [Next]_vars PROVE LockInv'
  OBVIOUS
<1> USE DEF HoldsMutex, HoldsFlock, Orphaned, Steps
<1>1. ASSUME UNCHANGED <<locks, pc>> PROVE LockInv'
  BY <1>1, LocksUnmoved DEF locks
<1>2. CASE OutsideStep
  BY <1>1, <1>2 DEF OutsideStep, Edit, Stage, PlainCommit, HookStages
<1>3. ASSUME NEW a \in Agents, NEW step \in Steps, To(a, step), UNCHANGED locks,
             \/ pc[a] = "idle" /\ step = "mutex"
             \/ pc[a] \in Orphaned /\ step = "idle"
             \/ pc[a] \in HoldsFlock /\ step \in HoldsFlock
      PROVE  LockInv'
  BY <1>3, LocksUnmoved DEF To, TypeOK
<1>4. ASSUME NEW a \in Agents, NEW O \in SUBSET Paths, Begin(a, O) PROVE LockInv'
  BY <1>3, <1>4 DEF Begin
<1>5. ASSUME NEW a \in Agents, TakeMutex(a) PROVE LockInv'
  BY <1>5 DEF TakeMutex, To, LockInv, TypeOK
<1>6. ASSUME NEW a \in Agents, TakeFlock(a) PROVE LockInv'
  BY <1>6 DEF TakeFlock, To, LockInv, TypeOK
<1>7. ASSUME NEW a \in Agents, FlockFails(a) PROVE LockInv'
  BY <1>7 DEF FlockFails, To, LockInv, TypeOK
<1>8. ASSUME NEW a \in Agents,
             \/ SnapshotIndex(a) \/ CheckPreStaged(a) \/ StageTracked(a) \/ StageNew(a)
             \/ CheckStaged(a) \/ Commit(a) \/ SyncIndexAfterCommit(a) \/ Fails(a)
      PROVE  LockInv'
  <2>1. \E step \in HoldsFlock : To(a, step)
    BY <1>8 DEF SnapshotIndex, CheckPreStaged, StageTracked, StageNew, CheckStaged,
                Commit, SyncIndexAfterCommit, Fails
  <2>2. UNCHANGED locks /\ pc[a] \in HoldsFlock
    BY <1>8 DEF SnapshotIndex, CheckPreStaged, StageTracked, StageNew, CheckStaged,
                Commit, SyncIndexAfterCommit, Fails
  <2>3. QED
    BY <1>3, <2>1, <2>2
<1>9. ASSUME NEW S \in SUBSET Agents, Unlock(S), UNCHANGED proc,
             \A a \in S : pc'[a] \notin HoldsMutex,
             \A a \in Agents \ S : pc'[a] = pc[a]
      PROVE  LockInv'
  BY <1>9 DEF Unlock, LockInv, TypeOK
<1>10. ASSUME NEW a \in Agents, Release(a) PROVE LockInv'
  BY <1>9, <1>10 DEF Release, To, TypeOK
<1>11. ASSUME NEW k \in Procs, Crash(k) PROVE LockInv'
  <2> DEFINE dead == {a \in Agents : proc[a] = k /\ pc[a] \notin Orphaned}
  <2>1. Unlock(dead) /\ dead \in SUBSET Agents /\ UNCHANGED proc
    BY <1>11 DEF Crash
  <2>2. \A a \in dead : pc'[a] \notin HoldsMutex
    BY <1>11 DEF Crash
  <2>3. \A a \in Agents \ dead : pc'[a] = pc[a]
    BY <1>11 DEF Crash
  <2> HIDE DEF dead
  <2>4. QED
    BY <1>9, <2>1, <2>2, <2>3
<1>12. ASSUME NEW a \in Agents, OrphanStep(a) PROVE LockInv'
  BY <1>3, <1>12 DEF OrphanStep, OrphanCommits, OrphanSyncs, OrphanDies
<1>13. CASE UNCHANGED vars
  BY <1>1, <1>13 DEF vars
<1>14. QED
  BY <1>2, <1>4, <1>5, <1>6, <1>7, <1>8, <1>10, <1>11, <1>12, <1>13 DEF Next, AgentStep

\* The locks of CommitOwned are held exactly by the calls that are past them.
THEOREM LocksAreHeldByCallers == Spec => []LockInv
<1>1. Init => LockInv
  BY DEF Init, LockInv, HoldsMutex, HoldsFlock, Orphaned, Steps
<1>2. QED
  BY <1>1, LockStep, TypeCorrect, PTL DEF Spec

-----------------------------------------------------------------------------
\* When the files diff names as staged are all owned, nothing else has changed but
\* for the old names of owned files that git takes for renamed.
LEMMA StagedOnlyOwned ==
  ASSUME NEW old, NEW new, NEW O, NEW H, NEW S \in StagedFiles(old, new), S \subseteq O
  PROVE  OwnedUpToRenames(old, new, O, H)
<1> SUFFICES ASSUME NEW p \in Paths \ (O \cup H), new[p] # old[p]
             PROVE  /\ new[p] = Absent
                    /\ \E q \in O : /\ old[q] = Absent
                                   /\ (q \in H \/ <<old[p], new[q]>> \in Similar)
  BY DEF OwnedUpToRenames
<1>1. PICK R \in Renamings(old, new) : S = {q \in Paths : old[q] # new[q]} \ R
  BY DEF StagedFiles
<1>2. p \in R /\ R \subseteq Deleted(old, new)
  BY <1>1 DEF Renamings
<1>3. PICK to \in [R -> Added(old, new)] : \A x \in R : <<old[x], new[to[x]]>> \in Similar
  BY <1>1 DEF Renamings
<1>4. to[p] \in Added(old, new)
  BY <1>2, <1>3
<1>5. to[p] \in S
  BY <1>1, <1>2, <1>4 DEF Deleted, Added
<1>6. QED
  BY <1>2, <1>3, <1>4, <1>5 DEF Deleted, Added

\* TxnInv for one agent.
Txn(a) ==
  /\ pc[a] \in {"tracked", "new"} => fresh[a] \subseteq owned[a]
  /\ pc[a] \in InTxn =>
       \A p \in Paths \ owned[a] :
         p \in late[a] \cup hooked[a] \/ scratch[a][p] = index[p]
  /\ pc[a] \in Committing =>
       OwnedUpToRenames(seen[a], scratch[a], owned[a], hooked[a])
  /\ pc[a] = "commit" => raced[a] \/ head = seen[a]
  /\ pc[a] = "sync" => raced[a] \/ head = scratch[a]

\* An agent whose own part of the state stays as it is, and whose index and HEAD
\* no other agent moves, is not disturbed.
LEMMA TxnUndisturbed ==
  ASSUME NEW a \in Agents, Txn(a),
         pc'[a] = pc[a], owned'[a] = owned[a], fresh'[a] = fresh[a],
         scratch'[a] = scratch[a], seen'[a] = seen[a],
         late'[a] = late[a], raced'[a] = raced[a], hooked'[a] = hooked[a],
         pc[a] \in InTxn => head' = head /\ index' = index
  PROVE  Txn(a)'
BY DEF Txn, InTxn, Committing, OwnedUpToRenames

\* What outsiders do to HEAD and to the index is on record with the agent.
LEMMA TxnWarned ==
  ASSUME NEW a \in Agents, Txn(a),
         pc'[a] = pc[a], owned'[a] = owned[a], fresh'[a] = fresh[a],
         scratch'[a] = scratch[a], seen'[a] = seen[a], hooked'[a] = hooked[a],
         late[a] \subseteq late'[a], raced[a] => raced'[a],
         raced'[a] \/ head' = head,
         \A p \in Paths : p \in late'[a] \/ index'[p] = index[p]
  PROVE  Txn(a)'
<1>1. pc[a] \in Committing => OwnedUpToRenames(seen'[a], scratch'[a], owned'[a], hooked'[a])
  BY DEF Txn
<1>2. QED
  BY <1>1 DEF Txn, InTxn, Committing

\* No step of CommitOwned or beside it breaks TxnInv.
LEMMA TxnStep == IndInv /\ [Next]_vars => TxnInv'
<1> SUFFICES ASSUME TypeOK, LockInv, [Next]_vars, NEW b \in Agents, Txn(b)
             PROVE  Txn(b)'
  BY DEF IndInv, TxnInv, Txn
<1> USE DEF TypeOK, Tree
<1>1. ASSUME NEW p \in Paths, NEW c \in Contents \cup {Absent}, Edit(p, c) PROVE Txn(b)'
  BY <1>1, TxnUndisturbed DEF Edit, txn, ghost
<1>2. ASSUME NEW p \in Paths, Stage(p) PROVE Txn(b)'
  BY <1>2, TxnWarned DEF Stage, txn
<1>3. CASE PlainCommit
  BY <1>3, TxnWarned DEF PlainCommit, txn
<1>4. ASSUME NEW a \in Agents, NEW O \in SUBSET Paths, Begin(a, O) PROVE Txn(b)'
  <2>1. CASE a = b
    BY <1>4, <2>1 DEF Begin, To, Txn, InTxn, Committing
  <2>2. CASE a # b
    BY <1>4, <2>2, TxnUndisturbed DEF Begin, To, repository, ghost
  <2>3. QED
    BY <2>1, <2>2
<1>5. ASSUME NEW a \in Agents, TakeMutex(a) \/ TakeFlock(a) \/ FlockFails(a) PROVE Txn(b)'
  <2>1. CASE a = b
    BY <1>5, <2>1 DEF TakeMutex, TakeFlock, FlockFails, To, Txn, InTxn, Committing
  <2>2. CASE a # b
    BY <1>5, <2>2, TxnUndisturbed
       DEF TakeMutex, TakeFlock, FlockFails, To, repository, txn, ghost
  <2>3. QED
    BY <2>1, <2>2
\* From here on the agent that moves has the file lock.
<1>6. ASSUME NEW a \in Agents, pc[a] \in HoldsFlock, a # b PROVE pc[b] \notin InTxn
  BY <1>6 DEF LockInv, HoldsFlock, Orphaned, Steps, InTxn
<1>7. ASSUME NEW a \in Agents, pc[a] \in HoldsFlock, a # b,
             pc'[b] = pc[b], owned'[b] = owned[b], fresh'[b] = fresh[b],
             scratch'[b] = scratch[b], seen'[b] = seen[b],
             late'[b] = late[b], raced'[b] = raced[b], hooked'[b] = hooked[b]
      PROVE  Txn(b)'
  BY <1>6, <1>7, TxnUndisturbed
<1>8. ASSUME NEW a \in Agents, SnapshotIndex(a) PROVE Txn(b)'
  <2>1. CASE a = b
    BY <1>8, <2>1 DEF SnapshotIndex, To, Txn, InTxn, Committing, repository
  <2>2. CASE a # b
    BY <1>7, <1>8, <2>2 DEF SnapshotIndex, To, HoldsFlock, Orphaned, Steps
  <2>3. QED
    BY <2>1, <2>2
<1>9. ASSUME NEW a \in Agents, CheckPreStaged(a) PROVE Txn(b)'
  <2>1. CASE a = b
    BY <1>9, <2>1 DEF CheckPreStaged, To, Txn, InTxn, Committing, repository, ghost
  <2>2. CASE a # b
    BY <1>7, <1>9, <2>2 DEF CheckPreStaged, To, HoldsFlock, Orphaned, Steps, ghost
  <2>3. QED
    BY <2>1, <2>2
<1>10. ASSUME NEW a \in Agents, NEW S \in SUBSET owned[a], Add(a, S),
              pc[a] \in {"tracked", "new"}, pc' \in {[pc EXCEPT ![a] = "new"],
                                                    [pc EXCEPT ![a] = "check"]},
              UNCHANGED <<repository, owned, fresh, ghost>>
       PROVE  Txn(b)'
  <2>1. CASE a = b
    BY <1>10, <2>1 DEF Add, Txn, InTxn, Committing, repository, ghost
  <2>2. CASE a # b
    BY <1>7, <1>10, <2>2 DEF Add, HoldsFlock, Orphaned, Steps, ghost
  <2>3. QED
    BY <2>1, <2>2
<1>11. ASSUME NEW a \in Agents, StageTracked(a) PROVE Txn(b)'
  BY <1>10, <1>11 DEF StageTracked, To
<1>12. ASSUME NEW a \in Agents, StageNew(a) PROVE Txn(b)'
  <2>1. CASE a = b
    <3>1. {p \in fresh[a] : tree[p] # Absent} \subseteq owned[a]
      BY <1>12, <2>1 DEF StageNew, Txn
    <3>2. QED
      BY <1>10, <1>12, <3>1 DEF StageNew, To
  <2>2. CASE a # b
    BY <1>7, <1>12, <2>2 DEF StageNew, Add, To, HoldsFlock, Orphaned, Steps, ghost
  <2>3. QED
    BY <2>1, <2>2
<1>13. ASSUME NEW a \in Agents, CheckStaged(a) PROVE Txn(b)'
  <2>1. CASE a = b
    <3>1. PICK S \in StagedFiles(head, scratch[a]) :
            To(a, IF S # {} /\ NoForeign(a, S) THEN "commit" ELSE "release")
      BY <1>13 DEF CheckStaged
    <3>2. CASE S # {} /\ NoForeign(a, S)
      <4>1. OwnedUpToRenames(head, scratch[a], owned[a], hooked[a])
        BY <3>2, StagedOnlyOwned DEF NoForeign
      <4>2. pc'[a] = "commit" /\ seen'[a] = head
        BY <1>13, <3>1, <3>2 DEF CheckStaged, To
      <4>3. OwnedUpToRenames(seen'[a], scratch'[a], owned'[a], hooked'[a])
        BY <1>13, <4>1, <4>2 DEF CheckStaged, txn
      <4>4. QED
        BY <1>13, <2>1, <4>2, <4>3 DEF CheckStaged, Txn, InTxn, Committing, repository, txn
    <3>3. CASE ~ (S # {} /\ NoForeign(a, S))
      BY <1>13, <2>1, <3>1, <3>3 DEF CheckStaged, To, Txn, InTxn, Committing
    <3>4. QED
      BY <3>2, <3>3
  <2>2. CASE a # b
    BY <1>7, <1>13, <2>2 DEF CheckStaged, To, HoldsFlock, Orphaned, Steps, txn
  <2>3. QED
    BY <2>1, <2>2
<1>14. ASSUME NEW a \in Agents, Commit(a) PROVE Txn(b)'
  <2>1. CASE a = b
    BY <1>14, <2>1 DEF Commit, To, Txn, InTxn, Committing, txn, ghost
  <2>2. CASE a # b
    BY <1>7, <1>14, <2>2 DEF Commit, To, HoldsFlock, Orphaned, Steps, txn, ghost
  <2>3. QED
    BY <2>1, <2>2
<1>15. ASSUME NEW a \in Agents, SyncIndexAfterCommit(a) PROVE Txn(b)'
  <2>1. CASE a = b
    BY <1>15, <2>1 DEF SyncIndexAfterCommit, To, Txn, InTxn, Committing
  <2>2. CASE a # b
    BY <1>7, <1>15, <2>2 DEF SyncIndexAfterCommit, To, HoldsFlock, Orphaned, Steps, txn, ghost
  <2>3. QED
    BY <2>1, <2>2
<1>16. ASSUME NEW a \in Agents, Fails(a) PROVE Txn(b)'
  <2>1. CASE a = b
    BY <1>16, <2>1 DEF Fails, To, Txn, InTxn, Committing
  <2>2. CASE a # b
    BY <1>7, <1>16, <2>2 DEF Fails, To, txn, ghost
  <2>3. QED
    BY <2>1, <2>2
<1>17. ASSUME NEW a \in Agents, Release(a) PROVE Txn(b)'
  <2>1. CASE a = b
    BY <1>17, <2>1 DEF Release, To, Txn, InTxn, Committing
  <2>2. CASE a # b
    BY <1>17, <2>2, TxnUndisturbed DEF Release, To, Forget, repository, ghost
  <2>3. QED
    BY <2>1, <2>2
<1>18. ASSUME NEW k \in Procs, Crash(k) PROVE Txn(b)'
  <2>1. /\ UNCHANGED <<repository, ghost>>
        /\ pc'[b] = IF proc[b] = k /\ pc[b] \notin Orphaned
                     THEN CASE pc[b] = "commit" -> "orphanCommit"
                            [] pc[b] = "sync" -> "orphanSync"
                            [] OTHER -> "idle"
                     ELSE pc[b]
    BY <1>18 DEF Crash
  <2>2. ~ (proc[b] = k /\ pc[b] \notin Orphaned /\ pc[b] \notin {"commit", "sync"}) =>
          owned'[b] = owned[b] /\ scratch'[b] = scratch[b] /\ fresh'[b] = fresh[b]
    BY <1>18 DEF Crash, Forget
  <2>3. CASE pc'[b] = pc[b] /\ pc[b] \notin {"idle"}
    <3>1. owned'[b] = owned[b] /\ scratch'[b] = scratch[b] /\ fresh'[b] = fresh[b]
      BY <2>1, <2>2, <2>3
    <3>2. QED
      BY <2>1, <2>3, <3>1, TxnUndisturbed DEF repository, ghost
  <2>4. CASE pc'[b] = "orphanCommit" /\ pc[b] = "commit"
    <3>1. owned'[b] = owned[b] /\ scratch'[b] = scratch[b]
      BY <2>2, <2>4
    <3>2. OwnedUpToRenames(seen'[b], scratch'[b], owned'[b], hooked'[b])
      BY <2>1, <2>4, <3>1 DEF Txn, Committing, ghost
    <3>3. QED
      BY <2>4, <3>2 DEF Txn, InTxn, Committing
  <2>5. CASE pc'[b] \in {"idle", "orphanSync"}
    BY <2>5 DEF Txn, InTxn, Committing
  <2>6. QED
    BY <2>1, <2>3, <2>4, <2>5
<1>19. ASSUME NEW a \in Agents, NEW p \in Paths, NEW c \in Contents \cup {Absent},
              HookStages(a, p, c)
       PROVE  Txn(b)'
  <2>1. CASE a = b
    <3>1. /\ pc'[b] = pc[b] /\ pc[b] \in Committing /\ UNCHANGED <<head, index>>
          /\ owned'[b] = owned[b] /\ seen'[b] = seen[b]
          /\ late'[b] = late[b] /\ raced'[b] = raced[b]
          /\ hooked'[b] = hooked[b] \cup {p}
          /\ \A q \in Paths : q # p => scratch'[b][q] = scratch[b][q]
      BY <1>19, <2>1 DEF HookStages, Committing, repository
    <3>2. OwnedUpToRenames(seen[b], scratch'[b], owned[b], hooked[b] \cup {p})
      <4>1. OwnedUpToRenames(seen[b], scratch[b], owned[b], hooked[b])
        BY <3>1 DEF Txn
      <4>2. owned[b] \subseteq Paths
        OBVIOUS
      <4>3. QED
        BY <3>1, <4>1, <4>2 DEF OwnedUpToRenames
    <3>3. pc[b] \in InTxn =>
            \A q \in Paths \ owned[b] :
              q \in late[b] \cup hooked'[b] \/ scratch'[b][q] = index[q]
      BY <3>1 DEF Txn
    <3>4. QED
      BY <3>1, <3>2, <3>3 DEF Txn, InTxn, Committing
  <2>2. CASE a # b
    BY <1>19, <2>2, TxnUndisturbed DEF HookStages, repository
  <2>3. QED
    BY <2>1, <2>2
<1>20. ASSUME NEW a \in Agents, OrphanStep(a) PROVE Txn(b)'
  <2>1. CASE a = b
    BY <1>20, <2>1 DEF OrphanStep, OrphanCommits, OrphanSyncs, OrphanDies, To,
                       Txn, InTxn, Committing
  <2>2. CASE a # b /\ OrphanCommits(a)
    BY <2>2, TxnWarned DEF OrphanCommits, To, Forget
  <2>3. CASE a # b /\ OrphanSyncs(a)
    BY <2>3, TxnWarned DEF OrphanSyncs, To, Forget
  <2>4. CASE a # b /\ OrphanDies(a)
    BY <2>4, TxnUndisturbed DEF OrphanDies, To, Forget, repository, ghost
  <2>5. QED
    BY <1>20, <2>1, <2>2, <2>3, <2>4 DEF OrphanStep
<1>21. CASE UNCHANGED vars
  BY <1>21, TxnUndisturbed DEF vars, repository, txn, ghost
<1>22. QED
  BY <1>1, <1>2, <1>3, <1>4, <1>5, <1>8, <1>9, <1>11, <1>12, <1>13, <1>14, <1>15, <1>16,
     <1>17, <1>18, <1>19, <1>20, <1>21 DEF Next, OutsideStep, AgentStep

\* The inductive invariant of CommitOwned.
THEOREM Inductive == Spec => []IndInv
<1>1. Init => IndInv
  <2>1. Init => TypeOK /\ LockInv
    BY DEF Init, TypeOK, Tree, EmptyTree, Steps, LockInv, HoldsMutex, HoldsFlock
  <2>2. Init => TxnInv
    BY DEF Init, TxnInv, InTxn, Committing
  <2>3. QED
    BY <2>1, <2>2 DEF IndInv
<1>2. IndInv /\ [Next]_vars => IndInv'
  BY TypeStep, LockStep, TxnStep DEF IndInv
<1>3. QED
  BY <1>1, <1>2, PTL DEF Spec

\* A guarded commit changes owned files only, but for what hooks stage, on top of the
\* HEAD it was checked with unless an outsider has committed; one whose caller has
\* died still keeps the first half.
THEOREM CommitsAreGuarded == Spec => GuardedCommit
<1> DEFINE Guarded(a) == Commits(a) =>
             /\ OwnedUpToRenames(seen[a], head', owned[a], hooked[a])
             /\ pc[a] = "commit" => raced[a] \/ head = seen[a]
<1>1. ASSUME IndInv, [Next]_vars, NEW a \in Agents, Commits(a) PROVE Guarded(a)
  <2>1. head' = scratch[a]
    <3>1. pc \in [Agents -> Steps] /\ pc[a] \in Committing /\ pc'[a] # pc[a] /\ head' # head
      BY <1>1 DEF Commits, IndInv, TypeOK, Committing
    <3>2. ~ OutsideStep /\ ~ UNCHANGED vars
      BY <3>1 DEF OutsideStep, Edit, Stage, PlainCommit, HookStages, vars
    <3>3. ASSUME NEW b \in Agents, NEW O, Begin(b, O) PROVE FALSE
      BY <3>1, <3>3 DEF Begin, repository
    <3>4. ASSUME NEW b \in Agents, AgentStep(b) PROVE head' = scratch[a]
      BY <3>1, <3>4 DEF AgentStep, TakeMutex, TakeFlock, FlockFails, SnapshotIndex,
         CheckPreStaged, StageTracked, StageNew, CheckStaged, Commit, SyncIndexAfterCommit,
         Fails, Release, To, repository
    <3>5. ASSUME NEW b \in Agents, OrphanStep(b) PROVE head' = scratch[a]
      BY <3>1, <3>5 DEF OrphanStep, OrphanCommits, OrphanSyncs, OrphanDies, To, repository
    <3>6. ASSUME NEW k \in Procs, Crash(k) PROVE FALSE
      BY <3>1, <3>6 DEF Crash, repository
    <3>7. QED
      BY <1>1, <3>2, <3>3, <3>4, <3>5, <3>6 DEF Next
  <2>2. OwnedUpToRenames(seen[a], scratch[a], owned[a], hooked[a])
    BY <1>1 DEF Commits, IndInv, TxnInv, Committing
  <2>3. pc[a] = "commit" => raced[a] \/ head = seen[a]
    BY <1>1 DEF IndInv, TxnInv
  <2>4. QED
    BY <2>1, <2>2, <2>3
<1>2. IndInv /\ [Next]_vars => [\A a \in Agents : Guarded(a)]_vars
  BY <1>1
<1>3. QED
  BY <1>2, Inductive, PTL DEF Spec, GuardedCommit

\* The sync of the real index after a guarded commit leaves everything that was
\* staged before the call as it was.
THEOREM SyncUnstagesNothing == Spec => StagingSurvives
<1> DEFINE Kept(a) == pc[a] = "sync" /\ pc'[a] = "release" =>
             \A p \in Paths \ owned[a] :
               index'[p] # index[p] => p \in late[a] \cup hooked[a] \/ raced[a]
<1>1. ASSUME IndInv, [Next]_vars, NEW a \in Agents, pc[a] = "sync", pc'[a] = "release"
      PROVE  Kept(a)
  <2>1. pc \in [Agents -> Steps] /\ pc'[a] # pc[a]
    BY <1>1 DEF IndInv, TypeOK
  <2>2. ASSUME NEW b \in Agents, OrphanStep(b) PROVE FALSE
    BY <1>1, <2>1, <2>2 DEF OrphanStep, OrphanCommits, OrphanSyncs, OrphanDies, Orphaned, To
  <2>3. index' = head \/ UNCHANGED index
    BY <1>1, <2>1, <2>2 DEF vars, repository, Next, OutsideStep, Edit, Stage,
                PlainCommit, HookStages, AgentStep, Begin, TakeMutex, TakeFlock, FlockFails,
                SnapshotIndex, CheckPreStaged, StageTracked, StageNew, CheckStaged, Commit,
                SyncIndexAfterCommit, Fails, Release, Crash, To
  <2>4. raced[a] \/ head = scratch[a]
    BY <1>1 DEF IndInv, TxnInv
  <2>5. \A p \in Paths \ owned[a] : p \in late[a] \cup hooked[a] \/ scratch[a][p] = index[p]
    BY <1>1 DEF IndInv, TxnInv, InTxn
  <2>6. QED
    BY <2>3, <2>4, <2>5
<1>2. IndInv /\ [Next]_vars => [\A a \in Agents : Kept(a)]_vars
  BY <1>1
<1>3. QED
  BY <1>2, Inductive, PTL DEF Spec, StagingSurvives
================================================================================
