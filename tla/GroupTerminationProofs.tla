------------------------ MODULE GroupTerminationProofs ------------------------
(***************************************************************************)
(* Proofs about GroupTermination for every set of commands and ids: no     *)
(* kill(-pgid) strikes a foreign group, and no member of a command's group *)
(* outlives its run.                                                       *)
(***************************************************************************)
EXTENDS GroupTermination, TLAPS

-----------------------------------------------------------------------------
KernelTypeOK ==
  /\ owner \in [Pids -> Commands \cup {Bystander, Nobody}]
  /\ leader \in [Pids -> {"alive", "zombie", "reaped"}]
  /\ kin \in [Pids -> 0..MaxKin]
  /\ stray \subseteq Commands

\* What one kill(-pgid, SIGKILL) leaves of the kernel's tables.
LEMMA KillTypes ==
  ASSUME TypeOK, NEW c \in Commands, NEW p, KillCommandProcessGroup(c, p)
  PROVE  KernelTypeOK'
<1>1. leader' \in [Pids -> {"alive", "zombie", "reaped"}]
  BY DEF TypeOK, KillCommandProcessGroup
<1>2. kin' \in [Pids -> 0..MaxKin]
  <2>1. kin' = [kin EXCEPT ![p] = 0] /\ kin \in [Pids -> 0..MaxKin]
    BY Zenon DEF TypeOK, KillCommandProcessGroup
  <2>2. 0 \in 0..MaxKin
    BY OwnersAssumption
  <2>3. QED
    BY <2>1, <2>2
<1>3. owner' \in [Pids -> Commands \cup {Bystander, Nobody}]
  BY DEF TypeOK, KillCommandProcessGroup, Release
<1>4. stray' \subseteq Commands
  <2>1. stray' = stray \/ stray' = stray \cup {c}
    BY Zenon DEF KillCommandProcessGroup
  <2>2. QED
    BY <2>1 DEF TypeOK
<1>5. QED
  BY <1>1, <1>2, <1>3, <1>4 DEF KernelTypeOK

\* Every variable keeps its type (the kernel's tables and the steps of run and
\* cancel in termination_unix.go).
THEOREM TypeCorrect == Spec => []TypeOK
<1> USE OwnersAssumption DEF TypeOK, RunSteps, WatcherSteps, Locked, Cancelling
<1>1. Init => TypeOK
  BY DEF Init
<1>2. TypeOK /\ [Next]_vars => TypeOK'
  <2> SUFFICES ASSUME TypeOK, [Next]_vars PROVE TypeOK'
    OBVIOUS
  <2>1. ASSUME NEW c \in Commands, RunStep(c) PROVE TypeOK'
    <3>1. CASE Start(c)
      <4>1. PICK p \in Pids : Spawn(c, p) /\ pid' = [pid EXCEPT ![c] = p]
        BY <3>1 DEF Start
      <4>2. KernelTypeOK'
        BY <3>1, <4>1 DEF Start, Spawn, KernelTypeOK
      <4>3. QED
        BY <3>1, <4>1, <4>2 DEF Start, KernelTypeOK
    <3>2. CASE StartFails(c)
      BY <3>2 DEF StartFails, kernel
    <3>3. CASE WaitProcessExitWithoutReap(c)
      BY <3>3 DEF WaitProcessExitWithoutReap, kernel
    <3>4. CASE WaitidFails(c)
      BY <3>4 DEF WaitidFails, kernel
    <3>5. CASE KillSurvivors(c)
      <4>1. KernelTypeOK'
        BY <3>5, KillTypes DEF KillSurvivors
      <4>2. QED
        BY <3>5, <4>1 DEF KillSurvivors, KernelTypeOK
    <3>6. CASE LockForReap(c)
      BY <3>6 DEF LockForReap, kernel
    <3>7. CASE Reap(c)
      BY <3>7 DEF Reap, Release
    <3>8. CASE Handshake(c)
      BY <3>8 DEF Handshake, kernel
    <3>9. CASE FinishWait(c)
      BY <3>9 DEF FinishWait, kernel
    <3>10. QED
      BY <2>1, <3>1, <3>2, <3>3, <3>4, <3>5, <3>6, <3>7, <3>8, <3>9 DEF RunStep
  <2>2. ASSUME NEW c \in Commands, WatcherStep(c) PROVE TypeOK'
    <3>1. CASE CancelKill(c)
      <4>1. KernelTypeOK'
        BY <3>1, KillTypes DEF CancelKill
      <4>2. QED
        BY <3>1, <4>1 DEF CancelKill, KernelTypeOK
    <3>2. CASE HardKill(c)
      BY <3>2 DEF HardKill
    <3>3. CASE ~CancelKill(c) /\ ~HardKill(c)
      BY <2>2, <3>3 DEF WatcherStep, WatcherCallsCancel, CancelLock, CancelCheck,
        CancelUnlock, WaitDelayExpires, kernel
    <3>4. QED
      BY <3>1, <3>2, <3>3
  <2>3. ASSUME NEW c \in Commands, ContextDone(c) PROVE TypeOK'
    BY <2>3 DEF ContextDone, kernel
  <2>4. ASSUME NEW p \in Pids, KernelStep(p) PROVE TypeOK'
    BY <2>4 DEF KernelStep, LeaderExits, Fork, KinExits, BystanderSpawns,
      BystanderReaped, Spawn, Release, code
  <2>5. CASE UNCHANGED vars
    BY <2>5 DEF vars, code, kernel
  <2>6. QED
    BY <2>1, <2>2, <2>3, <2>4, <2>5 DEF Next
<1>3. QED
  BY <1>1, <1>2, PTL DEF Spec

-----------------------------------------------------------------------------
\* The part of IndInv that only run's and cancel's own variables decide.
LEMMA MutexStep ==
  ASSUME TypeOK, MutexInv, StartedInv, [Next]_vars
  PROVE  MutexInv' /\ StartedInv'
<1> USE OwnersAssumption DEF TypeOK, MutexInv, StartedInv, Locked, Cancelling
<1>1. ASSUME NEW c \in Commands, RunStep(c) PROVE MutexInv' /\ StartedInv'
  <2>1. CASE Start(c)
    <3>1. PICK p \in Pids : pid' = [pid EXCEPT ![c] = p]
      BY <2>1 DEF Start
    <3>2. QED
      BY <2>1, <3>1 DEF Start
  <2>2. CASE StartFails(c)
    BY <2>2 DEF StartFails
  <2>3. CASE WaitProcessExitWithoutReap(c) \/ WaitidFails(c) \/ KillSurvivors(c)
    BY <2>3 DEF WaitProcessExitWithoutReap, WaitidFails, KillSurvivors
  <2>4. CASE LockForReap(c)
    BY <2>4 DEF LockForReap
  <2>5. CASE Reap(c)
    BY <2>5 DEF Reap
  <2>6. CASE Handshake(c)
    BY <2>6 DEF Handshake
  <2>7. CASE FinishWait(c)
    BY <2>7 DEF FinishWait
  <2>8. QED
    BY <1>1, <2>1, <2>2, <2>3, <2>4, <2>5, <2>6, <2>7 DEF RunStep
<1>2. ASSUME NEW c \in Commands, WatcherStep(c) PROVE MutexInv' /\ StartedInv'
  <2>1. CASE WatcherCallsCancel(c)
    BY <2>1 DEF WatcherCallsCancel
  <2>2. CASE CancelLock(c)
    BY <2>2 DEF CancelLock
  <2>3. CASE CancelCheck(c)
    BY <2>3 DEF CancelCheck
  <2>4. CASE CancelKill(c)
    BY <2>4 DEF CancelKill
  <2>5. CASE CancelUnlock(c)
    BY <2>5 DEF CancelUnlock
  <2>6. CASE WaitDelayExpires(c) \/ HardKill(c)
    BY <2>6 DEF WaitDelayExpires, HardKill
  <2>7. QED
    BY <1>2, <2>1, <2>2, <2>3, <2>4, <2>5, <2>6 DEF WatcherStep
<1>3. ASSUME NEW c \in Commands, ContextDone(c) PROVE MutexInv' /\ StartedInv'
  BY <1>3 DEF ContextDone
<1>4. ASSUME NEW p \in Pids, KernelStep(p) PROVE MutexInv' /\ StartedInv'
  BY <1>4 DEF KernelStep, LeaderExits, Fork, KinExits, BystanderSpawns,
    BystanderReaped, code
<1>5. CASE UNCHANGED vars
  BY <1>5 DEF vars, code
<1>6. QED
  BY <1>1, <1>2, <1>3, <1>4, <1>5 DEF Next

-----------------------------------------------------------------------------
\* PinnedInv and NoSurvivors read the kernel's tables of each command's own
\* group only.
GroupInv == PinnedInv /\ NoStrayKill /\ NoSurvivors

\* A kill(-pgid) issued while the id is pinned strikes the command's own group.
LEMMA PinnedKill ==
  ASSUME TypeOK, IndInv, NEW c \in Commands, run[c] \in Pinned,
         KillCommandProcessGroup(c, pid[c])
  PROVE  /\ pid[c] \in Pids
         /\ owner' = owner
         /\ stray' = stray
         /\ leader' = [leader EXCEPT ![pid[c]] = "zombie"]
         /\ kin' = [kin EXCEPT ![pid[c]] = 0]
<1>1. pid[c] \in Pids /\ owner[pid[c]] = c /\ leader[pid[c]] # "reaped"
  BY DEF TypeOK, IndInv, StartedInv, PinnedInv, Pinned
<1>2. leader' = [leader EXCEPT ![pid[c]] = "zombie"]
  BY <1>1 DEF TypeOK, KillCommandProcessGroup
<1>3. owner' = owner
  BY <1>1, <1>2 DEF TypeOK, KillCommandProcessGroup, Release
<1>4. stray' = stray /\ kin' = [kin EXCEPT ![pid[c]] = 0]
  BY <1>1, Zenon DEF KillCommandProcessGroup
<1>5. QED
  BY <1>1, <1>2, <1>3, <1>4

\* The kernel's own steps leave every pinned group with its owner and bring
\* nothing to life in a group that has no live member.
LEMMA KernelKeepsGroups ==
  ASSUME TypeOK, IndInv, NEW p \in Pids, KernelStep(p)
  PROVE  GroupInv'
<1> USE OwnersAssumption DEF TypeOK, IndInv, PinnedInv, NoSurvivors, NoStrayKill,
      GroupInv, Pinned, Locked, StartedInv, code
<1>1. CASE LeaderExits(p)
  BY <1>1 DEF LeaderExits
<1>2. CASE Fork(p)
  BY <1>2 DEF Fork
<1>3. CASE KinExits(p)
  BY <1>3 DEF KinExits, Release
<1>4. CASE BystanderSpawns(p)
  BY <1>4 DEF BystanderSpawns, Spawn
<1>5. CASE BystanderReaped(p)
  BY <1>5 DEF BystanderReaped, Release
<1>6. QED
  BY <1>1, <1>2, <1>3, <1>4, <1>5 DEF KernelStep

\* So do the steps of run and of the watcher.
LEMMA CodeKeepsGroups ==
  ASSUME TypeOK, IndInv, NEW c \in Commands,
         RunStep(c) \/ WatcherStep(c) \/ ContextDone(c)
  PROVE  GroupInv'
<1> USE OwnersAssumption DEF TypeOK, IndInv, PinnedInv, NoSurvivors, NoStrayKill,
      GroupInv, Pinned, Locked, StartedInv
<1>1. CASE Start(c)
  <2>1. PICK p \in Pids : Spawn(c, p) /\ pid' = [pid EXCEPT ![c] = p]
    BY <1>1 DEF Start
  <2>2. QED
    BY <1>1, <2>1 DEF Start, Spawn
<1>2. CASE \/ StartFails(c) \/ WaitProcessExitWithoutReap(c) \/ WaitidFails(c)
           \/ LockForReap(c) \/ Handshake(c) \/ FinishWait(c)
  BY <1>2 DEF StartFails, WaitProcessExitWithoutReap, WaitidFails, LockForReap,
    Handshake, FinishWait, kernel
<1>3. CASE KillSurvivors(c)
  <2>1. /\ pid[c] \in Pids
        /\ owner' = owner
        /\ stray' = stray
        /\ leader' = [leader EXCEPT ![pid[c]] = "zombie"]
        /\ kin' = [kin EXCEPT ![pid[c]] = 0]
    BY <1>3, PinnedKill DEF KillSurvivors
  <2>2. QED
    BY <1>3, <2>1 DEF KillSurvivors
<1>4. CASE Reap(c)
  <2>1. pid[c] \in Pids /\ owner[pid[c]] = c /\ kin[pid[c]] = 0
    BY <1>4 DEF Reap
  <2>2. owner' = [owner EXCEPT ![pid[c]] = Nobody]
    BY <1>4, <2>1 DEF Reap, Release
  <2>3. QED
    BY <1>4, <2>1, <2>2 DEF Reap
<1>5. CASE CancelKill(c)
  <2>1. run[c] \in Pinned
    BY <1>5 DEF CancelKill, MutexInv, Cancelling, RunSteps
  <2>2. /\ pid[c] \in Pids
        /\ owner' = owner
        /\ stray' = stray
        /\ leader' = [leader EXCEPT ![pid[c]] = "zombie"]
        /\ kin' = [kin EXCEPT ![pid[c]] = 0]
    BY <1>5, <2>1, PinnedKill DEF CancelKill
  <2>3. QED
    BY <1>5, <2>1, <2>2 DEF CancelKill
<1>6. CASE HardKill(c)
  BY <1>6 DEF HardKill
<1>7. CASE \/ WatcherCallsCancel(c) \/ CancelLock(c) \/ CancelCheck(c)
           \/ CancelUnlock(c) \/ WaitDelayExpires(c) \/ ContextDone(c)
  BY <1>7 DEF WatcherCallsCancel, CancelLock, CancelCheck, CancelUnlock,
    WaitDelayExpires, ContextDone, kernel
<1>8. QED
  BY <1>1, <1>2, <1>3, <1>4, <1>5, <1>6, <1>7 DEF RunStep, WatcherStep

\* The inductive invariant of run and cancel holds in every reachable state.
THEOREM Inductive == Spec => []IndInv
<1>1. Init => IndInv
  BY OwnersAssumption DEF Init, IndInv, MutexInv, StartedInv, PinnedInv, NoStrayKill,
    NoSurvivors, Locked, Cancelling, Pinned
<1>2. TypeOK /\ IndInv /\ [Next]_vars => IndInv'
  <2> SUFFICES ASSUME TypeOK, IndInv, [Next]_vars PROVE IndInv'
    OBVIOUS
  <2>1. MutexInv' /\ StartedInv'
    BY MutexStep DEF IndInv
  <2>2. GroupInv'
    <3>1. CASE UNCHANGED vars
      BY <3>1 DEF vars, code, kernel, IndInv, GroupInv, PinnedInv, NoStrayKill,
        NoSurvivors
    <3>2. QED
      BY <3>1, KernelKeepsGroups, CodeKeepsGroups DEF Next
  <2>3. QED
    BY <2>1, <2>2 DEF IndInv, GroupInv
<1>3. QED
  BY <1>1, <1>2, TypeCorrect, PTL DEF Spec

\* A group is signalled only while it is the command's own: the rule stated at
\* the head of termination_unix.go, for every number of commands and ids.
THEOREM KillsAreNeverStray == Spec => []NoStrayKill
<1>1. IndInv => NoStrayKill
  BY DEF IndInv
<1>2. QED
  BY <1>1, Inductive, PTL

\* run returns only when nothing of the command's group lives any more.
THEOREM GroupEndsWithRun == Spec => []NoSurvivors
<1>1. IndInv => NoSurvivors
  BY DEF IndInv
<1>2. QED
  BY <1>1, Inductive, PTL
=============================================================================
