------------------------------ MODULE CommitOwned ------------------------------
(***************************************************************************)
(* CommitOwned (gitops/git_commit.go, git_commitlock.go): commits exactly  *)
(* the files an agent owns out of a worktree and an index that others use  *)
(* at the same time. A mutex per process and a file lock serialize the     *)
(* guarded commits; each works on a scratch copy of the index, checks it   *)
(* against HEAD before and after it stages, commits it and points the real *)
(* index at the new HEAD. Git itself, the hooks it runs, and whoever edits,*)
(* stages or commits beside the agents without any lock, are modelled from *)
(* their use. A git command outlives the process that ran it.              *)
(***************************************************************************)
EXTENDS Naturals, FiniteSets

CONSTANTS
  Agents,      \* callers of CommitOwned
  Procs,       \* the processes they run in
  Paths,
  Contents,
  Similar,     \* the pairs of contents that git takes for a renamed file
  Absent,      \* a path that is not there
  None,        \* nobody holds the lock
  MaxMoves,    \* bound on what outsiders and hooks do
  MaxCommits,  \* bound on the calls of CommitOwned
  MaxCrashes   \* bound on process crashes

ASSUME CommitAssumption ==
  /\ Absent \notin Contents
  /\ None \notin Agents
  /\ {MaxMoves, MaxCommits, MaxCrashes} \subseteq Nat

ASSUME SimilarAssumption == Similar \subseteq Contents \X Contents

VARIABLES
  head,     \* the tree of HEAD
  index,    \* the real index
  tree,     \* the worktree
  proc,     \* the process each agent runs in
  mutex,    \* commitLockMutexes: who holds the mutex of each process
  flock,    \* who holds cozy-commit.lock
  pc,       \* where each agent's call is
  owned,    \* its owned files
  scratch,  \* its isolated index
  fresh,    \* its owned files that the isolated index did not have
  moves, commits, crashes,   \* counted against their bounds
  seen,     \* history: HEAD when the agent last checked what it staged
  late,     \* history: what outsiders have staged since the agent's snapshot
  raced,    \* history: an outsider has committed since the agent's last check
  hooked    \* history: what hooks have staged in the agent's isolated index

repository == <<head, index, tree>>
locks == <<proc, mutex, flock>>
txn == <<owned, scratch, fresh>>
counters == <<moves, commits, crashes>>
ghost == <<seen, late, raced, hooked>>
vars == <<repository, locks, pc, txn, counters, ghost>>

Tree == [Paths -> Contents \cup {Absent}]
EmptyTree == [p \in Paths |-> Absent]

Steps == {"idle", "mutex", "flock", "snapshot", "precheck", "tracked", "new", "check",
          "commit", "sync", "release", "orphanCommit", "orphanSync"}
\* The caller is dead, its last git command is not.
Orphaned == {"orphanCommit", "orphanSync"}
HoldsFlock == Steps \ ({"idle", "mutex", "flock"} \cup Orphaned)
HoldsMutex == HoldsFlock \cup {"flock"}

TypeOK ==
  /\ {head, index, tree} \subseteq Tree
  /\ proc \in [Agents -> Procs]
  /\ mutex \in [Procs -> Agents \cup {None}]
  /\ flock \in Agents \cup {None}
  /\ pc \in [Agents -> Steps]
  /\ owned \in [Agents -> SUBSET Paths]
  /\ scratch \in [Agents -> Tree]
  /\ fresh \in [Agents -> SUBSET Paths]
  /\ moves \in 0..MaxMoves
  /\ commits \in 0..MaxCommits
  /\ crashes \in 0..MaxCrashes
  /\ seen \in [Agents -> Tree]
  /\ late \in [Agents -> SUBSET Paths]
  /\ raced \in [Agents -> BOOLEAN]
  /\ hooked \in [Agents -> SUBSET Paths]

Init ==
  /\ head \in Tree /\ index \in Tree /\ tree \in Tree
  /\ proc \in [Agents -> Procs]
  /\ mutex = [k \in Procs |-> None]
  /\ flock = None
  /\ pc = [a \in Agents |-> "idle"]
  /\ owned = [a \in Agents |-> {}]
  /\ scratch = [a \in Agents |-> EmptyTree]
  /\ fresh = [a \in Agents |-> {}]
  /\ moves = 0 /\ commits = 0 /\ crashes = 0
  /\ seen = [a \in Agents |-> EmptyTree]
  /\ late = [a \in Agents |-> {}]
  /\ raced = [a \in Agents |-> FALSE]
  /\ hooked = [a \in Agents |-> {}]

-----------------------------------------------------------------------------
(* Git. *)

Deleted(h, i) == {p \in Paths : h[p] # Absent /\ i[p] = Absent}
Added(h, i) == {p \in Paths : h[p] = Absent /\ i[p] # Absent}

\* diff --cached detects renames: it pairs deletions with similar additions, each
\* with one of its own, and of a pair it names the added path only. Which pairs it
\* finds is up to git's heuristics, limits and configuration.
Renamings(h, i) ==
  {R \in SUBSET Deleted(h, i) :
     \E to \in [R -> Added(h, i)] :
       /\ \A p, q \in R : to[p] = to[q] => p = q
       /\ \A p \in R : <<h[p], i[to[p]]>> \in Similar}

\* stagedFiles: diff --cached --name-only, what it may print
StagedFiles(h, i) == {{p \in Paths : h[p] # i[p]} \ R : R \in Renamings(h, i)}

-----------------------------------------------------------------------------
(* Outsiders: users, editors and tools that take no lock. *)

Outside == moves < MaxMoves /\ moves' = moves + 1

Edit(p, c) ==
  /\ Outside
  /\ tree[p] # c
  /\ tree' = [tree EXCEPT ![p] = c]
  /\ UNCHANGED <<head, index, locks, pc, txn, commits, crashes, ghost>>

Stage(p) ==
  /\ Outside
  /\ index[p] # tree[p]
  /\ index' = [index EXCEPT ![p] = tree[p]]
  /\ late' = [a \in Agents |-> late[a] \cup {p}]
  /\ UNCHANGED <<head, tree, locks, pc, txn, commits, crashes, seen, raced, hooked>>

PlainCommit ==
  /\ Outside
  /\ index # head
  /\ head' = index
  /\ raced' = [a \in Agents |-> TRUE]
  /\ UNCHANGED <<index, tree, locks, pc, txn, commits, crashes, seen, late, hooked>>

-----------------------------------------------------------------------------
(* CommitOwned. *)

To(a, step) == pc' = [pc EXCEPT ![a] = step]

Begin(a, O) ==
  /\ pc[a] = "idle"
  /\ commits < MaxCommits
  /\ commits' = commits + 1
  /\ owned' = [owned EXCEPT ![a] = O]
  /\ To(a, "mutex")
  /\ UNCHANGED <<repository, locks, scratch, fresh, moves, crashes, ghost>>

\* acquireCommitLock: the mutex of the process is waited for without a limit...
TakeMutex(a) ==
  /\ pc[a] = "mutex"
  /\ mutex[proc[a]] = None
  /\ mutex' = [mutex EXCEPT ![proc[a]] = a]
  /\ To(a, "flock")
  /\ UNCHANGED <<repository, proc, flock, txn, counters, ghost>>

\* Faulty form: nobody else's lock is noticed.
TakeFlockAnyway(a) ==
  /\ pc[a] = "flock"
  /\ flock' = a
  /\ To(a, "snapshot")
  /\ UNCHANGED <<repository, proc, mutex, txn, counters, ghost>>

\* ... the file lock for 30 seconds or until the caller's context ends.
TakeFlock(a) ==
  /\ pc[a] = "flock"
  /\ flock = None
  /\ flock' = a
  /\ To(a, "snapshot")
  /\ UNCHANGED <<repository, proc, mutex, txn, counters, ghost>>

\* Faulty form: the failure keeps the mutex.
FlockFailsWithMutex(a) ==
  /\ pc[a] = "flock"
  /\ To(a, "idle")
  /\ owned' = [owned EXCEPT ![a] = {}]
  /\ UNCHANGED <<repository, locks, scratch, fresh, counters, ghost>>

\* It passes, or the lock file cannot be opened: the call ends.
FlockFails(a) ==
  /\ pc[a] = "flock"
  /\ mutex' = [mutex EXCEPT ![proc[a]] = None]
  /\ To(a, "idle")
  /\ owned' = [owned EXCEPT ![a] = {}]
  /\ UNCHANGED <<repository, proc, flock, scratch, fresh, counters, ghost>>

\* Faulty form: the isolated index starts from HEAD.
SnapshotHead(a) ==
  /\ pc[a] = "snapshot"
  /\ scratch' = [scratch EXCEPT ![a] = head]
  /\ late' = [late EXCEPT ![a] = {}]
  /\ hooked' = [hooked EXCEPT ![a] = {}]
  /\ To(a, "precheck")
  /\ UNCHANGED <<repository, locks, owned, fresh, counters, seen, raced>>

\* The isolated index starts as a copy of the real one.
SnapshotIndex(a) ==
  /\ pc[a] = "snapshot"
  /\ scratch' = [scratch EXCEPT ![a] = index]
  /\ late' = [late EXCEPT ![a] = {}]
  /\ hooked' = [hooked EXCEPT ![a] = {}]
  /\ To(a, "precheck")
  /\ UNCHANGED <<repository, locks, owned, fresh, counters, seen, raced>>

\* Faulty form: one owned file among the staged ones is enough.
SomeOwned(a, S) == S \cap owned[a] # {}

\* Everything that is named as staged belongs to the owned files.
NoForeign(a, S) == S \subseteq owned[a]

\* Content staged before the call is owned, or the call ends with a conflict.
\* The owned files the index does not have are told apart here.
CheckPreStaged(a) ==
  /\ pc[a] = "precheck"
  /\ \E S \in StagedFiles(head, scratch[a]) :
       IF NoForeign(a, S)
         THEN /\ fresh' = [fresh EXCEPT ![a] = {p \in owned[a] : scratch[a][p] = Absent}]
              /\ To(a, "tracked")
         ELSE /\ To(a, "release")
              /\ UNCHANGED fresh
  /\ UNCHANGED <<repository, locks, owned, scratch, counters, ghost>>

\* git add of the files S as they are in the worktree now.
Add(a, S) ==
  scratch' = [scratch EXCEPT ![a] = [p \in Paths |-> IF p \in S THEN tree[p] ELSE @[p]]]

\* add -u: modifications and deletions of tracked files
StageTracked(a) ==
  /\ pc[a] = "tracked"
  /\ Add(a, owned[a] \ fresh[a])
  /\ To(a, "new")
  /\ UNCHANGED <<repository, locks, owned, fresh, counters, ghost>>

\* add, or add -f of ignored ones: the new files that exist
StageNew(a) ==
  /\ pc[a] = "new"
  /\ Add(a, {p \in fresh[a] : tree[p] # Absent})
  /\ To(a, "check")
  /\ UNCHANGED <<repository, locks, owned, fresh, counters, ghost>>

\* Nothing staged: skipped; something foreign: conflict.
CheckStaged(a) ==
  /\ pc[a] = "check"
  /\ \E S \in StagedFiles(head, scratch[a]) :
       To(a, IF S # {} /\ NoForeign(a, S) THEN "commit" ELSE "release")
  /\ seen' = [seen EXCEPT ![a] = head]
  /\ raced' = [raced EXCEPT ![a] = FALSE]
  /\ UNCHANGED <<repository, locks, txn, counters, late, hooked>>

\* Faulty form: the real index is committed.
CommitRealIndex(a) ==
  /\ pc[a] = "commit"
  /\ index # head
  /\ head' = index
  /\ To(a, "sync")
  /\ UNCHANGED <<index, tree, locks, txn, counters, ghost>>

\* git commit runs the repository's hooks on the isolated index, after the check.
HookStages(a, p, c) ==
  /\ Outside
  /\ pc[a] \in {"commit", "orphanCommit"}
  /\ scratch[a][p] # c
  /\ scratch' = [scratch EXCEPT ![a][p] = c]
  /\ hooked' = [hooked EXCEPT ![a] = @ \cup {p}]
  /\ UNCHANGED <<repository, locks, pc, owned, fresh, commits, crashes, seen, late, raced>>

\* git commit of the isolated index, on top of whatever HEAD is by now.
Commit(a) ==
  /\ pc[a] = "commit"
  /\ scratch[a] # head
  /\ head' = scratch[a]
  /\ To(a, "sync")
  /\ UNCHANGED <<index, tree, locks, txn, counters, ghost>>

\* rev-parse reads the new HEAD; reset --mixed makes the real index the tree of HEAD.
SyncIndexAfterCommit(a) ==
  /\ pc[a] = "sync"
  /\ index' = head
  /\ To(a, "release")
  /\ UNCHANGED <<head, tree, locks, txn, counters, ghost>>

\* A git command, the copy of the index or a stat fails: the call ends there.
Fails(a) ==
  /\ pc[a] \in HoldsFlock \ {"release"}
  /\ To(a, "release")
  /\ UNCHANGED <<repository, locks, txn, counters, ghost>>

\* The locks of the callers S are dropped.
Unlock(S) ==
  /\ mutex' = [k \in Procs |-> IF mutex[k] \in S THEN None ELSE mutex[k]]
  /\ flock' = IF flock \in S THEN None ELSE flock

\* Nothing looks at the isolated indexes of the callers S any more.
Forget(S) ==
  /\ owned' = [a \in Agents |-> IF a \in S THEN {} ELSE owned[a]]
  /\ scratch' = [a \in Agents |-> IF a \in S THEN EmptyTree ELSE scratch[a]]
  /\ fresh' = [a \in Agents |-> IF a \in S THEN {} ELSE fresh[a]]

Release(a) ==
  /\ pc[a] = "release"
  /\ To(a, "idle")
  /\ Forget({a})
  /\ Unlock({a})
  /\ UNCHANGED <<repository, proc, counters, ghost>>

\* A process dies. The kernel drops its file lock; nothing removes the scratch
\* file. A git commit or reset that it was waiting for runs on.
Crash(k) ==
  /\ crashes < MaxCrashes
  /\ crashes' = crashes + 1
  /\ LET dead == {a \in Agents : proc[a] = k /\ pc[a] \notin Orphaned} IN
     /\ pc' = [a \in Agents |->
          IF a \in dead THEN CASE pc[a] = "commit" -> "orphanCommit"
                               [] pc[a] = "sync" -> "orphanSync"
                               [] OTHER -> "idle"
                        ELSE pc[a]]
     /\ Forget({a \in dead : pc[a] \notin {"commit", "sync"}})
     /\ Unlock(dead)
  /\ UNCHANGED <<repository, proc, moves, commits, ghost>>

\* To the other callers the orphan's commit is an outsider's...
OrphanCommits(a) ==
  /\ pc[a] = "orphanCommit"
  /\ scratch[a] # head
  /\ head' = scratch[a]
  /\ raced' = [b \in Agents |-> TRUE]
  /\ To(a, "idle")
  /\ Forget({a})
  /\ UNCHANGED <<index, tree, locks, counters, seen, late, hooked>>

\* ... and so is what its reset does to the real index.
OrphanSyncs(a) ==
  /\ pc[a] = "orphanSync"
  /\ index' = head
  /\ late' = [b \in Agents |-> late[b] \cup {p \in Paths : index[p] # head[p]}]
  /\ To(a, "idle")
  /\ Forget({a})
  /\ UNCHANGED <<head, tree, locks, counters, seen, raced, hooked>>

\* It fails, or dies as well.
OrphanDies(a) ==
  /\ pc[a] \in Orphaned
  /\ To(a, "idle")
  /\ Forget({a})
  /\ UNCHANGED <<repository, locks, counters, ghost>>

-----------------------------------------------------------------------------
AgentStep(a) ==
  \/ TakeMutex(a)
  \/ TakeFlock(a)
  \/ FlockFails(a)
  \/ SnapshotIndex(a)
  \/ CheckPreStaged(a)
  \/ StageTracked(a)
  \/ StageNew(a)
  \/ CheckStaged(a)
  \/ Commit(a)
  \/ SyncIndexAfterCommit(a)
  \/ Fails(a)
  \/ Release(a)

OrphanStep(a) ==
  \/ OrphanCommits(a)
  \/ OrphanSyncs(a)
  \/ OrphanDies(a)

OutsideStep ==
  \/ \E p \in Paths, c \in Contents \cup {Absent} : Edit(p, c)
  \/ \E p \in Paths : Stage(p)
  \/ PlainCommit
  \/ \E a \in Agents, p \in Paths, c \in Contents \cup {Absent} : HookStages(a, p, c)

Next ==
  \/ OutsideStep
  \/ \E a \in Agents :
       AgentStep(a) \/ OrphanStep(a) \/ \E O \in SUBSET Paths \ {{}} : Begin(a, O)
  \/ \E k \in Procs : Crash(k)

Spec == Init /\ [][Next]_vars

-----------------------------------------------------------------------------
(* Properties. *)

\* What changes outside the owned files O when hooks stage H: at most the deletion
\* of a file that an owned one replaces with similar content, a rename to git.
OwnedUpToRenames(old, new, O, H) ==
  \A p \in Paths \ (O \cup H) :
    \/ new[p] = old[p]
    \/ /\ new[p] = Absent
       /\ \E q \in O : old[q] = Absent /\ (q \in H \/ <<old[p], new[q]>> \in Similar)

Commits(a) ==
  /\ pc[a] \in {"commit", "orphanCommit"}
  /\ pc'[a] \in {"sync", "idle"}
  /\ head' # head

\* Against the HEAD it was checked with, a guarded commit changes owned files and
\* what a hook stages, whatever others stage meanwhile and even when its caller has
\* died; and that HEAD is its parent unless an outsider, or the git command of a
\* dead caller, has committed: live calls never overwrite one another.
GuardedCommit ==
  [][\A a \in Agents : Commits(a) =>
       /\ OwnedUpToRenames(seen[a], head', owned[a], hooked[a])
       /\ pc[a] = "commit" => raced[a] \/ head = seen[a]]_vars

\* Pointing the index at HEAD unstages nothing that was staged before the call
\* began its transaction; what others stage in its course, what hooks stage in its
\* own index and what others commit has no such promise.
StagingSurvives ==
  [][\A a \in Agents : pc[a] = "sync" /\ pc'[a] = "release" =>
       \A p \in Paths \ owned[a] :
         index'[p] # index[p] => p \in late[a] \cup hooked[a] \/ raced[a]]_vars

\* The locks are held by the calls that are past them and by nobody else: none is
\* leaked on an early return, a timeout or a crash, and none is shared.
LockInv ==
  /\ \A a \in Agents : pc[a] \in HoldsMutex <=> mutex[proc[a]] = a
  /\ \A a \in Agents : pc[a] \in HoldsFlock <=> flock = a
  /\ \A k \in Procs : mutex[k] # None => proc[mutex[k]] = k

\* What makes the two inductive. In a transaction only owned files have been
\* staged on top of the index it started from, but by hooks; one that is about to
\* commit has been checked against HEAD; one that is about to sync has become HEAD.
InTxn == {"precheck", "tracked", "new", "check", "commit", "sync"}
Committing == {"commit", "orphanCommit"}
TxnInv ==
  \A a \in Agents :
    /\ pc[a] \in {"tracked", "new"} => fresh[a] \subseteq owned[a]
    /\ pc[a] \in InTxn =>
         \A p \in Paths \ owned[a] :
           p \in late[a] \cup hooked[a] \/ scratch[a][p] = index[p]
    /\ pc[a] \in Committing =>
         OwnedUpToRenames(seen[a], scratch[a], owned[a], hooked[a])
    /\ pc[a] = "commit" => raced[a] \/ head = seen[a]
    /\ pc[a] = "sync" => raced[a] \/ head = scratch[a]

IndInv == TypeOK /\ LockInv /\ TxnInv

\* "stages and commits exactly the declared owned files", when no hook stages any
CommitsExactlyOwned ==
  [][\A a \in Agents : Commits(a) =>
       \A p \in Paths \ (owned[a] \cup hooked[a]) : raced[a] \/ head'[p] = head[p]]_vars
=============================================================================
