--------------------------- MODULE GroupTermination ---------------------------
(***************************************************************************)
(* The life of a command's process group (command/termination_unix.go):    *)
(* run starts the leader, waits for it without reaping it, kills what is   *)
(* left of the group and only then reaps, while exec.Cmd's context watcher *)
(* may call cancel at any moment.                                          *)
(*                                                                         *)
(* The kernel's part is the reason for the protocol, so it is explicit: a  *)
(* process-group id is pinned while its leader is alive or an unreaped     *)
(* zombie, or while a member lives, and is handed out again after that, to *)
(* a later command or to a process that has nothing to do with any.        *)
(***************************************************************************)
EXTENDS Naturals

CONSTANTS
  Commands,   \* the commands, each run once
  Pids,       \* the kernel's process-group ids
  MaxKin,     \* bound on the live descendants of a group's leader
  Bystander,  \* the owner of a group no command started
  Nobody,     \* the owner of a free id
  NoPid,      \* command.Process is nil
  WaitidMayFail   \* whether waitid can return an error

ASSUME OwnersAssumption ==
  /\ Bystander \notin Commands
  /\ Nobody \notin Commands
  /\ Bystander # Nobody
  /\ NoPid \notin Pids
  /\ MaxKin \in Nat
  /\ WaitidMayFail \in BOOLEAN

VARIABLES
  run,      \* where groupTermination.run is, per command
  watcher,  \* where exec.Cmd's context watcher is, per command
  mu,       \* who holds groupTermination.mu
  reaped,   \* groupTermination.reaped
  expired,  \* the command's context is done (timeout or abort)
  pid,      \* command.Process.Pid
  owner,    \* kernel: who started the group behind an id
  leader,   \* kernel: the group leader's state
  kin,      \* kernel: the group's live members besides its leader
  stray     \* history: commands whose kill(-pgid) struck a foreign group

code == <<run, watcher, mu, reaped, expired, pid>>
kernel == <<owner, leader, kin, stray>>
vars == <<code, kernel>>

Locked == {"reap", "handshake", "drain"}   \* run holds mu
Cancelling == {"check", "signal", "release"}   \* cancel holds mu
RunSteps == {"idle", "waitid", "kill", "lock", "done"} \cup Locked
WatcherSteps == {"idle", "watch", "cancel", "offer", "hardkill", "send", "done"}
                  \cup Cancelling

TypeOK ==
  /\ run \in [Commands -> RunSteps]
  /\ watcher \in [Commands -> WatcherSteps]
  /\ mu \in [Commands -> {"free", "run", "cancel"}]
  /\ reaped \in [Commands -> BOOLEAN]
  /\ expired \in [Commands -> BOOLEAN]
  /\ pid \in [Commands -> Pids \cup {NoPid}]
  /\ owner \in [Pids -> Commands \cup {Bystander, Nobody}]
  /\ leader \in [Pids -> {"alive", "zombie", "reaped"}]
  /\ kin \in [Pids -> 0..MaxKin]
  /\ stray \subseteq Commands

Init ==
  /\ run = [c \in Commands |-> "idle"]
  /\ watcher = [c \in Commands |-> "idle"]
  /\ mu = [c \in Commands |-> "free"]
  /\ reaped = [c \in Commands |-> FALSE]
  /\ expired = [c \in Commands |-> FALSE]
  /\ pid = [c \in Commands |-> NoPid]
  /\ owner = [p \in Pids |-> Nobody]
  /\ leader = [p \in Pids |-> "reaped"]
  /\ kin = [p \in Pids |-> 0]
  /\ stray = {}

-----------------------------------------------------------------------------
(* The kernel. *)

\* A group led by `who` comes into being behind a free id.
Spawn(who, p) ==
  /\ owner[p] = Nobody
  /\ owner' = [owner EXCEPT ![p] = who]
  /\ leader' = [leader EXCEPT ![p] = "alive"]
  /\ kin' = [kin EXCEPT ![p] = 0]

\* The id is free again once the leader is reaped and no member lives.
Release(p) ==
  owner' = [owner EXCEPT ![p] = IF leader'[p] = "reaped" /\ kin'[p] = 0
                                  THEN Nobody ELSE @]

\* Faulty forms, which the properties below must catch: kill(p) in place of
\* kill(-p), and a kill that accounts for one member of the group.
KillLeaderOnly(c, p) ==
  /\ leader' = [leader EXCEPT ![p] = IF @ = "alive" THEN "zombie" ELSE @]
  /\ UNCHANGED kin
  /\ Release(p)
  /\ stray' = IF owner[p] \in {c, Nobody} THEN stray ELSE stray \cup {c}

KillOneMember(c, p) ==
  /\ kin' = [kin EXCEPT ![p] = @ - 1]
  /\ UNCHANGED leader
  /\ Release(p)
  /\ UNCHANGED stray

\* kill(-p, SIGKILL) issued by command c: every process of whatever group has
\* the id now dies; an id nobody has is ESRCH.
KillCommandProcessGroup(c, p) ==
  /\ leader' = [leader EXCEPT ![p] = IF @ = "alive" THEN "zombie" ELSE @]
  /\ kin' = [kin EXCEPT ![p] = 0]
  /\ Release(p)
  /\ stray' = IF owner[p] \in {c, Nobody} THEN stray ELSE stray \cup {c}

LeaderExits(p) ==
  /\ leader[p] = "alive"
  /\ leader' = [leader EXCEPT ![p] = "zombie"]
  /\ UNCHANGED <<code, owner, kin, stray>>

\* A live process of the group forks a child into it.
Fork(p) ==
  /\ kin[p] < MaxKin
  /\ leader[p] = "alive" \/ kin[p] > 0
  /\ kin' = [kin EXCEPT ![p] = @ + 1]
  /\ UNCHANGED <<code, owner, leader, stray>>

KinExits(p) ==
  /\ kin[p] > 0
  /\ kin' = [kin EXCEPT ![p] = @ - 1]
  /\ UNCHANGED leader
  /\ Release(p)
  /\ UNCHANGED <<code, stray>>

BystanderSpawns(p) == Spawn(Bystander, p) /\ UNCHANGED <<code, stray>>

BystanderReaped(p) ==
  /\ owner[p] = Bystander
  /\ leader[p] = "zombie"
  /\ leader' = [leader EXCEPT ![p] = "reaped"]
  /\ UNCHANGED kin
  /\ Release(p)
  /\ UNCHANGED <<code, stray>>

-----------------------------------------------------------------------------
(* groupTermination.run *)

\* command.Start under Setpgid: the leader's pid is the group's id, and exec
\* starts the goroutine that watches the context.
Start(c) ==
  /\ run[c] = "idle"
  /\ ~expired[c]
  /\ \E p \in Pids :
       /\ Spawn(c, p)
       /\ pid' = [pid EXCEPT ![c] = p]
  /\ run' = [run EXCEPT ![c] = "waitid"]
  /\ watcher' = [watcher EXCEPT ![c] = "watch"]
  /\ UNCHANGED <<mu, reaped, expired, stray>>

\* Start fails: the context is already done, or the program cannot be run.
StartFails(c) ==
  /\ run[c] = "idle"
  /\ run' = [run EXCEPT ![c] = "done"]
  /\ UNCHANGED <<watcher, mu, reaped, expired, pid, kernel>>

\* waitid(WNOWAIT) returns when the leader is a zombie.
WaitProcessExitWithoutReap(c) ==
  /\ run[c] = "waitid"
  /\ leader[pid[c]] = "zombie"
  /\ run' = [run EXCEPT ![c] = "kill"]
  /\ UNCHANGED <<watcher, mu, reaped, expired, pid, kernel>>

\* A waitid failure is ignored: run goes on while the leader may be alive.
WaitidFails(c) ==
  /\ WaitidMayFail
  /\ run[c] = "waitid"
  /\ run' = [run EXCEPT ![c] = "kill"]
  /\ UNCHANGED <<watcher, mu, reaped, expired, pid, kernel>>

KillSurvivors(c) ==
  /\ run[c] = "kill"
  /\ KillCommandProcessGroup(c, pid[c])
  /\ run' = [run EXCEPT ![c] = "lock"]
  /\ UNCHANGED <<watcher, mu, reaped, expired, pid>>

\* Faulty form: run sets reaped without taking the mutex.
ReapUnlocked(c) ==
  /\ run[c] = "lock"
  /\ reaped' = [reaped EXCEPT ![c] = TRUE]
  /\ run' = [run EXCEPT ![c] = "reap"]
  /\ UNCHANGED <<watcher, mu, expired, pid, kernel>>

\* t.mu.Lock(); t.reaped = true
LockForReap(c) ==
  /\ run[c] = "lock"
  /\ mu[c] = "free"
  /\ mu' = [mu EXCEPT ![c] = "run"]
  /\ reaped' = [reaped EXCEPT ![c] = TRUE]
  /\ run' = [run EXCEPT ![c] = "reap"]
  /\ UNCHANGED <<watcher, expired, pid, kernel>>

\* command.Wait, first half: Process.Wait reaps the leader.
Reap(c) ==
  /\ run[c] = "reap"
  /\ leader[pid[c]] = "zombie"
  /\ leader' = [leader EXCEPT ![pid[c]] = "reaped"]
  /\ UNCHANGED kin
  /\ Release(pid[c])
  /\ run' = [run EXCEPT ![c] = "handshake"]
  /\ UNCHANGED <<watcher, mu, reaped, expired, pid, stray>>

\* command.Wait, second half: it receives the watcher's result over an
\* unbuffered channel, which the watcher offers only outside Cancel.
Handshake(c) ==
  /\ run[c] = "handshake"
  /\ watcher[c] \in {"watch", "offer", "send"}
  /\ watcher' = [watcher EXCEPT ![c] = "done"]
  /\ run' = [run EXCEPT ![c] = "drain"]
  /\ UNCHANGED <<mu, reaped, expired, pid, kernel>>

\* The output copiers end, at the latest after WaitDelay; Wait returns and
\* t.mu.Unlock() follows.
FinishWait(c) ==
  /\ run[c] = "drain"
  /\ mu' = [mu EXCEPT ![c] = "free"]
  /\ run' = [run EXCEPT ![c] = "done"]
  /\ UNCHANGED <<watcher, reaped, expired, pid, kernel>>

-----------------------------------------------------------------------------
(* The context watcher of exec.Cmd and groupTermination.cancel. *)

\* The deadline passes or the caller aborts.
ContextDone(c) ==
  /\ ~expired[c]
  /\ expired' = [expired EXCEPT ![c] = TRUE]
  /\ UNCHANGED <<run, watcher, mu, reaped, pid, kernel>>

WatcherCallsCancel(c) ==
  /\ watcher[c] = "watch"
  /\ expired[c]
  /\ watcher' = [watcher EXCEPT ![c] = "cancel"]
  /\ UNCHANGED <<run, mu, reaped, expired, pid, kernel>>

CancelLock(c) ==
  /\ watcher[c] = "cancel"
  /\ mu[c] = "free"
  /\ mu' = [mu EXCEPT ![c] = "cancel"]
  /\ watcher' = [watcher EXCEPT ![c] = "check"]
  /\ UNCHANGED <<run, reaped, expired, pid, kernel>>

\* if t.reaped { return os.ErrProcessDone }. Reached with reaped only when the
\* mutex was released in between, which run does after Wait alone.
CancelCheck(c) ==
  /\ watcher[c] = "check"
  /\ watcher' = [watcher EXCEPT ![c] = IF reaped[c] THEN "release" ELSE "signal"]
  /\ UNCHANGED <<run, mu, reaped, expired, pid, kernel>>

CancelKill(c) ==
  /\ watcher[c] = "signal"
  /\ KillCommandProcessGroup(c, pid[c])
  /\ watcher' = [watcher EXCEPT ![c] = "release"]
  /\ UNCHANGED <<run, mu, reaped, expired, pid>>

\* Faulty form: cancel returns with the mutex held.
CancelKeepsLock(c) ==
  /\ watcher[c] = "release"
  /\ watcher' = [watcher EXCEPT ![c] = "offer"]
  /\ UNCHANGED <<run, mu, reaped, expired, pid, kernel>>

CancelUnlock(c) ==
  /\ watcher[c] = "release"
  /\ mu' = [mu EXCEPT ![c] = "free"]
  /\ watcher' = [watcher EXCEPT ![c] = "offer"]
  /\ UNCHANGED <<run, reaped, expired, pid, kernel>>

\* WaitDelay passes before Wait takes the result: the watcher kills the leader
\* itself; os.Process refuses once it has reaped.
WaitDelayExpires(c) ==
  /\ watcher[c] = "offer"
  /\ watcher' = [watcher EXCEPT ![c] = "hardkill"]
  /\ UNCHANGED <<run, mu, reaped, expired, pid, kernel>>

HardKill(c) ==
  /\ watcher[c] = "hardkill"
  /\ leader' = IF owner[pid[c]] = c /\ leader[pid[c]] = "alive"
                 THEN [leader EXCEPT ![pid[c]] = "zombie"] ELSE leader
  /\ watcher' = [watcher EXCEPT ![c] = "send"]
  /\ UNCHANGED <<run, mu, reaped, expired, pid, owner, kin, stray>>

-----------------------------------------------------------------------------
RunStep(c) ==
  \/ Start(c)
  \/ StartFails(c)
  \/ WaitProcessExitWithoutReap(c)
  \/ WaitidFails(c)
  \/ KillSurvivors(c)
  \/ LockForReap(c)
  \/ Reap(c)
  \/ Handshake(c)
  \/ FinishWait(c)

WatcherStep(c) ==
  \/ WatcherCallsCancel(c)
  \/ CancelLock(c)
  \/ CancelCheck(c)
  \/ CancelKill(c)
  \/ CancelUnlock(c)
  \/ WaitDelayExpires(c)
  \/ HardKill(c)

KernelStep(p) ==
  \/ LeaderExits(p)
  \/ Fork(p)
  \/ KinExits(p)
  \/ BystanderSpawns(p)
  \/ BystanderReaped(p)

Next ==
  \/ \E c \in Commands : RunStep(c) \/ WatcherStep(c) \/ ContextDone(c)
  \/ \E p \in Pids : KernelStep(p)

Spec == Init /\ [][Next]_vars

\* The goroutine of run and the watcher's each keep going when they can; the
\* processes, the context and the waitid failure owe nothing.
RunProgress(c) ==
  \/ WaitProcessExitWithoutReap(c)
  \/ KillSurvivors(c)
  \/ LockForReap(c)
  \/ Reap(c)
  \/ Handshake(c)
  \/ FinishWait(c)

FairSpec ==
  /\ Spec
  /\ \A c \in Commands : WF_vars(RunProgress(c)) /\ WF_vars(WatcherStep(c))

-----------------------------------------------------------------------------
(* Properties. *)

\* kill(-pgid, SIGKILL) from run or from cancel never strikes a group that took
\* over the id after the reap (the rule at the head of termination_unix.go).
NoStrayKill == stray = {}

\* Past its own kill, run holds a group in which nothing lives: a command whose
\* run ends leaves no member of its group behind.
NoSurvivors ==
  \A c \in Commands :
    run[c] \in {"lock", "done"} \cup Locked /\ pid[c] # NoPid =>
      \A p \in Pids : owner[p] = c => leader[p] # "alive" /\ kin[p] = 0

\* What makes NoStrayKill and NoSurvivors inductive. The mutex of a command is
\* where its run and its watcher say it is, and reaped is set exactly from the
\* moment run takes it.
MutexInv ==
  \A c \in Commands :
    /\ run[c] \in Locked <=> mu[c] = "run"
    /\ watcher[c] \in Cancelling <=> mu[c] = "cancel"
    /\ reaped[c] <=> \/ run[c] \in Locked
                     \/ run[c] = "done" /\ pid[c] # NoPid
    /\ watcher[c] = "signal" => ~reaped[c]

\* A command has an id and a watcher from its start on.
StartedInv ==
  \A c \in Commands :
    /\ run[c] = "idle" => pid[c] = NoPid
    /\ run[c] \notin {"idle", "done"} => pid[c] # NoPid
    /\ watcher[c] # "idle" => pid[c] # NoPid

\* Until it reaps its leader, a command's id is its own.
Pinned == {"waitid", "kill", "lock", "reap"}
PinnedInv ==
  \A c \in Commands :
    /\ run[c] \in Pinned => owner[pid[c]] = c /\ leader[pid[c]] # "reaped"
    /\ \A p \in Pids : owner[p] = c => pid[c] = p

\* The three together with the two properties they carry.
IndInv == MutexInv /\ StartedInv /\ PinnedInv /\ NoStrayKill /\ NoSurvivors

\* A cancel that beats the reap ends the command: the run it interrupts gets
\* through the reap, the handshake and WaitDelay to its return.
CancelEndsRun == \A c \in Commands : watcher[c] = "signal" ~> run[c] = "done"

\* "a cancel that loses the race with the reap reports ErrProcessDone": cancel
\* returns also when run has taken the mutex first.
LosingCancelReturns ==
  \A c \in Commands :
    (watcher[c] = "cancel" /\ reaped[c]) ~> watcher[c] \notin {"cancel", "check"}
=============================================================================
