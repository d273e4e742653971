----------------------------- MODULE CommandRunner -----------------------------
(***************************************************************************)
(* Runner (command/runner.go): a command started with a wait budget is put *)
(* into the history as running, tracked, executed by a worker of its own,  *)
(* classified, put again as terminal and only then untracked; callers      *)
(* meanwhile abort it or wait for it, on its own runner or on any other    *)
(* whose history is over the same root.                                    *)
(*                                                                         *)
(* Every runner has a history (command/history.go), over a log root or in  *)
(* memory. Put rewrites a record file in place and appends an index row    *)
(* later; a Cleanup, when a history is opened or the host asks for it,     *)
(* removes the records that retention gives up. CommandHistory has what    *)
(* Cleanup retires and how the index is kept; here it retires any records. *)
(* GroupTermination has the steps inside groupTermination.run; here it     *)
(* returns, or is stuck for good.                                          *)
(***************************************************************************)
EXTENDS Naturals, FiniteSets

CONSTANTS
  Runners,
  Ids,      \* command ids
  Clients,  \* each makes one Abort or WaitForHistory call at a time
  Roots,    \* log roots
  Memory,   \* the root of an in-memory history
  NoOne     \* the owner of a command that has not started

ASSUME RunnerAssumption == NoOne \notin Runners \cup Ids /\ Memory \notin Roots

VARIABLES
  life,     \* of each runner's history
  root,     \* its log root
  file,     \* disk: what each command's record file holds
  row,      \* disk: the commands that have an index row
  cache,    \* History.records, per runner
  dropped,  \* what the Cleanup of a runner is retiring
  owner,    \* the runner that executes each command
  waited,   \* it was started with a wait budget
  work,     \* how far its execution is
  ctx,      \* the state of its context
  exit,     \* what groupTermination.run returned
  outcome,  \* its classification
  returned, \* what executePrepared returned: a status or an error
  tracked,  \* Runner.running of all runners: an id is in one at most
  answer,   \* what its starter was told
  call,     \* the call a client has under way
  final,    \* history: <<runner, id>> of every Abort that answered ok
  cutShort, \* history: <<runner, id>> of every WaitForHistory that gave up early
  swept     \* history: the commands whose record a Cleanup has retired

log == <<life, root, file, row, cache, dropped, swept>>
command == <<owner, waited, work, ctx, exit, outcome, returned, tracked, answer>>
ghost == <<final, cutShort>>
runnerVars == <<log, command, call, ghost>>

Final == {"ok", "failed", "timeout", "aborted"}
Status == Final \cup {"running"}
Executing == {"prepare", "exec", "ran"}
WorkSteps == Executing \cup
  {"unborn", "recorded", "wedged", "publish", "opened", "written", "published",
   "untracked", "gone"}

\* An Abort goes through load, cancel, await and read, or through lookup; a
\* WaitForHistory through first, attach and wait. Attached: it holds done.
Idle == [at |-> "idle", runner |-> NoOne, id |-> NoOne, attached |-> FALSE]
CallSteps == {"idle", "load", "cancel", "await", "read", "lookup", "first", "attach",
              "wait"}
Call == [at : CallSteps, runner : Runners \cup {NoOne}, id : Ids \cup {NoOne},
         attached : BOOLEAN]

TypeOK ==
  /\ life \in [Runners -> {"unmade", "loaded", "opening", "up", "cleaning"}]
  /\ root \in [Runners -> Roots \cup {Memory}]
  /\ file \in [Ids -> Status \cup {"absent", "torn"}]
  /\ row \subseteq Ids
  /\ cache \in [Runners -> [Ids -> Status \cup {"none"}]]
  /\ dropped \in [Runners -> SUBSET Ids]
  /\ owner \in [Ids -> Runners \cup {NoOne}]
  /\ waited \in [Ids -> BOOLEAN]
  /\ work \in [Ids -> WorkSteps]
  /\ ctx \in [Ids -> {"live", "cancelled", "expired"}]
  /\ exit \in [Ids -> {"none", "nil", "error"}]
  /\ outcome \in [Ids -> Final \cup {"none"}]
  /\ returned \in [Ids -> Final \cup {"none", "error"}]
  /\ tracked \subseteq Ids
  /\ answer \in [Ids -> Status \cup {"none", "error"}]
  /\ call \in [Clients -> Call]
  /\ final \subseteq Runners \X Ids
  /\ cutShort \subseteq Runners \X Ids
  /\ swept \subseteq Ids

\* Some histories are open already.
RunnerInit ==
  /\ life \in [Runners -> {"unmade", "up"}]
  /\ root \in [Runners -> Roots \cup {Memory}]
  /\ \A r \in Runners : life[r] = "unmade" => root[r] = Memory
  /\ file = [id \in Ids |-> "absent"]
  /\ row = {}
  /\ cache = [r \in Runners |-> [id \in Ids |-> "none"]]
  /\ dropped = [r \in Runners |-> {}]
  /\ owner = [id \in Ids |-> NoOne]
  /\ waited = [id \in Ids |-> FALSE]
  /\ work = [id \in Ids |-> "unborn"]
  /\ ctx = [id \in Ids |-> "live"]
  /\ exit = [id \in Ids |-> "none"]
  /\ outcome = [id \in Ids |-> "none"]
  /\ returned = [id \in Ids |-> "none"]
  /\ tracked = {}
  /\ answer = [id \in Ids |-> "none"]
  /\ call = [c \in Clients |-> Idle]
  /\ final = {}
  /\ cutShort = {}
  /\ swept = {}

-----------------------------------------------------------------------------
(* The history, as the runner uses it. *)

Ready(r) == life[r] \in {"up", "cleaning"}
Persistent(id) == root[owner[id]] # Memory

\* A reader of root d finds a record by its row and in a file that is whole.
Stored(d, id) ==
  IF /\ owner[id] # NoOne /\ root[owner[id]] = d
     /\ id \in row /\ file[id] \in Status
  THEN file[id] ELSE "none"

\* What r reads from disk about a command: a history in memory has nothing there.
OnDisk(r, id) == Stored(root[r], id)

\* Two runners that answer for the same records.
SharesLog(r, s) == r = s \/ (root[r] = root[s] /\ root[r] # Memory)

\* getRecord: a cached terminal record, else a terminal one on disk, else
\* whatever the cache has, else whatever the disk has.
Known(r, id) ==
  IF cache[r][id] \in Final THEN cache[r][id]
  ELSE IF OnDisk(r, id) \in Final THEN OnDisk(r, id)
  ELSE IF cache[r][id] = "running" THEN "running" ELSE OnDisk(r, id)

\* getRecord may fail where it has to read the index.
MayFail(r, id) == cache[r][id] \notin Final /\ root[r] # Memory

\* getRecord leaves a terminal record it found in the cache.
Remember(r, id) ==
  cache' = [cache EXCEPT ![r][id] = IF Known(r, id) \in Final THEN Known(r, id) ELSE @]

\* h.mu is held: by a Put under way or by a Cleanup.
Held(r) ==
  \/ life[r] = "cleaning"
  \/ \E id \in Ids : owner[id] = r /\ work[id] \in {"opened", "written"}

\* The index lock of a root is held: by a Cleanup between its snapshot of the
\* index and the rewrite.
Locked(d) == \E r \in Runners : root[r] = d /\ life[r] \in {"opening", "cleaning"}

\* NewHistory: loadIndex caches what is on disk, running records included.
Open(r) ==
  /\ life[r] = "unmade"
  /\ \E d \in Roots :
       /\ root' = [root EXCEPT ![r] = d]
       /\ cache' = [cache EXCEPT ![r] = [id \in Ids |-> Stored(d, id)]]
  /\ life' = [life EXCEPT ![r] = "loaded"]
  /\ UNCHANGED <<file, row, dropped, swept, command, call, ghost>>

\* No log is asked for, or the index cannot be loaded: the history is in memory.
OpenInMemory(r) ==
  /\ life[r] = "unmade"
  /\ life' = [life EXCEPT ![r] = "up"]
  /\ UNCHANGED <<root, file, row, cache, dropped, swept, command, call, ghost>>

\* Cleanup, as the last part of NewHistory or when the host asks for it: the files
\* of what it retires are removed, where that works, and so are the cached records.
CleanupRemoves(r) ==
  /\ life[r] \in {"loaded", "up"}
  /\ root[r] # Memory /\ ~Held(r) /\ ~Locked(root[r])
  /\ \E retire \in SUBSET {id \in row : root[owner[id]] = root[r]} :
       /\ \E removed \in SUBSET retire :
            file' = [id \in Ids |-> IF id \in removed THEN "absent" ELSE file[id]]
       /\ cache' = [cache EXCEPT ![r] =
                      [id \in Ids |-> IF id \in retire THEN "none" ELSE @[id]]]
       /\ dropped' = [dropped EXCEPT ![r] = retire]
       /\ swept' = swept \cup retire
  /\ life' = [life EXCEPT ![r] = IF @ = "up" THEN "cleaning" ELSE "opening"]
  /\ UNCHANGED <<root, row, command, call, ghost>>

\* The indexes without what was retired take the place of the old ones.
CleanupRewrites(r) ==
  /\ life[r] \in {"opening", "cleaning"}
  /\ row' = row \ dropped[r]
  /\ dropped' = [dropped EXCEPT ![r] = {}]
  /\ life' = [life EXCEPT ![r] = "up"]
  /\ UNCHANGED <<root, file, cache, swept, command, call, ghost>>

\* It fails, before it has the lock or after some of the indexes; a history that
\* was being opened is given up for one in memory.
CleanupFails(r) ==
  /\ life[r] \in {"loaded", "opening", "cleaning"}
  /\ \E rewritten \in SUBSET dropped[r] : row' = row \ rewritten
  /\ dropped' = [dropped EXCEPT ![r] = {}]
  /\ life' = [life EXCEPT ![r] = "up"]
  /\ IF life[r] = "cleaning" THEN UNCHANGED <<root, cache>>
     ELSE /\ root' = [root EXCEPT ![r] = Memory]
          /\ cache' = [cache EXCEPT ![r] = [id \in Ids |-> "none"]]
  /\ UNCHANGED <<file, swept, command, call, ghost>>

-----------------------------------------------------------------------------
(* runPreparedWithWait: the starter of a command. *)

\* Without a wait budget the starter executes the command itself, under its own
\* context, and nothing is recorded before the end.
RunInline(r, id) ==
  /\ owner[id] = NoOne /\ Ready(r)
  /\ owner' = [owner EXCEPT ![id] = r]
  /\ work' = [work EXCEPT ![id] = "prepare"]
  /\ UNCHANGED <<log, waited, ctx, exit, outcome, returned, tracked, answer, call, ghost>>

\* Put of the running record: nobody looks for a file that has no row yet.
RecordRunning(r, id) ==
  /\ owner[id] = NoOne /\ Ready(r)
  /\ ~Held(r) /\ ~Locked(root[r])
  /\ owner' = [owner EXCEPT ![id] = r]
  /\ waited' = [waited EXCEPT ![id] = TRUE]
  /\ IF root[r] = Memory THEN UNCHANGED <<file, row>>
     ELSE /\ file' = [file EXCEPT ![id] = "running"]
          /\ row' = row \cup {id}
  /\ cache' = [cache EXCEPT ![r][id] = "running"]
  /\ work' = [work EXCEPT ![id] = "recorded"]
  /\ UNCHANGED <<life, root, dropped, swept, ctx, exit, outcome, returned, tracked, answer,
                 call, ghost>>

\* The running record cannot be put: the command is not run, and what there may be
\* of its file nobody finds.
RecordRunningFails(r, id) ==
  /\ owner[id] = NoOne /\ Ready(r) /\ root[r] # Memory
  /\ owner' = [owner EXCEPT ![id] = r]
  /\ work' = [work EXCEPT ![id] = "gone"]
  /\ returned' = [returned EXCEPT ![id] = "error"]
  /\ UNCHANGED <<log, waited, ctx, exit, outcome, tracked, answer, call, ghost>>

\* r.running.Store, then the worker is started.
Track(id) ==
  /\ work[id] = "recorded"
  /\ tracked' = tracked \cup {id}
  /\ work' = [work EXCEPT ![id] = "prepare"]
  /\ UNCHANGED <<log, owner, waited, ctx, exit, outcome, returned, answer, call, ghost>>

\* The wait budget is used up: the starter is told running.
BudgetRunsOut(id) ==
  /\ waited[id] /\ work[id] \notin {"unborn", "recorded"}
  /\ answer[id] = "none"
  /\ answer' = [answer EXCEPT ![id] = "running"]
  /\ UNCHANGED <<log, owner, waited, work, ctx, exit, outcome, returned, tracked, call,
                 ghost>>

\* Faulty form: done is closed when the command has ended.
ClosedAtExit(id) ==
  work[id] \in {"publish", "opened", "written", "published", "untracked", "gone"}

DoneClosed(id) == work[id] = "gone"

\* The starter has what executePrepared returned.
Answer(id) ==
  /\ DoneClosed(id)
  /\ answer[id] = "none"
  /\ answer' = [answer EXCEPT ![id] = returned[id]]
  /\ UNCHANGED <<log, owner, waited, work, ctx, exit, outcome, returned, tracked, call,
                 ghost>>

-----------------------------------------------------------------------------
(* executePrepared. *)

Executed(id, step) ==
  /\ work' = [work EXCEPT ![id] = step]
  /\ UNCHANGED <<owner, waited, ctx, tracked, answer, call, ghost>>

\* Template substitution fails: recordFailedPreparation puts a failed record and
\* looks at no error; the caller gets the preparation's.
PrepareFails(id) ==
  /\ work[id] = "prepare"
  /\ outcome' = [outcome EXCEPT ![id] = "failed"]
  /\ Executed(id, "publish")
  /\ UNCHANGED <<log, exit, returned>>

Launch(id) ==
  /\ work[id] = "prepare"
  /\ Executed(id, "exec")
  /\ UNCHANGED <<log, exit, outcome, returned>>

\* groupTermination.run returns. A command that exits cleanly while its context
\* ends may still be reported either way.
RunReturns(id) ==
  /\ work[id] = "exec"
  /\ \E result \in {"nil", "error"} : exit' = [exit EXCEPT ![id] = result]
  /\ Executed(id, "ran")
  /\ UNCHANGED <<log, outcome, returned>>

\* It does not return: the context ended as run was taking its mutex.
RunWedges(id) ==
  /\ work[id] = "exec"
  /\ ctx[id] # "live"
  /\ Executed(id, "wedged")
  /\ UNCHANGED <<log, exit, outcome, returned>>

\* Faulty form: an error without a reason leaves the status the record began with.
ClassifyLeavesRunning(id) ==
  /\ work[id] = "ran"
  /\ outcome' = [outcome EXCEPT ![id] =
       CASE exit[id] = "nil"          -> "ok"
         [] ctx[id] = "expired"       -> "timeout"
         [] ctx[id] = "cancelled"     -> "aborted"
         [] OTHER                     -> "running"]
  /\ Executed(id, "publish")
  /\ UNCHANGED <<log, exit, returned>>

\* An error is classified by the context as it is after run has returned.
Classify(id) ==
  /\ work[id] = "ran"
  /\ outcome' = [outcome EXCEPT ![id] =
       CASE exit[id] = "nil"                              -> "ok"
         [] exit[id] = "error" /\ ctx[id] = "expired"   -> "timeout"
         [] exit[id] = "error" /\ ctx[id] = "cancelled" -> "aborted"
         [] exit[id] = "error" /\ ctx[id] = "live"      -> "failed"]
  /\ Executed(id, "publish")
  /\ UNCHANGED <<log, exit, returned>>

Returns(id, result) ==
  /\ returned' = [returned EXCEPT ![id] = IF exit[id] = "none" THEN "error" ELSE result]
  /\ Executed(id, IF waited[id] THEN "published" ELSE "gone")
  /\ UNCHANGED <<exit, outcome>>

\* Put of the terminal record, under h.mu: the file is truncated.
PublishOpens(id) ==
  /\ work[id] = "publish"
  /\ Persistent(id) /\ ~Held(owner[id])
  /\ file' = [file EXCEPT ![id] = "torn"]
  /\ Executed(id, "opened")
  /\ UNCHANGED <<life, root, row, cache, dropped, swept, exit, outcome, returned>>

\* It is written, unless a Cleanup has removed it meanwhile: then it has no name.
PublishWrites(id) ==
  /\ work[id] = "opened"
  /\ file' = [file EXCEPT ![id] = IF @ = "absent" THEN @ ELSE outcome[id]]
  /\ Executed(id, "written")
  /\ UNCHANGED <<life, root, row, cache, dropped, swept, exit, outcome, returned>>

\* The row is appended under the index lock, the record is cached and Put returns.
Publish(id) ==
  /\ \/ /\ work[id] = "written"
        /\ ~Locked(root[owner[id]])
        /\ row' = row \cup {id}
     \/ /\ work[id] = "publish"
        /\ ~Persistent(id)
        /\ UNCHANGED row
  /\ cache' = [cache EXCEPT ![owner[id]][id] = outcome[id]]
  /\ Returns(id, outcome[id])
  /\ UNCHANGED <<life, root, file, dropped, swept>>

PutUnderWay(id) == work[id] \in {"publish", "opened", "written"} /\ Persistent(id)

\* Faulty form: the error of Put is dropped.
PublishFailsSilently(id) ==
  /\ PutUnderWay(id)
  /\ Returns(id, outcome[id])
  /\ UNCHANGED log

\* Put fails before it touches the record file, in the middle of it, or after it
\* and before the row; what it has written stays.
PublishFails(id) ==
  /\ PutUnderWay(id)
  /\ Returns(id, "error")
  /\ UNCHANGED log

\* The worker's deferred function.
Untrack(id) ==
  /\ work[id] = "published"
  /\ tracked' = tracked \ {id}
  /\ work' = [work EXCEPT ![id] = "untracked"]
  /\ UNCHANGED <<log, owner, waited, ctx, exit, outcome, returned, answer, call, ghost>>

CloseDone(id) ==
  /\ work[id] = "untracked"
  /\ work' = [work EXCEPT ![id] = "gone"]
  /\ UNCHANGED <<log, owner, waited, ctx, exit, outcome, returned, tracked, answer, call,
                 ghost>>

\* The execution timeout passes.
Expire(id) ==
  /\ work[id] \in Executing
  /\ ctx[id] = "live"
  /\ ctx' = [ctx EXCEPT ![id] = "expired"]
  /\ UNCHANGED <<log, owner, waited, work, exit, outcome, returned, tracked, answer, call,
                 ghost>>

\* The caller that executes a command inline is cancelled.
CallerCancels(id) ==
  /\ work[id] \in Executing
  /\ ~waited[id]
  /\ ctx[id] = "live"
  /\ ctx' = [ctx EXCEPT ![id] = "cancelled"]
  /\ UNCHANGED <<log, owner, waited, work, exit, outcome, returned, tracked, answer, call,
                 ghost>>

-----------------------------------------------------------------------------
(* Abort. *)

\* c's call moves on, or returns.
To(c, step) == call' = [call EXCEPT ![c].at = step]
Return(c) == call' = [call EXCEPT ![c] = Idle]

Tracks(r, id) == id \in tracked /\ owner[id] = r   \* tracksCommand

\* A client may know the id of any command that has started.
AbortLoad(c, r, id) ==
  /\ call[c].at = "idle"
  /\ owner[id] # NoOne /\ Ready(r)
  /\ call' = [call EXCEPT ![c] =
       [at |-> IF Tracks(r, id) THEN "cancel" ELSE "lookup", runner |-> r, id |-> id,
        attached |-> FALSE]]
  /\ UNCHANGED <<log, command, ghost>>

AbortCancel(c) ==
  /\ call[c].at = "cancel"
  /\ ctx' = [ctx EXCEPT ![call[c].id] = IF @ = "live" THEN "cancelled" ELSE @]
  /\ To(c, "await")
  /\ UNCHANGED <<log, owner, waited, work, exit, outcome, returned, tracked, answer,
                 ghost>>

AbortDone(c) ==
  /\ call[c].at = "await"
  /\ DoneClosed(call[c].id)
  /\ To(c, "read")
  /\ UNCHANGED <<log, command, ghost>>

\* Faulty form: the end of the worker is taken for the end of the command.
AbortTrustsDone(c) ==
  /\ call[c].at = "read"
  /\ final' = final \cup {<<call[c].runner, call[c].id>>}
  /\ Return(c)
  /\ UNCHANGED <<log, command, cutShort>>

\* The record decides: running if it still says so, else ok.
AbortRead(c) ==
  /\ call[c].at = "read"
  /\ LET r == call[c].runner
         id == call[c].id IN
     /\ final' = IF Known(r, id) = "running" THEN final ELSE final \cup {<<r, id>>}
     /\ Remember(r, id)
  /\ Return(c)
  /\ UNCHANGED <<life, root, file, row, dropped, swept, command, cutShort>>

\* Faulty form: the worker is waited for without a limit.
AbortWaitsForever(c) ==
  /\ call[c].at = "await"
  /\ DoneClosed(call[c].id)
  /\ Return(c)
  /\ UNCHANGED <<log, command, ghost>>

\* abortStatusWait passes: running.
AbortTimer(c) ==
  /\ call[c].at = "await"
  /\ Return(c)
  /\ UNCHANGED <<log, command, ghost>>

\* A command this runner does not track: running, already completed, not found.
AbortLookup(c) ==
  /\ call[c].at = "lookup"
  /\ Remember(call[c].runner, call[c].id)
  /\ Return(c)
  /\ UNCHANGED <<life, root, file, row, dropped, swept, command, final, cutShort>>

-----------------------------------------------------------------------------
(* WaitForHistory. *)

\* The first look; the call goes on if the command is running.
WaitFirst(c, r, id) ==
  /\ call[c].at = "idle"
  /\ owner[id] # NoOne /\ Ready(r)
  /\ IF Known(r, id) = "running"
       THEN call' = [call EXCEPT ![c] =
                       [at |-> "attach", runner |-> r, id |-> id, attached |-> FALSE]]
       ELSE UNCHANGED call
  /\ Remember(r, id)
  /\ UNCHANGED <<life, root, file, row, dropped, swept, command, ghost>>

WaitAttach(c) ==
  /\ call[c].at = "attach"
  /\ call' = [call EXCEPT ![c].at = "wait",
                          ![c].attached = Tracks(call[c].runner, call[c].id)]
  /\ UNCHANGED <<log, command, ghost>>

\* The call returns what getRecord finds.
WaitReturns(c) ==
  /\ Remember(call[c].runner, call[c].id)
  /\ Return(c)
  /\ UNCHANGED <<life, root, file, row, dropped, swept, command, final>>

\* The wait or its context ends.
WaitDeadline(c) ==
  /\ call[c].at = "wait"
  /\ WaitReturns(c)
  /\ UNCHANGED cutShort

GaveUp(c) ==
  cutShort' = IF Known(call[c].runner, call[c].id) \in Final THEN cutShort
              ELSE cutShort \cup {<<call[c].runner, call[c].id>>}

WaitDone(c) ==
  /\ call[c].at = "wait"
  /\ call[c].attached
  /\ DoneClosed(call[c].id)
  /\ WaitReturns(c)
  /\ GaveUp(c)

\* A tick that finds the command running changes nothing.
WaitTick(c) ==
  /\ call[c].at = "wait"
  /\ Known(call[c].runner, call[c].id) # "running"
  /\ WaitReturns(c)
  /\ GaveUp(c)

\* getRecord fails, in an Abort or in a wait: the call returns the error.
IndexUnreadable(c) ==
  /\ call[c].at \in {"read", "lookup", "wait"}
  /\ MayFail(call[c].runner, call[c].id)
  /\ Return(c)
  /\ UNCHANGED <<log, command, ghost>>

-----------------------------------------------------------------------------
HistoryStep(r) ==
  Open(r) \/ OpenInMemory(r) \/ CleanupRemoves(r) \/ CleanupRewrites(r) \/ CleanupFails(r)

StartStep(r, id) == RunInline(r, id) \/ RecordRunning(r, id) \/ RecordRunningFails(r, id)

CommandStep(id) ==
  \/ Track(id)
  \/ BudgetRunsOut(id)
  \/ Answer(id)
  \/ PrepareFails(id)
  \/ Launch(id)
  \/ RunReturns(id)
  \/ RunWedges(id)
  \/ Classify(id)
  \/ PublishOpens(id)
  \/ PublishWrites(id)
  \/ Publish(id)
  \/ PublishFails(id)
  \/ Untrack(id)
  \/ CloseDone(id)
  \/ Expire(id)
  \/ CallerCancels(id)

CallBegins(c, r, id) == AbortLoad(c, r, id) \/ WaitFirst(c, r, id)

CallStep(c) ==
  \/ AbortCancel(c)
  \/ AbortDone(c)
  \/ AbortRead(c)
  \/ AbortTimer(c)
  \/ AbortLookup(c)
  \/ WaitAttach(c)
  \/ WaitDeadline(c)
  \/ WaitDone(c)
  \/ WaitTick(c)
  \/ IndexUnreadable(c)

RunnerNext ==
  \/ \E r \in Runners : HistoryStep(r)
  \/ \E id \in Ids : CommandStep(id) \/ \E r \in Runners : StartStep(r, id)
  \/ \E c \in Clients :
       CallStep(c) \/ \E r \in Runners, id \in Ids : CallBegins(c, r, id)

RunnerSpec == RunnerInit /\ [][RunnerNext]_runnerVars

\* The goroutine of a call goes on, and its timers fire.
FairRunnerSpec == RunnerSpec /\ \A c \in Clients : WF_runnerVars(CallStep(c))

-----------------------------------------------------------------------------
(* Properties. *)

\* "Status ok guarantees that subsequent get/filter calls no longer report
\* running": for good on the runner that gave it, and on every other one over its
\* root until a Cleanup retires the record. (The comment on Abort makes no such
\* exception: a running record that was cached outlives the terminal one on disk.)
AbortOkIsFinal ==
  \A r \in Runners, id \in Ids :
    <<r, id>> \in final =>
      \A s \in Runners :
        SharesLog(r, s) /\ (s = r \/ id \notin swept) => Known(s, id) # "running"

\* A status the starter was given is the one every later get reports, on any
\* runner over the same root, until a Cleanup retires the record; after that a get
\* may find nothing, or an old claim, and never another end.
AnswerIsDurable ==
  \A id \in Ids :
    answer[id] \in Final =>
      \A r \in Runners :
        SharesLog(r, owner[id]) =>
          \/ Known(r, id) = answer[id]
          \/ id \in swept /\ Known(r, id) \notin Final

\* The record has begun to be rewritten, or the rewriting is over.
Rewritten(id) == work[id] \in {"opened", "written", "published", "untracked", "gone"}

\* WaitForHistory that gives up before its time, on a record no Cleanup has
\* retired, does so on the command's own runner only if the terminal record never
\* appears, and on another one not before the record began to be rewritten. (Until
\* the command has ended, says the comment: while it is rewritten it cannot be read.)
WaitNotCutShort ==
  \A r \in Runners, id \in Ids :
    <<r, id>> \in cutShort /\ id \notin swept =>
      IF r = owner[id] THEN Known(r, id) \notin Final ELSE Rewritten(id)

\* Abort and WaitForHistory return, whatever becomes of the command.
CallsReturn == \A c \in Clients : call[c].at # "idle" ~> call[c].at = "idle"
-----------------------------------------------------------------------------
(* The inductive invariant behind the properties. *)

\* Its terminal record has been put, or could not be.
Over(id) == work[id] \in {"published", "untracked", "gone"}

\* A history that is not made yet has no root; one that owns a command is open, and
\* what it is retiring counts as retired.
LifeInv ==
  /\ \A r \in Runners : life[r] = "unmade" => root[r] = Memory
  /\ \A r \in Runners : dropped[r] \subseteq swept
  /\ \A id \in Ids : owner[id] # NoOne => Ready(owner[id])

\* A command has an owner once it has started, and is recorded as running before
\* its runner tracks it.
CommandOK(id) ==
  /\ owner[id] = NoOne <=> work[id] = "unborn"
  /\ waited[id] => owner[id] # NoOne
  /\ work[id] = "recorded" => waited[id]
  /\ id \in tracked => waited[id] /\ work[id] \notin {"unborn", "recorded"}
  /\ work[id] = "ran" => exit[id] # "none"
  /\ work[id] \in {"publish", "opened", "written"} => outcome[id] \in Final
  /\ work[id] \in {"opened", "written"} => Persistent(id)
  /\ returned[id] \in Final => Over(id) /\ outcome[id] = returned[id]
  /\ answer[id] \in Final => returned[id] = answer[id]

\* Its file says running until it is rewritten, is torn while that lasts or if it
\* fails, and then says what came out.
DiskOK(id) ==
  /\ file[id] # "absent" \/ id \in row => owner[id] # NoOne /\ Persistent(id)
  /\ file[id] = "running" => waited[id] /\ work[id] \notin {"opened", "written"}
  /\ file[id] = "torn" => work[id] = "opened" \/ Over(id)
  /\ file[id] \in Final => (work[id] = "written" \/ Over(id)) /\ file[id] = outcome[id]
  /\ work[id] = "written" \/ returned[id] \in Final => file[id] \in {"absent", outcome[id]}

\* What there is of it while no Cleanup has retired it.
KeptOK(id) ==
  id \notin swept =>
    /\ waited[id] /\ Persistent(id) => id \in row /\ file[id] # "absent"
    /\ work[id] \in {"opened", "written"} => file[id] # "absent"
    /\ returned[id] \in Final /\ Persistent(id) => id \in row /\ file[id] # "absent"
    /\ waited[id] => cache[owner[id]][id] # "none"
    /\ returned[id] \in Final => cache[owner[id]][id] \in Final

\* A cache holds what the disk under it says or said, or what its owner put.
CacheOK(r, id) ==
  /\ cache[r][id] # "none" => owner[id] # NoOne /\ SharesLog(r, owner[id])
  /\ cache[r][id] = "running" => waited[id]
  /\ cache[r][id] \in Final =>
       /\ cache[r][id] = outcome[id]
       /\ work[id] = "written" \/ Over(id)
       /\ file[id] \in {"absent", outcome[id]}

RecordOK(id) ==
  CommandOK(id) /\ DiskOK(id) /\ KeptOK(id) /\ \A r \in Runners : CacheOK(r, id)

RecordInv == \A id \in Ids : RecordOK(id)

\* An Abort that goes on to cancel is on the command's own runner; a WaitForHistory
\* that goes on to wait is on one that reads the owner's records.
CallKnows(c) ==
  LET id == call[c].id
      r == call[c].runner IN
  call[c].at # "idle" =>
    /\ id \in Ids /\ r \in Runners
    /\ owner[id] # NoOne
    /\ Ready(r)
    /\ call[c].at \in {"cancel", "await", "read"} => waited[id] /\ r = owner[id]
    /\ call[c].at = "read" => work[id] = "gone"
    /\ call[c].at \in {"attach", "wait"} => waited[id] /\ SharesLog(r, owner[id])
    /\ call[c].attached => r = owner[id]

CallInv == \A c \in Clients : CallKnows(c)

\* What the clients were told stays so.
FinalOK(r, id) ==
  /\ waited[id] /\ owner[id] = r /\ work[id] = "gone"
  /\ cache[r][id] # "running" /\ OnDisk(r, id) # "running"

CutShortOK(r, id) ==
  /\ waited[id] /\ Rewritten(id)
  /\ r = owner[id] => Over(id) /\ Known(r, id) \notin Final

PastInv ==
  \A r \in Runners, id \in Ids :
    /\ <<r, id>> \in final => FinalOK(r, id)
    /\ <<r, id>> \in cutShort /\ id \notin swept => CutShortOK(r, id)

RunnerInd == TypeOK /\ LifeInv /\ RecordInv /\ CallInv /\ PastInv
=============================================================================
