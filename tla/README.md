# A verification project for cozy-tools

cozy-tools is a Go library of tools that agents run against a repository: commands executed
under a policy and remembered in a durable history, git commits restricted to files an agent
owns, and file reads, searches and edits confined to a root, bounded and guarded by hashes. Several helper
processes, each with several goroutines, work on the same log directory, the same repository and
the same files at once; processes are killed, waits run out and writes fail. The TLA+ modules
here model the parts of it whose correctness depends on that: TLC checks them on small
instances, TLAPS proves the theorems of the `*Proofs` modules for every instance.

`PROJECT.json` lists the components, the runs, the mutants every property is tested with, the
source lines behind every definition, the findings, the hazards and the theorems. Paths below
are relative to the repository root.

## 1. Inventory

| Component | State | Operations | Talks to | What makes it hard | What makes it correct |
|---|---|---|---|---|---|
| Process-group termination, `command/termination_*.go` | a mutex and `reaped` per command; the kernel's group ids and processes | `run` (start, wait without reaping, kill, reap), `cancel` | exec.Cmd's context watcher calls `cancel`; the runner calls `run` | cancel races the reap; ids are reused; Wait and the watcher wait for one another | a kill never strikes a foreign group; nothing of a group outlives its command; a cancel ends the command |
| Command history, `command/history*.go` | on disk a record file per command and an append-only index per repository; in memory a cache; an inter-process lock | `NewHistory`, `Put`, `Cleanup`, `Get`/`List`/`Filter` | helpers share it through the disk only; runners write it | readers take no lock; record files are rewritten in place before the lock is taken; crashes and short writes | what was acknowledged stays and can be read; a finished command never runs again |
| Command runner, `command/runner.go` | `running`: the tracked commands with cancel and done | run with or without a wait budget, execute, publish, `Abort`, `WaitForHistory` | history, termination; callers on any runner over the same root | record, tracker and done are updated in separate steps while callers look | answers agree with the log; waits end when they should and not before; every call returns |
| Runner coordinator, `command/coordinator.go` | base, current and retired runners | `ForRepo`, `Reset`, `Resolve` | hands callers the runner that answers for a command | runners are replaced while their commands go on; `Resolve` walks a snapshot without lock | the runner that tracks a command, later one that knows its record, is found |
| Live output tail, `command/tail_output.go` | the ordered tail of two streams under one budget, two running digests | write, evict, snapshot, refresh of the running record, final record | exec's copying goroutines, runner, history | eviction across streams, runes and secrets divided by writes, refreshes out of order | the tail is a suffix; secrets stay masked; records agree with what was printed |
| Guarded commit, `gitops/git_commit*.go` | a mutex per process, a file lock, an isolated index; HEAD, index and worktree of git | `CommitOwned` | git; users and tools that take no lock | checks on one index, commit on another HEAD; the real index is reset afterwards | only owned files are committed; others' staging survives; locks are not leaked |
| Preflight, status, branches, worktrees, log, diff, blame: rest of `gitops/` | none of their own | read, classify, create | git | check-then-create of worktrees | classification agrees with git's state |
| Guarded edits, `filesystem/edit.go`, `write.go`, `fileops/safe_edit.go`, `fstools/mcp_edit.go` | `writeMu` per Service; the file | write, create, unique replacement, append_unique, delete, each with an expected hash | atomic writes | the hash is compared before the rename; `fileops` takes no lock; append_unique reads outside the mutex | what is replaced is what was compared; appends happen once |
| Rooted files and atomic writes, `safefs/` | temporary files; what is synced | `WriteFileAtomic`, `WriteFileAtomicOpts`, `CreateExclusive`, path resolution | the kernel | crash or power loss between write, sync, rename and directory sync; errors after the rename | no torn file; acknowledged writes are durable; a success leaves no temporary file |
| Reads: `filesystem/read.go`, `fileops/safe_edit.go`, `fstools/mcp_file.go` | none; a client's offset between pages | read a page, read_many, ReadFilesInRepo | safefs | files change between stat and open and between pages; answers are cut after they were built | pages compose, answers fit, each path is accounted for |
| Walks and searches: `filesystem/walk.go`, `list_find.go`, `search.go`, `ignore.go`, `fileops/search.go`, `gitignore.go` | none; budgets and the stack of ignore files of a call | List, Find, Search, repository search | safefs, os.Root | budgets of entries, bytes, matches; directories in any order; files that grow; rules of many levels | nothing is left out silently; budgets hold; what is shown is what is in scope |
| Tool surface, `fstools/`, `tool/` | static tables | decode, dispatch, cut to the model's budget | all of the above | one Service per call in the MCP adapter | answers fit |
| Preparation and reporting of commands: `vars/`, `evidence/`, `security/`, `argv.go`, `failure.go`, `wrongtool.go` | none | substitute, select, mask | runner | what is masked arrives in pieces | evidence holds the failures; secrets stay masked |
| `config/`, `project/`, `testhome/`, `tooltest/` | plain records | lookup | - | - | - |

The hazards, each at its line, are in `PROJECT.json`.

## 2. Modules

Each module says at its head what it models. State and actions keep the source's names; a
definition that begins with "Faulty form" in its comment is a mutant and no part of any `Next`.

| Module | Models | Composition |
|---|---|---|
| `GroupTermination` | `run`, `cancel`, exec.Cmd's watcher, the kernel's group ids | stands alone |
| `GroupTerminationProofs` | its theorems | extends it |
| `CommandLedger` | abstract: one command's durable status only moves forward | - |
| `CommandHistory` | `Put`, `Cleanup`, `NewHistory`, `getRecord` step by step | implements `CommandLedger` (`DurableStatus` is the refinement mapping) |
| `CommandHistoryProofs` | its theorems | extends it |
| `CommandRunner` | one command's life, the histories of the runners and the calls on them | stands alone: has `Put`, `Cleanup` and `getRecord` in the steps a call can see, and `run` as something that returns or never does |
| `CommandCoordinator` | `ForRepo`, `Reset`, `Resolve` | extends `CommandRunner`: its runners execute the command meanwhile |
| `CommandRunnerProofs`, `CommandCoordinatorProofs` | their theorems | the second extends the first: each step of the coordinator is one of the runner or leaves it alone |
| `CommitOwned`, `CommitOwnedProofs` | the guarded commit beside outsiders, hooks and git commands that outlive their caller | stands alone |
| `FileEdits`, `FileEditsProofs` | one file's guarded edits down to rename, link and sync | stands alone |
| `MachineInts` | the int of Go, with its wrapping sum | - |
| `OutputFilter` | operators: lines, filters with context and presets, evidence | extends `MachineInts` |
| `TailOutput` | the tail, the running record's refreshes, the terminal record | extends `OutputFilter` |
| `TailOutputProofs` | the theorems about both | extends it |
| `FileTree` | the tree and those who edit it (external) | - |
| `FileReads` | paged reads, read_many, ReadFilesInRepo | extends `FileTree` |
| `FileWalk` | the bounded walk; List, Find, Search and their cuts | extends `FileTree` |
| `RepoSearch` | the repository search and its ignore cascade | extends `FileTree`, `MachineInts` |
| `FileQueries` | one of these calls at a time beside the editors | extends the three |
| `FileQueriesProofs` | the theorems about reads, walks and searches | extends it |
| `MC*` | symmetry sets and small instances for TLC | extend the module they are named after |

### GroupTermination

`run[c]` is the next line of `groupTermination.run`, `watcher[c]` that of the goroutine exec.Cmd
starts (external, modelled from `command.Cancel`, `WaitDelay` and `Wait`), and `mu`, `reaped`
are the struct's fields. `owner`, `leader` and `kin` are the kernel's: an id is free again once
its leader is reaped and no member lives, and is then handed to another command or a bystander.
`stray` remembers commands whose `kill(-pgid)` struck someone else. The error of waitid is
ignored by the code; `WaitidMayFail` turns that path on.

In the model, as in the code, `cancel` never sees `reaped` set: `run` sets it and keeps the mutex
through `Wait`, so a cancel that comes later waits for a mutex that is released only after the
watcher itself has returned. The check is there for an order that does not occur, and the one that
does occur is the deadlock of the run `termination_cancel`. Releasing the mutex before `Wait`,
with `reaped` set, would give the check the role its comment describes.

### CommandHistory

A writer's `pc` is a place in `Put`, `Cleanup` or `NewHistory` of one helper; `h.mu` is implicit in
there being one writer per helper. An index is a set of rows, the record file is one of `absent`,
`torn`, `running`, `terminal`. `inode` and `handle` tell an append into the index from one into
the file a rename has just replaced. `wedged` stands for a line that does not decode, which
makes every later read fail, as in the code. Reads go step by step, without a lock, while
writers move. A clock reading is any member of `Times`, in any order: clocks step.

### CommandRunner and CommandCoordinator

Each runner has a history: `life[r]` follows `NewHistory`, from loading the index to its `Cleanup`,
and a later `Cleanup` by the host; `root[r]` is its log root, or `Memory`, which a history falls back
to when it cannot be opened and cleaned. The disk is a record file per command (`file`) and the set of commands with an index
row (`row`); `cache[r]` is `History.records`. `Put` of the terminal record is three steps, as in the
code: the file is truncated, then written, then the row is appended; each may fail, and a reader in
between finds what is there. A `Cleanup` retires any records it likes (`dropped`, and `swept` as the
history of it): what it picks is a matter of `CommandHistory`. So a `Put` may return nil for a record
that has just been deleted, and a runner that has cached a running record goes on answering with it.

`work[id]` follows `runPreparedWithWait`, the worker and `executePrepared`. `groupTermination.run` may
be stuck (`RunWedges`), which the finding of `termination_cancel` makes a real outcome. A client
performs one call at a time, on any runner over the root; an index that cannot be read answers it
with an error at any time (`IndexUnreadable`).

In the coordinator `made` is the set of runners that exist and `seek[c]` is a `Resolve`, one runner
per step. `ForRepo` and `Reset` make a runner whose history then loads and cleans up, step by step,
while the registry, commands and calls move on. An index that cannot be read ends a `Resolve` too
(`ResolveUnreadable`). For TLC the constraint `RegistryFirst` leaves to the run of `CommandRunner`
what that explores already: the host's own `Cleanup`, contexts that end, and a call's later steps.

### CommitOwned

A tree is a function from paths to contents. Git is modelled from the commands the code runs,
rename detection of `diff --cached` included: `Similar` is the relation git's default similarity decides,
and any choice of pairs within it is possible (`Renamings`). The repository begins in any state.
Outsiders edit, stage and commit between any two steps. A commit runs the repository's hooks on the
isolated index after the last check (`hooked[a]` is what they stage). A process that dies gives up its
locks at once, while the git command it was waiting for goes on and moves HEAD, or resets the index,
whenever it comes to it (`orphanCommit` and `orphanSync`). `late[a]` and `raced[a]` remember what outsiders, orphans included, staged or committed
during a's transaction, and the properties say where they matter.

### FileEdits

A text is a sequence of spans, and its hash is the text: hashes do not collide. Every version of
the file is numbered; `shown` is the version everybody sees, `kept` the one a power loss leaves,
`sound` whether its data is synced. The directory may reach the disk by itself at any time
(`Writeback`), before an unsynced file's data. `raced` holds the callers that somebody their mutex
does not cover has overtaken since they compared: another Service, another process, `fileops`, or a
removal.

The removal of a temporary file may fail. In `WriteFileAtomic` and `WriteFileAtomicOpts` it is
deferred and its error is dropped, so that the file stays (`litter`); after a link it is reported, as is
a failed sync of the directory, although the target has changed (`FailsLate`). `SuccessIsTidy` says what is left of the promise that no temporary
file remains: a call that succeeds leaves none.

Things the model makes visible that are no disagreement with a documented promise:

- `GuardHolds` has to except `raced` callers. `fileops` has no mutex at all, and the MCP adapter
  opens a Service for every call, so that there the mutex protects nobody.
- `AppendsOnce` needs the text append_unique looked at to be the one its `Edit` then finds. Without
  this condition TLC shows how it appends twice: a read before the mutex, two edits by others, and
  an expected hash that is right again.
- `CreateExclusive` writes in place and unsynced, which `NeverTorn` excepts.

### TailOutput and OutputFilter

A byte keeps its place in the order of arrival and its kind: a continuation of a rune, a newline, or
one of the two halves of a secret. A digest is the sequence of bytes it covers. `pc[s]` is the
copying goroutine of stream s: the write under the mutex is one step, and the callback's combined
text, its digest and its store into the history are three more, so that two goroutines overtake one
another between them. Redaction and line splitting are modelled by what they do to those bytes; a
pattern is the set of kinds it hits. `OutputFilter` has the whole of `applyFilter`, presets, packs,
context windows and caps included, and the evidence selection. Context and limit of a filter are any
ints, negative ones and the largest included, with sums that wrap around; the kind `"?"` is an
expression that does not compile, and the call that has one fails.

`RetainedIsTail` says that the tail is the newest bytes within the budget, in order, marked when
something was dropped, and short of the budget only by the rest of a rune. That the tail begins with
a whole rune is a property of its own, `WholeRunesRetained`, which the run `tail_output_runes` shows
to be violated: `headRuneCut` looks at one chunk, so an eviction that drops the first half of a rune
with its chunk leaves the tail to begin inside it.

Limits of the model: half a secret is harmless in it. A pattern such as `token=VALUE`
(`command/runner.go:1025-1036`) needs its key, and once eviction has taken the key the value is shown.
`FilterAnswers` says which lines a negative context leaves, and says nothing of completeness where
the bound of a context is beyond the ints; no document speaks of either.

### FileReads, FileWalk, RepoSearch

The tree is a constant of a few nodes; contents are sequences of lines with a width and a number of
hits, and an edit replaces, creates or removes a file between any two steps of a call. Which
rule or glob names which node is data of the instance. `FileReads` follows one client: a file is
stat'ed and opened in two steps, an answer is cut to the encoded budget by `Fit` as `fitMCPRead`
does, and the client goes on at `next_offset`. In `FileWalk` the recursion is a list of what is left
to do; a directory yields any selection of as many entries as were asked of it. In `RepoSearch`
`levels` is the stack of loaded ignore files, unwound at the next visit; `unread` remembers what the
search passed over because listing, looking at, opening, reading or closing it failed. An ignore file
that cannot be read adds no rules. A start that is a link to a file is followed (`LinkTo`). The numbers
of lines of context are any ints.

Things these modules make visible that are no disagreement with a documented promise:

- A hit inside the `after` window of the last counted hit is shown and not counted, so that more hits
  than `MaxMatches` may be shown (`fileops/search.go:86-87`).
- A repository search that starts at an ignored directory, or at one passed over by default, answers
  with nothing and does not say why.
- The root rules of `filesystem/ignore.go` can bring back a file below an ignored directory; git, and
  the cascade of `fileops`, cannot.
- A page that ends where a line alone is over the budget makes no progress; the client stalls there,
  and `PagesFit` says that it stalls nowhere else.

### Where the code departs from its comments

Four such departures have a run of their own and are the `findings`. These were met while modelling;
the models contain the behaviour, and the properties that are checked and proved say what is left
of the promise.

- `command/runner.go:666-667`: WaitForHistory returns "a retained record, blocking until the command
  reaches a terminal state or waitSeconds elapses". The terminal `Put` truncates the record file in
  place (`command/history.go:871`); a poll of another runner in that moment (`command/runner.go:706-709`)
  cannot decode it and answers at once that there is no such command. `WaitNotCutShort` allows this from
  the moment the record begins to be rewritten, and no earlier.
- `command/runner.go:747`: "Status ok guarantees that subsequent get/filter calls no longer report
  running". A runner that has cached the running record reports it again once a `Cleanup` of another has
  retired the terminal one, as `command/history.go:299` prefers what is cached to what is not there.
  `AbortOkIsFinal` holds for good on the runner that answered, elsewhere until the retirement.
- `gitops/git_commit.go:22-24`: staging, validation and commit use an isolated index "so that no other
  process can change what the commit contains". `git commit` at line 167 runs the hooks on that index,
  after the last check. `GuardedCommit` excepts what hooks stage.
- `gitops/git_commit.go:22` (and `git_commitlock.go:38-42`): "an interprocess lock serializes guarded
  commits". The lock goes with the process that died and its git command does not, so that it may commit
  during the transaction of the next holder. `GuardedCommit` treats it as an outsider.
- `safefs/atomic_opts.go:29-30`: "On every failure path the temporary file is removed and the target
  is untouched". Line 98 reports a failed sync of the directory, and line 89 a failed removal after a
  link, when the target has changed; the removal of line 61 may fail. `AckedIsDurable` and `GuardHolds`
  count such a change as one.
- `fileops/search.go:27-30`: without `Truncated` "Total reads as a count of everything". A directory
  that cannot be read (line 343), and a file whose Info, open, read or close fails (lines 397, 401-406),
  are passed over, and `Truncated` stays false. `SearchIsExact` excepts what lies under such an entry.
- `fileops/search.go:67-69`: context adds "non-matching neighbour lines around each match". A negative
  number (lines 472, 479) takes the matching line away, although `Total` counts it. `SearchIsExact` says
  which lines remain.
- `filesystem/list_find.go:69` and `types.go:139,157` speak of deterministic paths and entries. Of a
  directory that overflows the scan limit the first entries in the file system's own order are kept
  (`filesystem/walk.go:81`). This compares two executions, which no property of one can state.

### Other observations

Met while reading and modelling; no comment denies them.

- `Abort` answers "running" for a command its runner does not track, without cancelling anything: for
  a command between its running record and its tracking, or one of another helper
  (`command/runner.go:760`, whose comment at 748 speaks of a cancellation that was requested).
- A helper that dies leaves a running record that nobody closes (`command/runner.go:292`).
- A line of an index that does not decode, as a crash in an append leaves it, makes every later read of
  the index fail, and with it `NewHistory` (`command/history.go:809`).
- A commit whose git hangs holds the mutex of the process, which is waited for without the caller's
  context (`gitops/git_commitlock.go:47`).
- Preflight reads git four times; a change staged between the staged and the unstaged check is in
  neither (`gitops/preflight.go:72-80`).
- The target of a worktree is looked at before `git worktree add` creates it
  (`gitops/git_worktree.go:73`); of two callers git refuses the second.

## 3. Runs

The eight passing runs exhaust their state spaces. The deadlock check is off where calls are
bounded in number: a system whose callers have done all their calls stops.

| Run | Instance | Distinct states | Shows |
|---|---|---|---|
| `termination` | 2 commands, 2 ids, 1 descendant each | 65,000 | `NoStrayKill`, `NoSurvivors`, the inductive invariant, and, with fairness, `CancelEndsRun` |
| `termination_cancel` | the same | violation | a cancel that comes after `reaped` was set never returns, and neither does `run` |
| `history` | 2 helpers, 2 commands, 2 clock readings, 1 record kept, 1 reader at a time, 2 rewrites, 1 crash | 1,569,000 | acknowledged rows stay, acknowledged records can be read or are retired, an end somebody was told of is never taken back, the index implements the ledger |
| `history_readback` | no reader, no crash, no short write | violation | `Put` returns nil for a record file that a `Cleanup` has just deleted |
| `runner` | 1 command, 2 runners over one root or in memory, 1 client | 1,409,000 | Abort's ok is final, answers are durable, waits are not cut short, as far as retention and rewriting leave it; with fairness, calls return |
| `coordinator` | 3 runners, 1 command, 1 client, 1 repository, 1 root or memory | 1,900,000 | `Resolve` finds the owner, and later the record |
| `commit` | 2 agents in 1 or 2 processes, any repository of 2 paths and 2 contents, 1 move of an outsider or a hook, 2 commits, 1 crash | 2,840,000 | guarded commits, survival of staging, locks |
| `commit_rename` | 1 agent, 1 content | violation | a staged rename into an owned path also commits the deletion of the old one |
| `file_edits` | 2 callers over 2 Services or none, 2 spans, 3 calls, 1 crash | 2,800,000 | guards, appends, torn files, durability, no temporary files after a success |
| `tail_output` | 2 streams, 4 bytes in writes of up to 2, a budget of 3, 8 filters, ints of 8 bits | 1,344,000 | the tail, masking, running and terminal records, filters and evidence |
| `tail_output_runes` | a budget of 2 | violation | the tail begins with the second half of a rune that two writes divided |
| `file_queries` | 6 nodes, 4 contents, 1 edit, each kind of call, failing reads, ints of 4 bits | 5,389,000 | pages, batches, walks and searches over a tree that changes |

The four violations are the `findings`; each quotes the comment it contradicts.

### Bounds

- Two actors of each kind. Every race named under hazards is between two; the third party
  (bystander, outsider, kernel) is separate. Three runners, because a runner must be replaced
  twice for the order of the retired ones to matter.
- Two group ids with two commands and a bystander: an id is always scarce enough to be reused
  while its first user still has steps to take.
- `MaxRecords = 1` with two commands: retention always has something to take out.
- `MaxRewrites`, `MaxCalls`, `MaxMoves`, `MaxCommits`: the longest scenario that a property speaks
  of (look, two foreign edits, append) and no more. `MaxCalls = 3` is one more than the callers, so that
  a call follows one that has ended. As the repository of `commit` begins in any state, one move is
  enough for one by an outsider or a hook at any point of a transaction.
- `MaxQueries = 1`: a call of getRecord changes nothing of another's but what was told, and a call
  is held only to what was told before it began; so two that overlap show nothing that one after the
  other do not. In `history` the clock steps until a reader comes in; then the constraint `ReadersAtRest`
  holds it still, as the steps of readers do not depend on it.
- One client in `runner`: clients share nothing but what the command and the histories do.
- `MaxCrashes = 1`: a crash resets a process to its initial state; a second one adds nothing the
  first does not reach, except in the number of records left behind.
- `WholeFile = 3` spans: files begin with at most two, so that an append reaches the cap and a
  further one is refused.
- `MaxInt` is 127 in `tail_output` and 7 in `file_queries`: larger than any number of lines there, and
  filters and queries reach both ends of the ints.
- Four bytes and a budget of three: every eviction case happens, of a whole chunk, within one, across
  streams, at a rune and inside a secret. Writes of two bytes let a write hold or divide a secret.
- The tree has a directory with a file, a file whose path sorts between the two, a directory passed
  over by default with a file in it, and a hidden link. Its contents are small, of several lines,
  binary, and of one line that is over a page's bytes. Each limit is smaller than what some request
  meets and larger than what another does. One edit per call is what the accounting of growth and the
  two looks at a file need; a second edit multiplies the states by the contents and adds no order of
  look and change. `ReadBytes` cuts no page of text in this tree, as `ReadLines` or the budget of the
  answer comes first: that branch is covered by the proof alone.

Symmetry is used only in runs of invariants and action properties.

### Fairness

- `GroupTermination!FairSpec`: weak fairness of the progress of `run` and of the watcher. Both are
  goroutines that only wait for what their guards name, and WaitDelay is a timer. The processes, the
  context and failures owe nothing.
- `CommandRunner!FairRunnerSpec`: weak fairness of each client's own call. Its steps are lines of a
  goroutine and its timers. The command owes nothing: `CallsReturn` holds for a command that never
  ends.

The other specifications are used for safety only and have no fairness.

## 4. Proofs

The eight proof modules take nothing on trust but the named `ASSUME`s of the modules they are about:
special values differ from ordinary ones, bounds are natural numbers, the largest int is positive, similarity
is a relation on contents, a directory tree is finite, the options of a search and the rules of ignore files have the shape that the code's parsers give them. The
one theorem with a further hypothesis, `PagesAreCut`, says so below. They hold for any number of
commands, ids, helpers, agents, processes, runners, clients, paths, callers, Services, files and limits.
The inductive invariants whose quantifiers TLC can enumerate were checked by TLC before they were
proved; where a run has room for one, it is among the run's properties (`IndInv`).

**GroupTerminationProofs.** `NoStrayKill` and `NoSurvivors` are not inductive: whether a kill is
stray depends on who owns the id. `IndInv` adds that the mutex is where `run` and the watcher say
(`MutexInv`), that a command has an id from its start on (`StartedInv`) and that the id is the
command's own until it reaps the leader (`PinnedInv`). A kill of `run` comes before the reap; one of
`cancel` comes with the mutex held and `reaped` not set, hence before it too.

**CommitOwnedProofs.** `LockInv` first, as it needs nothing else. With it two transactions exclude
one another, and `TxnInv` says that what a transaction has staged beyond the index it began with is
owned, and that what it is about to commit was checked against the HEAD of that check, in both cases up to what hooks have
staged. A git command whose caller has died holds no lock; to the other calls it is an outsider that
has raced them. Both action
properties, `GuardedCommit` and `StagingSurvives`, follow from one step under that invariant. That
an unowned path is untouched or renamed away, whichever similar pairs git picks, is a lemma about
`StagedFiles` (`StagedOnlyOwned`).

**FileEditsProofs.** Seven theorems from one inductive invariant. `OwnsItsParts` gives mutual
exclusion within a Service: two callers past the lock of one Service would both be `writeMu`. Hence
an install of one caller finds any other that has compared either outside its Service, and then
marks it as overtaken, or not at all; this is `UpToDate`. `Versions` orders acknowledged, kept,
shown and made versions, and says that a call's own version is not ahead of the shown one: a power
loss takes `shown` back but ends all calls with it. `Intact` says that a temporary file that is about
to be renamed is whole and synced, so that every version, shown or kept, is whole until
`CreateExclusive` wrote in place (`NeverTorn`). `Appending` carries what append_unique looked at to
the text that it installs (`AppendsOnce`). `SuccessesAreTidy` follows from the places at which a call
has a temporary file: one that succeeds has renamed or removed it. The types rest on lemmas that edits make texts of texts
(`ReplaceFirstText`, `EditsMakeText`, `InstallsText`).

**CommandHistoryProofs.** The properties speak of three things that no single step relates: what a
caller was told, what the index holds and which record files exist. `IndInv` links them in this
order. The file lock has one holder, and a writer past it is at one of a few places. Each command has
one runner in one helper, so that its rows are unique and its terminal row comes after its running
row. A rewrite's plan is the index of the moment it was read, as nobody appends while the lock is
held, so that its rename loses nothing but what retention retires. A Cleanup deletes the record files
of commands it retires only, and one that says terminal is opened for writing by nobody, as its
command has no runner left. Whoever was told of an end was told by a cache, a record file or a
retirement that says so for ever. `"unborn"` and `NoOne` stand for commands not yet and no longer run;
the named assumption keeps both apart from the helpers. For the refinement, `DurableStatus` maps the index to
`CommandLedger`: `PutAppend` is `Start` or `Finish`, the rename of a rewrite is `Retire`, and every
other step, the deletion of files included, is a stutter.

**CommandRunnerProofs, CommandCoordinatorProofs.** What a get answers depends on a cache, a file and a
row that different steps of different runners write and delete. `RecordInv` relates them for each
command: how far it is says what its record file can hold (`DiskOK`) and, while nobody has retired it,
what must be there (`KeptOK`); a cache holds what its disk says or said, and an end only if it is the command's
outcome (`CacheOK`). So there is never a second end, only the one end, an old claim or nothing, and of
these the last two only after a `Cleanup` (`swept`), or while the file is rewritten. `LifeInv` says which histories are open,
`CallInv` what a call under way has seen, `PastInv` that what callers were told stays so.
For the coordinator, no step loses a runner: each is the base, the current one of a repository or a
retired one (`RegistryInv`). A `Resolve` under way walks a snapshot that holds the owner, and has not
gone past it while it had what the pass asks for (`SeekInv`): first that it tracks the command, then
that its record is found. The
runner's theorems are proved once more for the coordinator's specification (`PromisesHold`).

**FileQueriesProofs.** What these properties say is arithmetic over sums and recursive functions of
unbounded sequences. The first part proves, each by its least counterexample, that a sum over a
finite set is a natural number and grows by what an element adds (`SumNat`, `SumInsert`), and later
that the recursion of `fitMCPRead` over a binary page ends (`ShrinkExists`, `ShrinkEnds`). On these
rest six theorems.

- `RepoReadAccounts`: what `Stat` found of a file is still so at `Open` unless somebody touched it
  (`RepoInd`), and the total is charged with the bytes that were read.
- `WalkBudgets`: `Paid` relates every file still to be read to what the walk charged for it, by a
  function of the bytes charged before each item. The bytes read exceed those charged only by the
  growth of one file, after which the search stops and says so.
- `PagesCompose`: `PageInd` says that each page begins at the `next_offset` of the one before, and
  `GoodPage` that a page cut anywhere says where to go on, with `Page` (`PageIs`) and `Fit` (`FitIs`)
  shown to return such pages.
- `PagesFit`, under the hypothesis `Headroom < ModelBytes`: 128 bytes are set aside for the metadata
  of a truncation when the budget exceeds them (`fstools/mcp_file.go:192`), and `Config.ModelBytes` is at
  least 1024 (`fstools/config.go:76`). The batch and the stalling part hold without the hypothesis.
- `NothingLostSilently`: `WalkTree` says of a walk under way that its tasks cover disjoint parts of the
  tree, none of which holds what is listed already, and that an entry nobody edited is listed or covered
  by a task, unless a task stands for what a batch cut off or the walk says that it is truncated
  (`Walking`). Taking a task, a batch of a directory's entries or an item keeps this; of a search's items
  those that are read leave all their matching lines behind (`Matching`). Sorting and the choice of the
  first so many lose nothing by `RankOnto` and `AscendingIs`, and that a task at the root covers the tree
  is an induction along parents (`FromRoot`), by the least node that fails.
- `SearchIsExact`: `SearchTree` has three parts. `VisitsOK`: no entry lies under two queued visits, each is
  under the base and not left out above, and the stack of ignore files holds the directories above each
  of them, before all others, so that popping leaves just those (`PopIs`). `ShowsDue`: nothing is shown twice, and of a file nobody edited what is shown is
  what the query asks for, all of it unless the file is still to be visited, the limit was reached, or the file or a directory above
  it could not be read (`Lost`).
  `CountOK`: the counter is at most the limit, and the search is over once it is reached. `ReportIs` says, through the context windows of
  overlapping matches (`WindowsAre`, `SpansAre`), negative ones included, what one file adds unless their bounds
  are beyond the ints (`Overflows`), and `IgnoresIsExcluded` that the
  cascade, asked from the nearest directory outwards, is the reference definition `Excluded`.

**TailOutputProofs.** All five properties of `TailOutput`, for any budget, any bytes in writes of any
size, and any filters, whatever ints their context and limit are. The operators of these modules fold over sequences with steps of their own, and
the provers cannot instantiate a theorem about folds in general; so the first part proves what it needs
of folds with the step given as a function (`Folding`, `FoldIs`), and each fold then has a lemma that
gives its values one by one (`BytesFold`, `RedactFold`, `CombinedFold`, `DistilledFold`, ...).
`TailOutputInv` has four parts.

- `TailInv`: each chunk holds bytes of one stream, none but the first is empty, and all but the first
  begin where a write did (`ChunksAre`); together they are a suffix of what was printed (`TailIs`).
  `EvictChunks` and `EvictHead` say what eviction leaves, `TailGrows` that a write and an eviction keep
  both. Masking follows: `Redacted` says that a redacted text has no secret, and that it is empty only
  for an empty one; so `CombinedText` never puts a redacted run beside another of the same stream
  (`Runs`, `RunsGoOn`).
- `HashesInv`: the digest of a stream is its bytes, each once and in order.
- `ViewsInv`: a refresh between its steps shows nothing that was not printed yet when it takes its
  digest, and that digest has its own stream complete until the goroutine reads again.
- `RecordInv`: a running record's digest covers what the record shows, and either some refresh is still
  on its way or the digest is complete for one stream: the last refresh stored is the one whose own
  stream nobody can have advanced since. A terminal record is the one made from the tail, which no
  longer changes, as both streams are closed.

For `FinalRecordComplete`, `CombinedBytes` shows that the combined text does not depend on how the
retained bytes are divided into chunks. For `FilterAnswers`, `AtIs` enumerates a finite set of positions
in order, `SelectedIs` and `CutFollows` give the lines of a filter's answer and their order, and `PickGoesOn` that of
the evidence.

Every invariant and action property of the passing runs, and the refinement of `CommandLedger`, is thus a
theorem. Checked by TLC only is what is live (`CancelEndsRun`, `CallsReturn`), as the proof system
handles neither ENABLED nor fairness.

The library's induction theorems take an operator as a parameter, which the provers here cannot
instantiate: what a recursive function computes is proved only where a least counterexample does it.
No module uses a RECURSIVE operator.

## 5. Not modelled

- Path confinement, modes and parent directories of `safefs`: a matter of the operating system's
  `openat`, with no state of the program's own.
- In the history: lookups by output hash, compression, pagination and size caps. In the runner:
  policy, working directory, environment, template substitution, the death of a process (a running record
  that nobody closes; `CommandHistory` has the crashes).
- Preflight, status, branches, worktrees: single git commands and the classification of their output,
  without state of their own.
- Argument decoding and the native adapter of `fstools/`; hashline anchors in reads.
- A repository search that starts at a link to a directory; a pattern whose second half alone is a secret.
- In the edits: hashline edits, newline conventions, use of a Service after `Close`.
- Windows variants of the locks and of termination.
- Formatting and parsing of git's output; regular expressions and ignore patterns; tool schemas.

## 6. Plan

In order of importance:

1. `previousRun` and the size caps of the index in `CommandHistory`.
2. Operators for the remaining pure algorithms, checked against reference definitions: environment
   merge, substitution, preflight classification, hashline edits.
