---------------------------- MODULE CommandHistory ----------------------------
(***************************************************************************)
(* The durable command history (command/history.go, history_lock.go):      *)
(* several helpers share one log root that holds a record file per command *)
(* and an append-only index with a row for each status a command reached.  *)
(* Put rewrites the record file in place and then appends a row under the  *)
(* inter-process lock; Cleanup snapshots, deletes and rewrites the index   *)
(* under the same lock; getRecord reads index and file without any lock.   *)
(* Helpers crash, waits for the lock time out and writes fail.             *)
(*                                                                         *)
(* A command has at most one running and one terminal row, so an index is  *)
(* a set of rows. The per-repository index files are one set: a command's  *)
(* rows are all in the same one.                                           *)
(***************************************************************************)
EXTENDS Naturals, FiniteSets

CONSTANTS
  Helpers,        \* History instances over the same root
  Ids,            \* command ids
  Times,          \* wall-clock readings; clocks may step
  MaxRecords,     \* HistoryPolicy.MaxRecords
  NoOne,          \* nobody holds the lock, nobody runs the command
  TornWrites,     \* whether an index append can be cut short
  MaxQueries,     \* bound on the getRecord calls in flight
  MaxRewrites,    \* bound on index rewrites
  MaxCrashes      \* bound on helper crashes

ASSUME HistoryAssumption ==
  /\ NoOne \notin Helpers
  /\ "unborn" \notin Helpers \cup {NoOne}
  /\ Times \subseteq Nat
  /\ MaxRecords \in Nat \ {0}
  /\ TornWrites \in BOOLEAN
  /\ MaxQueries \in Nat
  /\ MaxRewrites \in Nat
  /\ MaxCrashes \in Nat

VARIABLES
  file,     \* disk: what each command's record file holds
  rows,     \* disk: the rows of the index
  wedged,   \* disk: the index holds a line that does not decode
  inode,    \* disk: which incarnation of the index file has its name
  lock,     \* kernel: who holds command-history.lock
  pc,       \* where a helper's writer (Put, Cleanup, NewHistory) is
  up,       \* NewHistory has returned
  arg,      \* the row Put is writing
  handle,   \* the index incarnation Put has open
  kept,     \* the rows Cleanup's rewrite keeps
  cache,    \* History.records
  query,    \* the getRecord a helper is executing
  runner,   \* who runs each command
  crashes,  \* number of crashes so far
  acked,    \* history: the records whose Put returned nil
  retired,  \* history: the commands a Cleanup has taken out
  told,     \* history: the commands some getRecord answered as terminal
  misled    \* history: the answers of getRecord that took an end back

disk == <<file, rows, wedged, inode>>
writer == <<pc, up, arg, handle, kept>>
ghost == <<acked, retired, told, misled>>
vars == <<disk, lock, writer, cache, query, runner, crashes, ghost>>

Status == {"running", "terminal"}
Row == [id : Ids, status : Status, at : Times]

\* Put, Cleanup and NewHistory hold h.mu from their first step to their last.
MuFree(h) == pc[h] = "idle"
Holding == {"open", "append", "clean", "rewrite"}   \* inside the index lock

WriterSteps == {"down", "idle", "file", "putlock", "cleanlock"} \cup Holding

\* A getRecord under way: seen is what it would answer now; ended, that somebody
\* had been told of the command's end when it began.
NoQuery == [at |-> "idle", id |-> NoOne, seen |-> "none", ended |-> FALSE]
Query == [at : {"idle", "index", "file", "store"}, id : Ids \cup {NoOne},
          seen : Status \cup {"none"}, ended : BOOLEAN]

TypeOK ==
  /\ file \in [Ids -> Status \cup {"absent", "torn"}]
  /\ rows \subseteq Row
  /\ wedged \in BOOLEAN
  /\ inode \in 0..MaxRewrites
  /\ lock \in Helpers \cup {NoOne}
  /\ pc \in [Helpers -> WriterSteps]
  /\ up \in [Helpers -> BOOLEAN]
  /\ arg \in [Helpers -> Row \cup {NoOne}]
  /\ handle \in [Helpers -> 0..MaxRewrites]
  /\ kept \in [Helpers -> SUBSET Row]
  /\ cache \in [Helpers -> [Ids -> Status \cup {"none"}]]
  /\ query \in [Helpers -> Query]
  /\ runner \in [Ids -> Helpers \cup {NoOne, "unborn"}]
  /\ crashes \in 0..MaxCrashes
  /\ acked \subseteq Ids \X Status
  /\ retired \subseteq Ids
  /\ told \subseteq Ids
  /\ misled \subseteq {"none", "running"}

Init ==
  /\ file = [id \in Ids |-> "absent"]
  /\ rows = {}
  /\ wedged = FALSE
  /\ inode = 0
  /\ lock = NoOne
  /\ pc = [h \in Helpers |-> "down"]
  /\ up = [h \in Helpers |-> FALSE]
  /\ arg = [h \in Helpers |-> NoOne]
  /\ handle = [h \in Helpers |-> 0]
  /\ kept = [h \in Helpers |-> {}]
  /\ cache = [h \in Helpers |-> [id \in Ids |-> "none"]]
  /\ query = [h \in Helpers |-> NoQuery]
  /\ runner = [id \in Ids |-> "unborn"]
  /\ crashes = 0
  /\ acked = {}
  /\ retired = {}
  /\ told = {}
  /\ misled = {}

-----------------------------------------------------------------------------
(* Reading the index. *)

\* Faulty form: the newest row wins, whatever it says.
NewestWins(candidate, current) == candidate.at > current.at

\* supersedes: a terminal row beats a running one, else the later one wins.
Supersedes(candidate, current) ==
  IF candidate.status # current.status
    THEN candidate.status = "terminal"
    ELSE candidate.at > current.at

\* latestEntries: the rows no other row of the same command supersedes.
LatestEntries(R) ==
  {r \in R : \A s \in R : s.id = r.id => ~Supersedes(s, r)}

\* The status the index gives a command; List shows exactly these.
Listed(R, id) ==
  LET latest == LatestEntries(R) IN
  IF \E r \in latest : r.id = id THEN (CHOOSE r \in latest : r.id = id).status
                                ELSE "none"

-----------------------------------------------------------------------------
(* A helper's life. *)

\* An operation that fails leaves a running helper idle; NewHistory gives the
\* root up and its caller falls back to a volatile history.
After(h, ok) == IF up[h] \/ ok THEN "idle" ELSE "down"

\* NewHistory: loadIndex caches every readable record, Cleanup comes next. An
\* index that does not decode fails it at once.
Boot(h) ==
  /\ pc[h] = "down"
  /\ ~wedged
  /\ cache' = [cache EXCEPT ![h] =
       [id \in Ids |-> IF Listed(rows, id) # "none" /\ file[id] \in Status
                         THEN file[id] ELSE "none"]]
  /\ pc' = [pc EXCEPT ![h] = "cleanlock"]
  /\ UNCHANGED <<disk, lock, up, arg, handle, kept, query, runner, crashes, ghost>>

\* The process dies: the kernel drops its lock, memory is gone, and so are the
\* commands it ran. A file it was writing stays as it is; an append may be cut.
Crash(h) ==
  /\ crashes < MaxCrashes
  /\ pc[h] # "down"
  /\ crashes' = crashes + 1
  /\ pc' = [pc EXCEPT ![h] = "down"]
  /\ up' = [up EXCEPT ![h] = FALSE]
  /\ arg' = [arg EXCEPT ![h] = NoOne]
  /\ handle' = [handle EXCEPT ![h] = 0]
  /\ kept' = [kept EXCEPT ![h] = {}]
  /\ cache' = [cache EXCEPT ![h] = [id \in Ids |-> "none"]]
  /\ query' = [query EXCEPT ![h] = NoQuery]
  /\ runner' = [id \in Ids |-> IF runner[id] = h THEN NoOne ELSE runner[id]]
  /\ lock' = IF lock = h THEN NoOne ELSE lock
  /\ wedged' \in {wedged, wedged \/ (TornWrites /\ pc[h] = "append")}
  /\ UNCHANGED <<file, rows, inode, ghost>>

-----------------------------------------------------------------------------
(* Put. *)

\* A command is put as running by the helper that starts it, and as terminal
\* by that helper when it ends; without a wait budget it is put once, at its
\* end. The record file is truncated before it is written.
PutBegin(h, id, status, at) ==
  /\ MuFree(h)
  /\ \/ runner[id] = "unborn"
     \/ runner[id] = h /\ status = "terminal"
  /\ runner' = [runner EXCEPT ![id] = h]
  /\ arg' = [arg EXCEPT ![h] = [id |-> id, status |-> status, at |-> at]]
  /\ file' = [file EXCEPT ![id] = "torn"]
  /\ pc' = [pc EXCEPT ![h] = "file"]
  /\ UNCHANGED <<rows, wedged, inode, lock, up, handle, kept, cache, query, crashes,
                 ghost>>

\* Faulty form: Put writes the record its cache holds, not the one it was given.
PutFileCached(h) ==
  /\ pc[h] = "file"
  /\ file' = [file EXCEPT ![arg[h].id] = cache[h][arg[h].id]]
  /\ pc' = [pc EXCEPT ![h] = "putlock"]
  /\ UNCHANGED <<rows, wedged, inode, lock, up, arg, handle, kept, cache, query,
                 runner, crashes, ghost>>

PutFile(h) ==
  /\ pc[h] = "file"
  /\ file' = [file EXCEPT ![arg[h].id] = arg[h].status]
  /\ pc' = [pc EXCEPT ![h] = "putlock"]
  /\ UNCHANGED <<rows, wedged, inode, lock, up, arg, handle, kept, cache, query,
                 runner, crashes, ghost>>

\* Put returns; whatever it returns, a command whose terminal Put or whose
\* first Put failed is put no more.
PutReturns(h, ok) ==
  /\ pc' = [pc EXCEPT ![h] = "idle"]
  /\ arg' = [arg EXCEPT ![h] = NoOne]
  /\ handle' = [handle EXCEPT ![h] = 0]
  /\ runner' = [runner EXCEPT ![arg[h].id] =
                  IF ok /\ arg[h].status = "running" THEN h ELSE NoOne]

PutFileFails(h) ==
  /\ pc[h] = "file"
  /\ PutReturns(h, FALSE)
  /\ UNCHANGED <<disk, lock, up, kept, cache, query, crashes, ghost>>

\* Put rejects a record over its size limit before it writes anything.
PutRejected(h, id) ==
  /\ MuFree(h)
  /\ runner[id] \in {"unborn", h}
  /\ runner' = [runner EXCEPT ![id] = NoOne]
  /\ UNCHANGED <<disk, lock, writer, cache, query, crashes, ghost>>

\* Faulty form: the append does not wait for the lock.
PutWithoutLock(h) ==
  /\ pc[h] = "putlock"
  /\ pc' = [pc EXCEPT ![h] = "open"]
  /\ UNCHANGED <<disk, lock, up, arg, handle, kept, cache, query, runner, crashes,
                 ghost>>

PutLock(h) ==
  /\ pc[h] = "putlock"
  /\ lock = NoOne
  /\ lock' = h
  /\ pc' = [pc EXCEPT ![h] = "open"]
  /\ UNCHANGED <<disk, up, arg, handle, kept, cache, query, runner, crashes, ghost>>

\* indexLockWait passes while another helper holds the lock.
PutLockTimeout(h) ==
  /\ pc[h] = "putlock"
  /\ lock # NoOne
  /\ PutReturns(h, FALSE)
  /\ UNCHANGED <<disk, lock, up, kept, cache, query, crashes, ghost>>

PutOpen(h) ==
  /\ pc[h] = "open"
  /\ handle' = [handle EXCEPT ![h] = inode]
  /\ pc' = [pc EXCEPT ![h] = "append"]
  /\ UNCHANGED <<disk, lock, up, arg, kept, cache, query, runner, crashes, ghost>>

\* The row lands in the file Put opened; one that a rename has replaced since
\* then takes it along. Put unlocks, caches the record and returns nil.
PutAppend(h) ==
  /\ pc[h] = "append"
  /\ rows' = IF handle[h] = inode THEN rows \cup {arg[h]} ELSE rows
  /\ lock' = NoOne
  /\ cache' = [cache EXCEPT ![h][arg[h].id] = arg[h].status]
  /\ acked' = acked \cup {<<arg[h].id, arg[h].status>>}
  /\ PutReturns(h, TRUE)
  /\ UNCHANGED <<file, wedged, inode, up, kept, query, crashes, retired, told,
                 misled>>

\* The index cannot be opened, or the row is over its size limit.
PutAppendFails(h) ==
  /\ pc[h] = "append"
  /\ lock' = NoOne
  /\ PutReturns(h, FALSE)
  /\ UNCHANGED <<disk, up, kept, cache, query, crashes, ghost>>

\* The write fails after part of the row is in the file.
PutAppendTorn(h) ==
  /\ TornWrites
  /\ pc[h] = "append"
  /\ wedged' = TRUE
  /\ lock' = NoOne
  /\ PutReturns(h, FALSE)
  /\ UNCHANGED <<file, rows, inode, up, kept, cache, query, crashes, ghost>>

-----------------------------------------------------------------------------
(* Cleanup. *)

CleanupBegin(h) ==
  /\ MuFree(h)
  /\ inode < MaxRewrites
  /\ pc' = [pc EXCEPT ![h] = "cleanlock"]
  /\ UNCHANGED <<disk, lock, up, arg, handle, kept, cache, query, runner, crashes,
                 ghost>>

CleanupLock(h) ==
  /\ pc[h] = "cleanlock"
  /\ inode < MaxRewrites
  /\ lock = NoOne
  /\ lock' = h
  /\ pc' = [pc EXCEPT ![h] = "clean"]
  /\ UNCHANGED <<disk, up, arg, handle, kept, cache, query, runner, crashes, ghost>>

CleanupLockTimeout(h) ==
  /\ pc[h] = "cleanlock"
  /\ lock # NoOne
  /\ pc' = [pc EXCEPT ![h] = After(h, FALSE)]
  /\ UNCHANGED <<disk, lock, up, arg, handle, kept, cache, query, runner, crashes,
                 ghost>>

\* The oldest rows beyond MaxRecords; equal times leave the choice to the sort.
IsOverflow(D, R) ==
  /\ D \subseteq R
  /\ Cardinality(D) = IF Cardinality(R) > MaxRecords
                        THEN Cardinality(R) - MaxRecords ELSE 0
  /\ \A d \in D, r \in R \ D : d.at <= r.at

\* What Cleanup does to files, cache and plan when it keeps the rows K of the
\* rows C it considers.
DropRows(h, C, K) ==
  LET gone == {r.id : r \in C \ K} IN
  /\ file' = [id \in Ids |-> IF id \in gone THEN "absent" ELSE file[id]]
  /\ cache' = [cache EXCEPT ![h] = [id \in Ids |-> IF id \in gone THEN "none" ELSE @[id]]]
  /\ kept' = [kept EXCEPT ![h] = K]
  /\ retired' = retired \cup {id \in gone : \A r \in K : r.id # id}
  /\ pc' = [pc EXCEPT ![h] = "rewrite"]
  /\ UNCHANGED <<rows, wedged, inode, lock, up, arg, handle, query, runner, crashes,
                 acked, told, misled>>

\* Faulty form: retention counts index rows, not commands.
CleanupDropUncollapsed(h) ==
  /\ pc[h] = "clean"
  /\ ~wedged
  /\ \E cutoff \in Times :
       LET fresh == {r \in rows : r.at >= cutoff} IN
       \E D \in SUBSET fresh : IsOverflow(D, fresh) /\ DropRows(h, rows, fresh \ D)

\* Collapse the snapshot to one row per command, expire what is older than the
\* cutoff and then what exceeds MaxRecords, and delete the record files.
CleanupDrop(h) ==
  /\ pc[h] = "clean"
  /\ ~wedged
  /\ \E cutoff \in Times :
       LET commands == LatestEntries(rows)
           fresh == {r \in commands : r.at >= cutoff} IN
       \E D \in SUBSET fresh : IsOverflow(D, fresh) /\ DropRows(h, commands, fresh \ D)

\* readEntries fails on a line that does not decode.
CleanupUnreadable(h) ==
  /\ pc[h] = "clean"
  /\ wedged
  /\ lock' = NoOne
  /\ pc' = [pc EXCEPT ![h] = After(h, FALSE)]
  /\ UNCHANGED <<disk, up, arg, handle, kept, cache, query, runner, crashes, ghost>>

\* A temporary file replaces the index by rename.
CleanupRewrite(h) ==
  /\ pc[h] = "rewrite"
  /\ rows' = kept[h]
  /\ inode' = inode + 1
  /\ lock' = NoOne
  /\ kept' = [kept EXCEPT ![h] = {}]
  /\ pc' = [pc EXCEPT ![h] = After(h, TRUE)]
  /\ up' = [up EXCEPT ![h] = TRUE]
  /\ UNCHANGED <<file, wedged, arg, handle, cache, query, runner, crashes, ghost>>

\* The temporary file cannot be written: the old index stays.
CleanupRewriteFails(h) ==
  /\ pc[h] = "rewrite"
  /\ lock' = NoOne
  /\ kept' = [kept EXCEPT ![h] = {}]
  /\ pc' = [pc EXCEPT ![h] = After(h, FALSE)]
  /\ UNCHANGED <<disk, up, arg, handle, cache, query, runner, crashes, ghost>>

-----------------------------------------------------------------------------
(* getRecord. *)

GetUnchanged == UNCHANGED <<disk, lock, writer, runner, crashes, acked, retired>>

\* A call for id returns found; one that denies an end somebody had been told of
\* before, of a command that retention has not taken out, is remembered.
Answer(h, id, ended, found) ==
  /\ query' = [query EXCEPT ![h] = NoQuery]
  /\ told' = IF found = "terminal" THEN told \cup {id} ELSE told
  /\ misled' = IF ended /\ id \notin retired
                 THEN misled \cup ({found} \cap {"running", "none"}) ELSE misled

\* At most MaxQueries calls of getRecord overlap.
MayQuery(h) ==
  /\ MuFree(h)
  /\ query[h].at = "idle"
  /\ Cardinality({g \in Helpers : query[g].at # "idle"}) < MaxQueries

\* The call goes on to the disk, holding what the cache said.
GoToDisk(h, id) ==
  /\ query' = [query EXCEPT ![h] =
       [at |-> "index", id |-> id, seen |-> cache[h][id], ended |-> id \in told]]
  /\ UNCHANGED <<told, misled>>

\* Faulty form: any cached record is believed.
GetBelievesCache(h, id) ==
  /\ MayQuery(h)
  /\ IF cache[h][id] # "none" THEN Answer(h, id, id \in told, cache[h][id])
                               ELSE GoToDisk(h, id)
  /\ UNCHANGED cache
  /\ GetUnchanged

\* A cached terminal record is the answer; anything else is checked on disk.
GetCached(h, id) ==
  /\ MayQuery(h)
  /\ IF cache[h][id] = "terminal" THEN Answer(h, id, id \in told, "terminal")
                                  ELSE GoToDisk(h, id)
  /\ UNCHANGED cache
  /\ GetUnchanged

\* durableRecord, first half: the best row of the index, if it decodes.
GetIndex(h) ==
  /\ query[h].at = "index"
  /\ LET q == query[h] IN
     CASE wedged -> Answer(h, q.id, q.ended, "error")
       [] ~wedged /\ Listed(rows, q.id) = "none" -> Answer(h, q.id, q.ended, q.seen)
       [] OTHER -> /\ query' = [query EXCEPT ![h].at = "file"]
                   /\ UNCHANGED <<told, misled>>
  /\ UNCHANGED cache
  /\ GetUnchanged

\* durableRecord, second half: the record file. One that cannot be read counts
\* as absent, and a record on disk that is not terminal yields to the cache.
GetFile(h) ==
  /\ query[h].at = "file"
  /\ LET q == query[h] IN
     CASE file[q.id] = "terminal" ->
            /\ query' = [query EXCEPT ![h].at = "store", ![h].seen = "terminal"]
            /\ UNCHANGED <<told, misled>>
       [] file[q.id] = "running" -> Answer(h, q.id, q.ended, "running")
       [] OTHER -> Answer(h, q.id, q.ended, q.seen)
  /\ UNCHANGED cache
  /\ GetUnchanged

\* A terminal record found on disk replaces the cached one.
GetStore(h) ==
  /\ query[h].at = "store"
  /\ MuFree(h)
  /\ cache' = [cache EXCEPT ![h][query[h].id] = "terminal"]
  /\ Answer(h, query[h].id, query[h].ended, "terminal")
  /\ GetUnchanged

-----------------------------------------------------------------------------
PutStep(h) ==
  \/ \E id \in Ids, status \in Status, at \in Times : PutBegin(h, id, status, at)
  \/ \E id \in Ids : PutRejected(h, id)
  \/ PutFile(h)
  \/ PutFileFails(h)
  \/ PutLock(h)
  \/ PutLockTimeout(h)
  \/ PutOpen(h)
  \/ PutAppend(h)
  \/ PutAppendFails(h)
  \/ PutAppendTorn(h)

CleanupStep(h) ==
  \/ CleanupBegin(h)
  \/ CleanupLock(h)
  \/ CleanupLockTimeout(h)
  \/ CleanupDrop(h)
  \/ CleanupUnreadable(h)
  \/ CleanupRewrite(h)
  \/ CleanupRewriteFails(h)

GetStep(h) ==
  \/ \E id \in Ids : GetCached(h, id)
  \/ GetIndex(h)
  \/ GetFile(h)
  \/ GetStore(h)

Next ==
  \E h \in Helpers : Boot(h) \/ Crash(h) \/ PutStep(h) \/ CleanupStep(h) \/ GetStep(h)

Spec == Init /\ [][Next]_vars

-----------------------------------------------------------------------------
(* Properties. *)

\* The inter-process lock works: a row whose Put returned nil is in the index
\* until a Cleanup retires its command or a terminal row replaces it. An append
\* that lands in an index a rename has discarded would break this.
AckedRowsStay ==
  \A id \in Ids \ retired, status \in Status :
    <<id, status>> \in acked =>
      \E r \in rows : r.id = id /\ r.status \in {status, "terminal"}

\* A retained command's result can be read back: Cleanup never deletes the file
\* a terminal row still points at.
AckedRecordsReadable ==
  \A id \in Ids \ retired : <<id, "terminal">> \in acked => file[id] = "terminal"

\* Once any helper has been told that a command ended, no getRecord that starts
\* later, on any helper, reports it as running or as unknown, unless retention
\* took it out: not through a stale cache, a rewritten file or a failed Put.
EndIsNotTakenBack == misled = {}

\* The index implements the command ledger: durable statuses only go forward,
\* through appends, cleanups, failures and crashes.
DurableStatus ==
  [id \in Ids |-> LET listed == Listed(rows, id) IN
                  IF listed # "none" THEN listed
                  ELSE IF id \in retired THEN "retired" ELSE "unborn"]
Ledger == INSTANCE CommandLedger WITH status <- DurableStatus
ImplementsLedger == Ledger!Spec

\* "whatever Put accepts must be readable back": when Put returns nil for a
\* terminal record, its record file is there.
PutIsReadable ==
  [][\A id \in Ids :
       <<id, "terminal">> \in acked' \ acked => file'[id] = "terminal"]_acked
-----------------------------------------------------------------------------
(* The inductive invariant behind the properties. *)

\* A helper is inside the index lock exactly when it holds it.
LockInv == \A h \in Helpers : pc[h] \in Holding <=> lock = h

Putting(h) == pc[h] \in {"file", "putlock", "open", "append"}
FileWritten(h) == pc[h] \in {"putlock", "open", "append"}

\* A Put writes a row of a command its helper runs, into the index that has the
\* name, and a Cleanup that has the lock may still rewrite it.
WriterInv ==
  \A h \in Helpers :
    /\ Putting(h) => arg[h] \in Row /\ runner[arg[h].id] = h
    /\ pc[h] = "append" => handle[h] = inode
    /\ pc[h] \in {"clean", "rewrite"} => inode < MaxRewrites

\* A command has at most a running and a terminal row, it has none before its
\* helper puts one, and after the terminal one it is put no more.
RowsInv ==
  /\ \A r, s \in rows : r.id = s.id /\ r.status = s.status => r = s
  /\ \A r \in rows : runner[r.id] # "unborn"
  /\ \A r \in rows : r.status = "terminal" => runner[r.id] = NoOne
  /\ \A h \in Helpers : Putting(h) /\ arg[h].status = "running" =>
       arg[h].id \notin retired /\ \A r \in rows : r.id # arg[h].id
  /\ \A id \in retired : runner[id] # "unborn"
  /\ \A id \in Ids : <<id, "terminal">> \in acked => runner[id] = NoOne

\* What a Cleanup is about to write is the current snapshot, one row for each
\* command, without the commands that are retired.
PlanInv ==
  \A h \in Helpers : pc[h] = "rewrite" =>
    /\ kept[h] \subseteq LatestEntries(rows)
    /\ \A r \in LatestEntries(rows) \ kept[h] : r.id \in retired

\* A record file that says terminal is never opened for writing again.
FilesInv ==
  /\ \A h \in Helpers : FileWritten(h) /\ arg[h].id \notin retired =>
       file[arg[h].id] = arg[h].status
  /\ \A id \in Ids : file[id] = "terminal" =>
       \/ runner[id] = NoOne
       \/ \E h \in Helpers : /\ runner[id] = h /\ FileWritten(h)
                             /\ arg[h].id = id /\ arg[h].status = "terminal"

HasRow(id) == \E r \in rows : r.id = id
Ended(id) == id \in retired \/ (file[id] = "terminal" /\ HasRow(id))

\* What the getRecord a helper is executing relies on.
ReaderKnows(h) ==
  /\ query[h].ended => query[h].id \in told
  /\ query[h].at # "idle" => query[h].id \in Ids
  /\ query[h].at \in {"index", "file"} => query[h].seen # "terminal"
  /\ query[h].at = "file" => query[h].id \in retired \/ HasRow(query[h].id)
  /\ query[h].at = "store" => Ended(query[h].id)

\* Whoever knows of a command's end, a client, a cache or a read under way, knows
\* what the disk says and will go on saying until retention.
ReadersInv ==
  /\ \A id \in told : Ended(id)
  /\ \A h \in Helpers, id \in Ids : cache[h][id] = "terminal" => Ended(id)
  /\ \A h \in Helpers : ReaderKnows(h)

IndInv ==
  /\ TypeOK /\ LockInv /\ WriterInv /\ RowsInv /\ PlanInv /\ FilesInv /\ ReadersInv
  /\ AckedRowsStay /\ AckedRecordsReadable /\ EndIsNotTakenBack
=============================================================================
