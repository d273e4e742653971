-------------------------- MODULE CommandHistoryProofs -------------------------
(***************************************************************************)
(* Proofs about CommandHistory for any number of helpers, commands, clock  *)
(* readings, rewrites and crashes. The invariant is proved part by part:   *)
(* the lock excludes (LockInv), so a Put appends to the index that has the *)
(* name (WriterInv) and a Cleanup rewrites the snapshot it read (PlanInv); *)
(* a command has one runner, so its rows come in order (RowsInv) and a     *)
(* terminal record file is left alone (FilesInv). What is on disk then     *)
(* stays until retention (DiskStep), which is what clients, caches and     *)
(* reads under way rely on (ReadersInv). The refinement of CommandLedger   *)
(* comes last.                                                             *)
(***************************************************************************)
EXTENDS CommandHistory, TLAPS

USE HistoryAssumption

-----------------------------------------------------------------------------
(* The rows of a command in an index with one row for each of its statuses. *)

OneRowEach(R) == \A r, s \in R : r.id = s.id /\ r.status = s.status => r = s

\* No row supersedes itself.
LEMMA NotItself == ASSUME NEW r \in Row PROVE ~Supersedes(r, r)
<1>1. r.at \in Nat
  BY DEF Row
<1>2. ~(r.at > r.at)
  BY <1>1
<1>3. QED
  BY <1>2 DEF Supersedes

\* latestEntries gives a command one row.
LEMMA LatestUnique ==
  ASSUME NEW R \in SUBSET Row, OneRowEach(R),
         NEW r \in LatestEntries(R), NEW s \in LatestEntries(R), r.id = s.id
  PROVE  r = s
BY DEF OneRowEach, LatestEntries, Supersedes, Row, Status

\* A command with a row has a latest one, which is terminal if the row is.
LEMMA LatestExists ==
  ASSUME NEW R \in SUBSET Row, OneRowEach(R), NEW r \in R
  PROVE  \E l \in LatestEntries(R) :
           l.id = r.id /\ (r.status = "terminal" => l.status = "terminal")
<1>1. CASE \E t \in R : t.id = r.id /\ t.status = "terminal"
  <2>1. PICK t \in R : t.id = r.id /\ t.status = "terminal"
    BY <1>1
  <2>2. ASSUME NEW u \in R, u.id = t.id PROVE ~Supersedes(u, t)
    <3>1. CASE u.status = t.status
      BY <3>1, <2>2, NotItself DEF OneRowEach
    <3>2. CASE u.status # t.status
      BY <3>2, <2>1 DEF Supersedes
    <3>3. QED
      BY <3>1, <3>2
  <2>3. t \in LatestEntries(R)
    BY <2>2 DEF LatestEntries
  <2>4. QED
    BY <2>1, <2>3
<1>2. CASE \A t \in R : t.id = r.id => t.status # "terminal"
  <2>1. \A t \in R : t.id = r.id => t = r
    BY <1>2 DEF OneRowEach, Row, Status
  <2>2. r \in LatestEntries(R)
    BY <2>1, NotItself DEF LatestEntries
  <2>3. QED
    BY <1>2, <2>2
<1>3. QED
  BY <1>1, <1>2

\* What List shows of a command: terminal if a row says so, else running if it
\* has a row.
LEMMA ListedIs ==
  ASSUME NEW R \in SUBSET Row, OneRowEach(R), NEW id
  PROVE  /\ (\E r \in R : r.id = id /\ r.status = "terminal") => Listed(R, id) = "terminal"
         /\ (\E r \in R : r.id = id) /\ (\A r \in R : r.id = id => r.status = "running")
              => Listed(R, id) = "running"
         /\ (\A r \in R : r.id # id) => Listed(R, id) = "none"
         /\ Listed(R, id) # "none" <=> \E r \in R : r.id = id
         /\ \A l \in LatestEntries(R) : l.id = id => Listed(R, id) = l.status
<1>1. LatestEntries(R) \subseteq R
  BY DEF LatestEntries
<1>2. ASSUME NEW l \in LatestEntries(R), l.id = id PROVE Listed(R, id) = l.status
  <2> DEFINE c == CHOOSE r \in LatestEntries(R) : r.id = id
  <2>1. c \in LatestEntries(R) /\ c.id = id
    BY <1>2
  <2>2. c = l
    BY <1>2, <2>1, LatestUnique
  <2>3. QED
    BY <1>2, <2>2 DEF Listed
<1>3. ASSUME NEW r \in R, r.id = id, r.status = "terminal" PROVE Listed(R, id) = "terminal"
  BY <1>2, <1>3, LatestExists
<1>4. ASSUME NEW r \in R, r.id = id, \A s \in R : s.id = id => s.status = "running"
      PROVE  Listed(R, id) = "running"
  BY <1>1, <1>2, <1>4, LatestExists
<1>5. (\A r \in R : r.id # id) => Listed(R, id) = "none"
  BY <1>1 DEF Listed
<1>6. ASSUME NEW r \in R, r.id = id PROVE Listed(R, id) # "none"
  <2>1. PICK l \in LatestEntries(R) : l.id = id
    BY <1>6, LatestExists
  <2>2. l.status \in Status
    BY <1>1 DEF Row
  <2>3. QED
    BY <1>2, <2>1, <2>2 DEF Status
<1>7. QED
  BY <1>2, <1>3, <1>4, <1>5, <1>6

-----------------------------------------------------------------------------
(* The invariant, part by part and action by action. *)

\* The row a Put is writing is a row of a command its helper runs.
LEMMA PutArg ==
  ASSUME WriterInv, NEW h \in Helpers, Putting(h)
  PROVE  /\ arg[h] \in Row /\ arg[h].id \in Ids /\ arg[h].status \in Status
         /\ runner[arg[h].id] = h
BY DEF WriterInv, Row

\* An answer of getRecord leaves the helper without a query and the history
\* variables in their types.
LEMMA AnswerTypes ==
  ASSUME TypeOK, NEW h \in Helpers, NEW id \in Ids, NEW ended, NEW found,
         Answer(h, id, ended, found)
  PROVE  query' \in [Helpers -> Query] /\ told' \subseteq Ids /\ misled' \subseteq {"none", "running"}
<1>1. NoQuery \in Query
  BY DEF NoQuery, Query
<1>2. QED
  BY <1>1 DEF TypeOK, Answer

\* Every step keeps each variable in its type; the index is rewritten under the
\* lock and at most MaxRewrites times.
LEMMA TypeStep == TypeOK /\ WriterInv /\ ReadersInv /\ [Next]_vars => TypeOK'
<1> SUFFICES ASSUME TypeOK, WriterInv, ReadersInv, [Next]_vars PROVE TypeOK'
  OBVIOUS
<1> USE DEF TypeOK, WriterSteps, Holding, Status
<1>1. ASSUME NEW h \in Helpers, Boot(h) PROVE TypeOK'
  BY <1>1 DEF Boot, disk, writer, ghost
<1>2. ASSUME NEW h \in Helpers, Crash(h) PROVE TypeOK'
  <2>1. NoQuery \in Query
    BY DEF NoQuery, Query
  <2>2. QED
    BY <1>2, <2>1 DEF Crash, disk, writer, ghost
<1>3. ASSUME NEW h \in Helpers, NEW id \in Ids, NEW status \in Status, NEW at \in Times,
             PutBegin(h, id, status, at)
      PROVE  TypeOK'
  <2>1. [id |-> id, status |-> status, at |-> at] \in Row
    BY DEF Row
  <2>2. QED
    BY <1>3, <2>1 DEF PutBegin, disk, writer, ghost
<1>4. ASSUME NEW h \in Helpers, NEW id \in Ids, PutRejected(h, id) PROVE TypeOK'
  BY <1>4 DEF PutRejected, disk, writer, ghost
<1>5. ASSUME NEW h \in Helpers, PutFile(h) PROVE TypeOK'
  <2>1. Putting(h)
    BY <1>5 DEF PutFile, Putting
  <2>2. arg[h] \in Row /\ arg[h].id \in Ids /\ arg[h].status \in Status
    BY <2>1, PutArg
  <2>3. QED
    BY <1>5, <2>2 DEF PutFile, Status, disk, writer, ghost
<1>6. ASSUME NEW h \in Helpers, PutFileFails(h) PROVE TypeOK'
  <2>1. Putting(h)
    BY <1>6 DEF PutFileFails, Putting
  <2>2. arg[h] \in Row /\ arg[h].id \in Ids /\ arg[h].status \in Status
    BY <2>1, PutArg
  <2>3. QED
    BY <1>6, <2>2 DEF PutFileFails, PutReturns, disk, writer, ghost
<1>7. ASSUME NEW h \in Helpers, PutLock(h) PROVE TypeOK'
  BY <1>7 DEF PutLock, disk, writer, ghost
<1>8. ASSUME NEW h \in Helpers, PutLockTimeout(h) PROVE TypeOK'
  <2>1. Putting(h)
    BY <1>8 DEF PutLockTimeout, Putting
  <2>2. arg[h] \in Row /\ arg[h].id \in Ids /\ arg[h].status \in Status
    BY <2>1, PutArg
  <2>3. QED
    BY <1>8, <2>2 DEF PutLockTimeout, PutReturns, disk, writer, ghost
<1>9. ASSUME NEW h \in Helpers, PutOpen(h) PROVE TypeOK'
  BY <1>9 DEF PutOpen, disk, writer, ghost
<1>10. ASSUME NEW h \in Helpers, PutAppend(h) PROVE TypeOK'
  <2>1. Putting(h)
    BY <1>10 DEF PutAppend, Putting
  <2>2. arg[h] \in Row /\ arg[h].id \in Ids /\ arg[h].status \in Status
    BY <2>1, PutArg
  <2>3. QED
    BY <1>10, <2>2 DEF PutAppend, PutReturns, disk, writer, ghost
<1>11. ASSUME NEW h \in Helpers, PutAppendFails(h) PROVE TypeOK'
  <2>1. Putting(h)
    BY <1>11 DEF PutAppendFails, Putting
  <2>2. arg[h] \in Row /\ arg[h].id \in Ids /\ arg[h].status \in Status
    BY <2>1, PutArg
  <2>3. QED
    BY <1>11, <2>2 DEF PutAppendFails, PutReturns, disk, writer, ghost
<1>12. ASSUME NEW h \in Helpers, PutAppendTorn(h) PROVE TypeOK'
  <2>1. Putting(h)
    BY <1>12 DEF PutAppendTorn, Putting
  <2>2. arg[h] \in Row /\ arg[h].id \in Ids /\ arg[h].status \in Status
    BY <2>1, PutArg
  <2>3. QED
    BY <1>12, <2>2 DEF PutAppendTorn, PutReturns, disk, writer, ghost
<1>13. ASSUME NEW h \in Helpers, CleanupBegin(h) PROVE TypeOK'
  BY <1>13 DEF CleanupBegin, disk, writer, ghost
<1>14. ASSUME NEW h \in Helpers, CleanupLock(h) PROVE TypeOK'
  BY <1>14 DEF CleanupLock, disk, writer, ghost
<1>15. ASSUME NEW h \in Helpers, CleanupLockTimeout(h) PROVE TypeOK'
  BY <1>15 DEF CleanupLockTimeout, After, disk, writer, ghost
<1>16. ASSUME NEW h \in Helpers, CleanupDrop(h) PROVE TypeOK'
  <2>1. PICK K \in SUBSET LatestEntries(rows) : DropRows(h, LatestEntries(rows), K)
    BY <1>16 DEF CleanupDrop
  <2>2. LatestEntries(rows) \subseteq Row
    BY DEF LatestEntries
  <2>3. {r.id : r \in LatestEntries(rows) \ K} \subseteq Ids
    BY <2>2 DEF Row
  <2>4. QED
    BY <2>1, <2>2, <2>3 DEF DropRows
<1>17. ASSUME NEW h \in Helpers, CleanupUnreadable(h) PROVE TypeOK'
  BY <1>17 DEF CleanupUnreadable, After, disk, writer, ghost
<1>18. ASSUME NEW h \in Helpers, CleanupRewrite(h) PROVE TypeOK'
  <2>1. inode + 1 \in 0..MaxRewrites
    BY <1>18 DEF CleanupRewrite, WriterInv
  <2>2. QED
    BY <1>18, <2>1 DEF CleanupRewrite, After, disk, writer, ghost
<1>19. ASSUME NEW h \in Helpers, CleanupRewriteFails(h) PROVE TypeOK'
  BY <1>19 DEF CleanupRewriteFails, After, disk, writer, ghost
<1>20. ASSUME NEW h \in Helpers, NEW id \in Ids, GetCached(h, id) PROVE TypeOK'
  <2>1. CASE Answer(h, id, id \in told, "terminal")
    BY <1>20, <2>1, AnswerTypes DEF GetCached, GetUnchanged, disk, writer
  <2>2. CASE GoToDisk(h, id)
    <3>1. [at |-> "index", id |-> id, seen |-> cache[h][id], ended |-> id \in told] \in Query
      BY DEF Query
    <3>2. QED
      BY <1>20, <2>2, <3>1 DEF GetCached, GoToDisk, GetUnchanged, disk, writer
  <2>3. QED
    BY <1>20, <2>1, <2>2 DEF GetCached
<1>21. ASSUME NEW h \in Helpers, GetIndex(h) PROVE TypeOK'
  <2> DEFINE q == query[h]
  <2>1. q \in Query /\ q.id \in Ids
    BY <1>21 DEF GetIndex, ReadersInv, ReaderKnows
  <2>2. CASE \E found : Answer(h, q.id, q.ended, found)
    BY <1>21, <2>1, <2>2, AnswerTypes DEF GetIndex, GetUnchanged, disk, writer
  <2>3. CASE query' = [query EXCEPT ![h].at = "file"] /\ UNCHANGED <<told, misled>>
    <3>1. [q EXCEPT !.at = "file"] \in Query
      BY <2>1 DEF Query
    <3>2. QED
      BY <1>21, <2>3, <3>1 DEF GetIndex, GetUnchanged, disk, writer
  <2>4. QED
    BY <1>21, <2>2, <2>3 DEF GetIndex
<1>22. ASSUME NEW h \in Helpers, GetFile(h) PROVE TypeOK'
  <2> DEFINE q == query[h]
  <2>1. q \in Query /\ q.id \in Ids
    BY <1>22 DEF GetFile, ReadersInv, ReaderKnows
  <2>2. CASE \E found : Answer(h, q.id, q.ended, found)
    BY <1>22, <2>1, <2>2, AnswerTypes DEF GetFile, GetUnchanged, disk, writer
  <2>3. CASE /\ query' = [query EXCEPT ![h].at = "store", ![h].seen = "terminal"]
             /\ UNCHANGED <<told, misled>>
    <3>1. [q EXCEPT !.at = "store", !.seen = "terminal"] \in Query
      BY <2>1 DEF Query
    <3>2. QED
      BY <1>22, <2>3, <3>1 DEF GetFile, GetUnchanged, disk, writer
  <2>4. QED
    BY <1>22, <2>2, <2>3 DEF GetFile
<1>23. ASSUME NEW h \in Helpers, GetStore(h) PROVE TypeOK'
  <2>1. query[h].id \in Ids
    BY <1>23 DEF GetStore, ReadersInv, ReaderKnows
  <2>2. QED
    BY <1>23, <2>1, AnswerTypes DEF GetStore, GetUnchanged, disk, writer
<1>24. CASE UNCHANGED vars
  BY <1>24 DEF vars, disk, writer, ghost
<1> HIDE DEF TypeOK, WriterSteps, Holding, Status
<1>25. QED
  BY <1>1, <1>2, <1>3, <1>4, <1>5, <1>6, <1>7, <1>8, <1>9, <1>10, <1>11, <1>12, <1>13,
     <1>14, <1>15, <1>16, <1>17, <1>18, <1>19, <1>20, <1>21, <1>22, <1>23, <1>24 DEF
     Next, PutStep, CleanupStep, GetStep

\* The index lock is taken, and given back, by the helper that is inside it.
LEMMA LockStep == TypeOK /\ LockInv /\ [Next]_vars => LockInv'
<1> SUFFICES ASSUME TypeOK, LockInv, [Next]_vars PROVE LockInv'
  OBVIOUS
<1> USE DEF TypeOK, LockInv, MuFree, Holding
<1>1. ASSUME NEW h \in Helpers, Boot(h) PROVE LockInv'
  BY <1>1 DEF Boot, disk, writer, ghost
<1>2. ASSUME NEW h \in Helpers, Crash(h) PROVE LockInv'
  BY <1>2 DEF Crash, disk, writer, ghost
<1>3. ASSUME NEW h \in Helpers, NEW id \in Ids, NEW status \in Status, NEW at \in Times,
             PutBegin(h, id, status, at)
      PROVE  LockInv'
  BY <1>3 DEF PutBegin, disk, writer, ghost
<1>4. ASSUME NEW h \in Helpers, NEW id \in Ids, PutRejected(h, id) PROVE LockInv'
  BY <1>4 DEF PutRejected, disk, writer, ghost
<1>5. ASSUME NEW h \in Helpers, PutFile(h) PROVE LockInv'
  BY <1>5 DEF PutFile, disk, writer, ghost
<1>6. ASSUME NEW h \in Helpers, PutFileFails(h) PROVE LockInv'
  BY <1>6 DEF PutFileFails, PutReturns, disk, writer, ghost
<1>7. ASSUME NEW h \in Helpers, PutLock(h) PROVE LockInv'
  BY <1>7 DEF PutLock, disk, writer, ghost
<1>8. ASSUME NEW h \in Helpers, PutLockTimeout(h) PROVE LockInv'
  BY <1>8 DEF PutLockTimeout, PutReturns, disk, writer, ghost
<1>9. ASSUME NEW h \in Helpers, PutOpen(h) PROVE LockInv'
  BY <1>9 DEF PutOpen, disk, writer, ghost
<1>10. ASSUME NEW h \in Helpers, PutAppend(h) PROVE LockInv'
  BY <1>10 DEF PutAppend, PutReturns, disk, writer, ghost
<1>11. ASSUME NEW h \in Helpers, PutAppendFails(h) PROVE LockInv'
  BY <1>11 DEF PutAppendFails, PutReturns, disk, writer, ghost
<1>12. ASSUME NEW h \in Helpers, PutAppendTorn(h) PROVE LockInv'
  BY <1>12 DEF PutAppendTorn, PutReturns, disk, writer, ghost
<1>13. ASSUME NEW h \in Helpers, CleanupBegin(h) PROVE LockInv'
  BY <1>13 DEF CleanupBegin, disk, writer, ghost
<1>14. ASSUME NEW h \in Helpers, CleanupLock(h) PROVE LockInv'
  BY <1>14 DEF CleanupLock, disk, writer, ghost
<1>15. ASSUME NEW h \in Helpers, CleanupLockTimeout(h) PROVE LockInv'
  BY <1>15 DEF CleanupLockTimeout, After, disk, writer, ghost
<1>16. ASSUME NEW h \in Helpers, CleanupDrop(h) PROVE LockInv'
  BY <1>16 DEF CleanupDrop, DropRows, disk, writer, ghost
<1>17. ASSUME NEW h \in Helpers, CleanupUnreadable(h) PROVE LockInv'
  BY <1>17 DEF CleanupUnreadable, After, disk, writer, ghost
<1>18. ASSUME NEW h \in Helpers, CleanupRewrite(h) PROVE LockInv'
  BY <1>18 DEF CleanupRewrite, After, disk, writer, ghost
<1>19. ASSUME NEW h \in Helpers, CleanupRewriteFails(h) PROVE LockInv'
  BY <1>19 DEF CleanupRewriteFails, After, disk, writer, ghost
<1>20. ASSUME NEW h \in Helpers, NEW id \in Ids, GetCached(h, id) PROVE LockInv'
  BY <1>20 DEF GetCached, MayQuery, Answer, GoToDisk, GetUnchanged, disk, writer, ghost
<1>21. ASSUME NEW h \in Helpers, GetIndex(h) PROVE LockInv'
  BY <1>21 DEF GetIndex, Answer, GetUnchanged, disk, writer, ghost
<1>22. ASSUME NEW h \in Helpers, GetFile(h) PROVE LockInv'
  BY <1>22 DEF GetFile, Answer, GetUnchanged, disk, writer, ghost
<1>23. ASSUME NEW h \in Helpers, GetStore(h) PROVE LockInv'
  BY <1>23 DEF GetStore, Answer, GetUnchanged, disk, writer, ghost
<1>24. CASE UNCHANGED vars
  BY <1>24 DEF vars, disk, writer, ghost
<1> HIDE DEF TypeOK, LockInv, MuFree, Holding
<1>25. QED
  BY <1>1, <1>2, <1>3, <1>4, <1>5, <1>6, <1>7, <1>8, <1>9, <1>10, <1>11, <1>12, <1>13,
     <1>14, <1>15, <1>16, <1>17, <1>18, <1>19, <1>20, <1>21, <1>22, <1>23, <1>24 DEF
     Next, PutStep, CleanupStep, GetStep

\* Each helper's Put and Cleanup stay what WriterInv says of them.
LEMMA WriterStep == TypeOK /\ LockInv /\ WriterInv /\ [Next]_vars => WriterInv'
<1> SUFFICES ASSUME TypeOK, LockInv, WriterInv, [Next]_vars PROVE WriterInv'
  OBVIOUS
<1> USE DEF TypeOK, LockInv, WriterInv, Putting, Holding, MuFree
<1>1. ASSUME NEW h \in Helpers, Boot(h) PROVE WriterInv'
  BY <1>1 DEF Boot, disk, writer, ghost
<1>2. ASSUME NEW h \in Helpers, Crash(h) PROVE WriterInv'
  <2>1. ASSUME NEW g \in Helpers, g # h, Putting(g) PROVE arg[g] \in Row /\ runner'[arg[g].id] = g
    BY <1>2, <2>1, PutArg DEF Crash
  <2>2. QED
    BY <1>2, <2>1 DEF Crash
<1>3. ASSUME NEW h \in Helpers, NEW id \in Ids, NEW status \in Status, NEW at \in Times,
             PutBegin(h, id, status, at)
      PROVE  WriterInv'
  <2>1. [id |-> id, status |-> status, at |-> at] \in Row
    BY DEF Row
  <2>2. QED
    BY <1>3, <2>1 DEF PutBegin, disk, writer, ghost
<1>4. ASSUME NEW h \in Helpers, NEW id \in Ids, PutRejected(h, id) PROVE WriterInv'
  BY <1>4 DEF PutRejected, disk, writer, ghost
<1>5. ASSUME NEW h \in Helpers, PutFile(h) PROVE WriterInv'
  BY <1>5 DEF PutFile, disk, writer, ghost
<1>6. ASSUME NEW h \in Helpers, PutFileFails(h) PROVE WriterInv'
  BY <1>6 DEF PutFileFails, PutReturns, disk, writer, ghost
<1>7. ASSUME NEW h \in Helpers, PutLock(h) PROVE WriterInv'
  BY <1>7 DEF PutLock, disk, writer, ghost
<1>8. ASSUME NEW h \in Helpers, PutLockTimeout(h) PROVE WriterInv'
  BY <1>8 DEF PutLockTimeout, PutReturns, disk, writer, ghost
<1>9. ASSUME NEW h \in Helpers, PutOpen(h) PROVE WriterInv'
  BY <1>9 DEF PutOpen, disk, writer, ghost
<1>10. ASSUME NEW h \in Helpers, PutAppend(h) PROVE WriterInv'
  BY <1>10 DEF PutAppend, PutReturns, disk, writer, ghost
<1>11. ASSUME NEW h \in Helpers, PutAppendFails(h) PROVE WriterInv'
  BY <1>11 DEF PutAppendFails, PutReturns, disk, writer, ghost
<1>12. ASSUME NEW h \in Helpers, PutAppendTorn(h) PROVE WriterInv'
  BY <1>12 DEF PutAppendTorn, PutReturns, disk, writer, ghost
<1>13. ASSUME NEW h \in Helpers, CleanupBegin(h) PROVE WriterInv'
  BY <1>13 DEF CleanupBegin, disk, writer, ghost
<1>14. ASSUME NEW h \in Helpers, CleanupLock(h) PROVE WriterInv'
  BY <1>14 DEF CleanupLock, disk, writer, ghost
<1>15. ASSUME NEW h \in Helpers, CleanupLockTimeout(h) PROVE WriterInv'
  BY <1>15 DEF CleanupLockTimeout, After, disk, writer, ghost
<1>16. ASSUME NEW h \in Helpers, CleanupDrop(h) PROVE WriterInv'
  BY <1>16 DEF CleanupDrop, DropRows, disk, writer, ghost
<1>17. ASSUME NEW h \in Helpers, CleanupUnreadable(h) PROVE WriterInv'
  BY <1>17 DEF CleanupUnreadable, After, disk, writer, ghost
<1>18. ASSUME NEW h \in Helpers, CleanupRewrite(h) PROVE WriterInv'
  BY <1>18 DEF CleanupRewrite, After, disk, writer, ghost
<1>19. ASSUME NEW h \in Helpers, CleanupRewriteFails(h) PROVE WriterInv'
  BY <1>19 DEF CleanupRewriteFails, After, disk, writer, ghost
<1>20. ASSUME NEW h \in Helpers, NEW id \in Ids, GetCached(h, id) PROVE WriterInv'
  BY <1>20 DEF GetCached, MayQuery, Answer, GoToDisk, GetUnchanged, disk, writer, ghost
<1>21. ASSUME NEW h \in Helpers, GetIndex(h) PROVE WriterInv'
  BY <1>21 DEF GetIndex, Answer, GetUnchanged, disk, writer, ghost
<1>22. ASSUME NEW h \in Helpers, GetFile(h) PROVE WriterInv'
  BY <1>22 DEF GetFile, Answer, GetUnchanged, disk, writer, ghost
<1>23. ASSUME NEW h \in Helpers, GetStore(h) PROVE WriterInv'
  BY <1>23 DEF GetStore, Answer, GetUnchanged, disk, writer, ghost
<1>24. CASE UNCHANGED vars
  BY <1>24 DEF vars, disk, writer, ghost
<1> HIDE DEF TypeOK, LockInv, WriterInv, Putting, Holding, MuFree
<1>25. QED
  BY <1>1, <1>2, <1>3, <1>4, <1>5, <1>6, <1>7, <1>8, <1>9, <1>10, <1>11, <1>12, <1>13,
     <1>14, <1>15, <1>16, <1>17, <1>18, <1>19, <1>20, <1>21, <1>22, <1>23, <1>24 DEF
     Next, PutStep, CleanupStep, GetStep

\* What a Cleanup of h drops that keeps K: of every command either its one latest
\* row is kept, or the command, in G, is retired and its file and cache entry go.
Drops(h, K, G) ==
  /\ G = {r.id : r \in LatestEntries(rows) \ K}
  /\ \A id \in G : \E r \in rows : r.id = id
  /\ file' = [id \in Ids |-> IF id \in G THEN "absent" ELSE file[id]]
  /\ cache' = [cache EXCEPT ![h] = [id \in Ids |-> IF id \in G THEN "none" ELSE @[id]]]
  /\ kept' = [kept EXCEPT ![h] = K]
  /\ retired' = retired \cup G
  /\ pc[h] = "clean"
  /\ pc' = [pc EXCEPT ![h] = "rewrite"]
  /\ UNCHANGED <<rows, wedged, inode, lock, up, arg, handle, query, runner, crashes,
                 acked, told, misled>>

\* CleanupDrop drops in this sense: no command is retired while a row of it is kept.
LEMMA DropFacts ==
  ASSUME TypeOK, RowsInv, NEW h \in Helpers, CleanupDrop(h)
  PROVE  \E K \in SUBSET LatestEntries(rows), G \in SUBSET Ids : Drops(h, K, G)
<1>1. PICK K \in SUBSET LatestEntries(rows) : DropRows(h, LatestEntries(rows), K)
  BY DEF CleanupDrop
<1> DEFINE G == {r.id : r \in LatestEntries(rows) \ K}
<1>2. LatestEntries(rows) \subseteq rows /\ rows \in SUBSET Row /\ OneRowEach(rows)
  BY DEF LatestEntries, TypeOK, RowsInv, OneRowEach
<1>3. G \in SUBSET Ids /\ \A id \in G : \E r \in rows : r.id = id
  BY <1>2 DEF Row
<1>4. \A id \in G : \A k \in K : k.id # id
  BY <1>2, LatestUnique
<1>5. retired' = retired \cup G
  BY <1>1, <1>4 DEF DropRows
<1>6. QED
  BY <1>1, <1>3, <1>5 DEF DropRows, CleanupDrop, Drops

\* A command gets one row for each status, in the order running, terminal.
LEMMA RowsStep == TypeOK /\ LockInv /\ WriterInv /\ RowsInv /\ PlanInv /\ [Next]_vars => RowsInv'
<1> SUFFICES ASSUME TypeOK, LockInv, WriterInv, RowsInv, PlanInv, [Next]_vars PROVE RowsInv'
  OBVIOUS
<1> USE DEF TypeOK, RowsInv, Putting, MuFree, Status
<1>1. ASSUME NEW h \in Helpers, Boot(h) PROVE RowsInv'
  BY <1>1 DEF Boot, disk, writer, ghost
<1>2. ASSUME NEW h \in Helpers, Crash(h) PROVE RowsInv'
  <2>1. \A r \in rows : r.id \in Ids
    BY DEF Row
  <2>2. \A id \in Ids : runner'[id] = "unborn" => runner[id] = "unborn"
    BY <1>2 DEF Crash
  <2>3. \A id \in Ids : runner[id] = NoOne => runner'[id] = NoOne
    BY <1>2 DEF Crash
  <2>4. \A g \in Helpers : Putting(g)' => Putting(g) /\ arg'[g] = arg[g]
    BY <1>2 DEF Crash
  <2>5. QED
    BY <1>2, <2>1, <2>2, <2>3, <2>4 DEF Crash, disk, writer, ghost
<1>3. ASSUME NEW h \in Helpers, NEW id \in Ids, NEW status \in Status, NEW at \in Times,
             PutBegin(h, id, status, at)
      PROVE  RowsInv'
  BY <1>3 DEF PutBegin, disk, writer, ghost
<1>4. ASSUME NEW h \in Helpers, NEW id \in Ids, PutRejected(h, id) PROVE RowsInv'
  BY <1>4 DEF PutRejected, disk, writer, ghost
<1>5. ASSUME NEW h \in Helpers, PutFile(h) PROVE RowsInv'
  BY <1>5 DEF PutFile, disk, writer, ghost
<1>6. ASSUME NEW h \in Helpers, PutFileFails(h) PROVE RowsInv'
  <2>1. Putting(h)
    BY <1>6 DEF PutFileFails, Putting
  <2>2. arg[h] \in Row /\ arg[h].id \in Ids /\ arg[h].status \in Status /\ runner[arg[h].id] = h
    BY <2>1, PutArg
  <2>3. \A g \in Helpers : g # h /\ Putting(g) => arg[g].id # arg[h].id /\ arg[g].id \in Ids
    BY <2>2, PutArg
  <2>4. QED
    BY <1>6, <2>1, <2>2, <2>3 DEF PutFileFails, PutReturns, disk, writer, ghost
<1>7. ASSUME NEW h \in Helpers, PutLock(h) PROVE RowsInv'
  BY <1>7 DEF PutLock, disk, writer, ghost
<1>8. ASSUME NEW h \in Helpers, PutLockTimeout(h) PROVE RowsInv'
  <2>1. Putting(h)
    BY <1>8 DEF PutLockTimeout, Putting
  <2>2. arg[h] \in Row /\ arg[h].id \in Ids /\ arg[h].status \in Status /\ runner[arg[h].id] = h
    BY <2>1, PutArg
  <2>3. \A g \in Helpers : g # h /\ Putting(g) => arg[g].id # arg[h].id /\ arg[g].id \in Ids
    BY <2>2, PutArg
  <2>4. QED
    BY <1>8, <2>1, <2>2, <2>3 DEF PutLockTimeout, PutReturns, disk, writer, ghost
<1>9. ASSUME NEW h \in Helpers, PutOpen(h) PROVE RowsInv'
  BY <1>9 DEF PutOpen, disk, writer, ghost
<1>10. ASSUME NEW h \in Helpers, PutAppend(h) PROVE RowsInv'
  <2>1. Putting(h)
    BY <1>10 DEF PutAppend, Putting
  <2>2. arg[h] \in Row /\ arg[h].id \in Ids /\ arg[h].status \in Status /\ runner[arg[h].id] = h
    BY <2>1, PutArg
  <2>3. \A g \in Helpers : g # h /\ Putting(g) => arg[g].id # arg[h].id /\ arg[g].id \in Ids
    BY <2>2, PutArg
  <2>4. QED
    BY <1>10, <2>1, <2>2, <2>3 DEF PutAppend, PutReturns, disk, writer, ghost
<1>11. ASSUME NEW h \in Helpers, PutAppendFails(h) PROVE RowsInv'
  <2>1. Putting(h)
    BY <1>11 DEF PutAppendFails, Putting
  <2>2. arg[h] \in Row /\ arg[h].id \in Ids /\ arg[h].status \in Status /\ runner[arg[h].id] = h
    BY <2>1, PutArg
  <2>3. \A g \in Helpers : g # h /\ Putting(g) => arg[g].id # arg[h].id /\ arg[g].id \in Ids
    BY <2>2, PutArg
  <2>4. QED
    BY <1>11, <2>1, <2>2, <2>3 DEF PutAppendFails, PutReturns, disk, writer, ghost
<1>12. ASSUME NEW h \in Helpers, PutAppendTorn(h) PROVE RowsInv'
  <2>1. Putting(h)
    BY <1>12 DEF PutAppendTorn, Putting
  <2>2. arg[h] \in Row /\ arg[h].id \in Ids /\ arg[h].status \in Status /\ runner[arg[h].id] = h
    BY <2>1, PutArg
  <2>3. \A g \in Helpers : g # h /\ Putting(g) => arg[g].id # arg[h].id /\ arg[g].id \in Ids
    BY <2>2, PutArg
  <2>4. QED
    BY <1>12, <2>1, <2>2, <2>3 DEF PutAppendTorn, PutReturns, disk, writer, ghost
<1>13. ASSUME NEW h \in Helpers, CleanupBegin(h) PROVE RowsInv'
  BY <1>13 DEF CleanupBegin, disk, writer, ghost
<1>14. ASSUME NEW h \in Helpers, CleanupLock(h) PROVE RowsInv'
  BY <1>14 DEF CleanupLock, disk, writer, ghost
<1>15. ASSUME NEW h \in Helpers, CleanupLockTimeout(h) PROVE RowsInv'
  BY <1>15 DEF CleanupLockTimeout, After, disk, writer, ghost
<1>16. ASSUME NEW h \in Helpers, CleanupDrop(h) PROVE RowsInv'
  <2>1. \A id \in retired' : id \in retired \/ \E r \in rows : r.id = id
    BY <1>16, DropFacts DEF Drops
  <2>2. /\ pc' = [pc EXCEPT ![h] = "rewrite"]
        /\ UNCHANGED <<rows, arg, runner, acked>>
    BY <1>16, DropFacts DEF Drops
  <2>3. \A g \in Helpers : Putting(g)' => Putting(g)
    BY <2>2
  <2>4. ASSUME NEW g \in Helpers, Putting(g)', arg'[g].status = "running"
        PROVE  arg'[g].id \notin retired' /\ \A r \in rows' : r.id # arg'[g].id
    <3>1. arg'[g] = arg[g] /\ rows' = rows
      BY <2>2
    <3>2. arg[g].id \notin retired /\ \A r \in rows : r.id # arg[g].id
      BY <2>3, <2>4, <3>1
    <3>3. QED
      BY <2>1, <3>1, <3>2
  <2>5. \A id \in retired' : runner'[id] # "unborn"
    BY <2>1, <2>2
  <2>6. QED
    BY <2>2, <2>4, <2>5
<1>17. ASSUME NEW h \in Helpers, CleanupUnreadable(h) PROVE RowsInv'
  BY <1>17 DEF CleanupUnreadable, After, disk, writer, ghost
<1>18. ASSUME NEW h \in Helpers, CleanupRewrite(h) PROVE RowsInv'
  <2>1. rows' \subseteq rows
    BY <1>18 DEF CleanupRewrite, PlanInv, LatestEntries
  <2>2. QED
    BY <1>18, <2>1 DEF CleanupRewrite, After, disk, writer, ghost
<1>19. ASSUME NEW h \in Helpers, CleanupRewriteFails(h) PROVE RowsInv'
  BY <1>19 DEF CleanupRewriteFails, After, disk, writer, ghost
<1>20. ASSUME NEW h \in Helpers, NEW id \in Ids, GetCached(h, id) PROVE RowsInv'
  BY <1>20 DEF GetCached, MayQuery, Answer, GoToDisk, GetUnchanged, disk, writer, ghost
<1>21. ASSUME NEW h \in Helpers, GetIndex(h) PROVE RowsInv'
  BY <1>21 DEF GetIndex, Answer, GetUnchanged, disk, writer, ghost
<1>22. ASSUME NEW h \in Helpers, GetFile(h) PROVE RowsInv'
  BY <1>22 DEF GetFile, Answer, GetUnchanged, disk, writer, ghost
<1>23. ASSUME NEW h \in Helpers, GetStore(h) PROVE RowsInv'
  BY <1>23 DEF GetStore, Answer, GetUnchanged, disk, writer, ghost
<1>24. CASE UNCHANGED vars
  BY <1>24 DEF vars, disk, writer, ghost
<1> HIDE DEF TypeOK, RowsInv, Putting, MuFree, Status
<1>25. QED
  BY <1>1, <1>2, <1>3, <1>4, <1>5, <1>6, <1>7, <1>8, <1>9, <1>10, <1>11, <1>12, <1>13,
     <1>14, <1>15, <1>16, <1>17, <1>18, <1>19, <1>20, <1>21, <1>22, <1>23, <1>24 DEF
     Next, PutStep, CleanupStep, GetStep

\* A plan stands while index and retired commands do.
LEMMA PlanKept ==
  ASSUME PlanInv, rows' = rows, retired' = retired,
         \A g \in Helpers : pc'[g] = "rewrite" => pc[g] = "rewrite" /\ kept'[g] = kept[g]
  PROVE  PlanInv'
BY DEF PlanInv, LatestEntries

\* Nobody changes the index between a Cleanup's snapshot and its rewrite.
LEMMA PlanStep == TypeOK /\ LockInv /\ RowsInv /\ PlanInv /\ [Next]_vars => PlanInv'
<1> SUFFICES ASSUME TypeOK, LockInv, RowsInv, PlanInv, [Next]_vars PROVE PlanInv'
  OBVIOUS
<1> USE DEF TypeOK, LockInv, Holding, MuFree
<1>1. ASSUME NEW h \in Helpers, Boot(h) PROVE PlanInv'
  BY <1>1, PlanKept DEF Boot, disk, writer, ghost
<1>2. ASSUME NEW h \in Helpers, Crash(h) PROVE PlanInv'
  BY <1>2, PlanKept DEF Crash, disk, writer, ghost
<1>3. ASSUME NEW h \in Helpers, NEW id \in Ids, NEW status \in Status, NEW at \in Times,
             PutBegin(h, id, status, at)
      PROVE  PlanInv'
  BY <1>3, PlanKept DEF PutBegin, disk, writer, ghost
<1>4. ASSUME NEW h \in Helpers, NEW id \in Ids, PutRejected(h, id) PROVE PlanInv'
  BY <1>4, PlanKept DEF PutRejected, disk, writer, ghost
<1>5. ASSUME NEW h \in Helpers, PutFile(h) PROVE PlanInv'
  BY <1>5, PlanKept DEF PutFile, disk, writer, ghost
<1>6. ASSUME NEW h \in Helpers, PutFileFails(h) PROVE PlanInv'
  BY <1>6, PlanKept DEF PutFileFails, PutReturns, disk, writer, ghost
<1>7. ASSUME NEW h \in Helpers, PutLock(h) PROVE PlanInv'
  BY <1>7, PlanKept DEF PutLock, disk, writer, ghost
<1>8. ASSUME NEW h \in Helpers, PutLockTimeout(h) PROVE PlanInv'
  BY <1>8, PlanKept DEF PutLockTimeout, PutReturns, disk, writer, ghost
<1>9. ASSUME NEW h \in Helpers, PutOpen(h) PROVE PlanInv'
  BY <1>9, PlanKept DEF PutOpen, disk, writer, ghost
<1>10. ASSUME NEW h \in Helpers, PutAppend(h) PROVE PlanInv'
  <2>1. \A g \in Helpers : pc'[g] # "rewrite"
    BY <1>10 DEF PutAppend, PutReturns
  <2>2. QED
    BY <2>1 DEF PlanInv
<1>11. ASSUME NEW h \in Helpers, PutAppendFails(h) PROVE PlanInv'
  BY <1>11, PlanKept DEF PutAppendFails, PutReturns, disk, writer, ghost
<1>12. ASSUME NEW h \in Helpers, PutAppendTorn(h) PROVE PlanInv'
  BY <1>12, PlanKept DEF PutAppendTorn, PutReturns, disk, writer, ghost
<1>13. ASSUME NEW h \in Helpers, CleanupBegin(h) PROVE PlanInv'
  BY <1>13, PlanKept DEF CleanupBegin, disk, writer, ghost
<1>14. ASSUME NEW h \in Helpers, CleanupLock(h) PROVE PlanInv'
  BY <1>14, PlanKept DEF CleanupLock, disk, writer, ghost
<1>15. ASSUME NEW h \in Helpers, CleanupLockTimeout(h) PROVE PlanInv'
  BY <1>15, PlanKept DEF CleanupLockTimeout, After, disk, writer, ghost
<1>16. ASSUME NEW h \in Helpers, CleanupDrop(h) PROVE PlanInv'
  <2>1. PICK K \in SUBSET LatestEntries(rows), G \in SUBSET Ids : Drops(h, K, G)
    BY <1>16, DropFacts
  <2>2. \A g \in Helpers : pc'[g] = "rewrite" => g = h
    BY <2>1 DEF Drops
  <2>3. kept'[h] = K /\ \A r \in LatestEntries(rows) \ K : r.id \in retired'
    BY <2>1 DEF Drops
  <2>4. LatestEntries(rows)' = LatestEntries(rows)
    BY <2>1 DEF LatestEntries, Drops
  <2>5. QED
    BY <2>2, <2>3, <2>4 DEF PlanInv
<1>17. ASSUME NEW h \in Helpers, CleanupUnreadable(h) PROVE PlanInv'
  BY <1>17, PlanKept DEF CleanupUnreadable, After, disk, writer, ghost
<1>18. ASSUME NEW h \in Helpers, CleanupRewrite(h) PROVE PlanInv'
  <2>1. \A g \in Helpers : pc'[g] # "rewrite"
    BY <1>18 DEF CleanupRewrite, After
  <2>2. QED
    BY <2>1 DEF PlanInv
<1>19. ASSUME NEW h \in Helpers, CleanupRewriteFails(h) PROVE PlanInv'
  BY <1>19, PlanKept DEF CleanupRewriteFails, After, disk, writer, ghost
<1>20. ASSUME NEW h \in Helpers, NEW id \in Ids, GetCached(h, id) PROVE PlanInv'
  BY <1>20, PlanKept DEF GetCached, MayQuery, Answer, GoToDisk, GetUnchanged, disk, writer, ghost
<1>21. ASSUME NEW h \in Helpers, GetIndex(h) PROVE PlanInv'
  BY <1>21, PlanKept DEF GetIndex, Answer, GetUnchanged, disk, writer, ghost
<1>22. ASSUME NEW h \in Helpers, GetFile(h) PROVE PlanInv'
  BY <1>22, PlanKept DEF GetFile, Answer, GetUnchanged, disk, writer, ghost
<1>23. ASSUME NEW h \in Helpers, GetStore(h) PROVE PlanInv'
  BY <1>23, PlanKept DEF GetStore, Answer, GetUnchanged, disk, writer, ghost
<1>24. CASE UNCHANGED vars
  BY <1>24, PlanKept DEF vars, disk, writer, ghost
<1> HIDE DEF TypeOK, LockInv, Holding, MuFree
<1>25. QED
  BY <1>1, <1>2, <1>3, <1>4, <1>5, <1>6, <1>7, <1>8, <1>9, <1>10, <1>11, <1>12, <1>13,
     <1>14, <1>15, <1>16, <1>17, <1>18, <1>19, <1>20, <1>21, <1>22, <1>23, <1>24 DEF
     Next, PutStep, CleanupStep, GetStep

\* A record file is written by the one Put of its command and then left alone.
LEMMA FilesStep == TypeOK /\ WriterInv /\ RowsInv /\ FilesInv /\ [Next]_vars => FilesInv'
<1> SUFFICES ASSUME TypeOK, WriterInv, RowsInv, FilesInv, [Next]_vars PROVE FilesInv'
  OBVIOUS
<1> USE DEF TypeOK, FilesInv, FileWritten, MuFree, Status
<1>1. ASSUME NEW h \in Helpers, Boot(h) PROVE FilesInv'
  BY <1>1 DEF Boot, disk, writer, ghost
<1>2. ASSUME NEW h \in Helpers, Crash(h) PROVE FilesInv'
  BY <1>2 DEF Crash, disk, writer, ghost
<1>3. ASSUME NEW h \in Helpers, NEW id \in Ids, NEW status \in Status, NEW at \in Times,
             PutBegin(h, id, status, at)
      PROVE  FilesInv'
  <2>1. arg'[h].id = id /\ ~FileWritten(h) /\ ~FileWritten(h)'
    BY <1>3 DEF PutBegin
  <2>2. \A g \in Helpers : FileWritten(g) => arg[g].id \in Ids /\ arg[g].id # id
    BY <1>3, <2>1, PutArg DEF PutBegin, Putting
  <2>3. ASSUME NEW g \in Helpers, g # h
        PROVE  arg'[g] = arg[g] /\ (FileWritten(g)' <=> FileWritten(g))
    BY <1>3, <2>3 DEF PutBegin
  <2>4. \A j \in Ids : j # id => file'[j] = file[j] /\ runner'[j] = runner[j]
    BY <1>3 DEF PutBegin
  <2>5. file'[id] = "torn" /\ retired' = retired
    BY <1>3 DEF PutBegin, ghost
  <2>6. ASSUME NEW g \in Helpers, FileWritten(g)', arg'[g].id \notin retired'
        PROVE  file'[arg'[g].id] = arg'[g].status
    <3>1. g # h
      BY <2>6, <2>1
    <3>2. QED
      BY <3>1, <2>2, <2>3, <2>4, <2>5, <2>6
  <2>7. ASSUME NEW j \in Ids, file'[j] = "terminal", runner'[j] # NoOne
        PROVE  \E g \in Helpers : /\ runner'[j] = g /\ FileWritten(g)'
                                  /\ arg'[g].id = j /\ arg'[g].status = "terminal"
    <3>1. j # id
      BY <2>5, <2>7
    <3>2. PICK g \in Helpers : /\ runner[j] = g /\ FileWritten(g)
                               /\ arg[g].id = j /\ arg[g].status = "terminal"
      BY <2>4, <2>7, <3>1
    <3>3. g # h
      BY <2>1, <3>2
    <3>4. QED
      BY <2>3, <2>4, <3>1, <3>2, <3>3
  <2>8. QED
    BY <2>6, <2>7
<1>4. ASSUME NEW h \in Helpers, NEW id \in Ids, PutRejected(h, id) PROVE FilesInv'
  BY <1>4 DEF PutRejected, disk, writer, ghost
<1>5. ASSUME NEW h \in Helpers, PutFile(h) PROVE FilesInv'
  <2>1. Putting(h)
    BY <1>5 DEF PutFile, Putting
  <2>2. arg[h] \in Row /\ arg[h].id \in Ids /\ arg[h].status \in Status /\ runner[arg[h].id] = h
    BY <2>1, PutArg
  <2>3. \A g \in Helpers : g # h /\ Putting(g) => arg[g].id # arg[h].id /\ arg[g].id \in Ids
    BY <2>2, PutArg
  <2>4. QED
    BY <1>5, <2>1, <2>2, <2>3 DEF PutFile, Putting, disk, writer, ghost
<1>6. ASSUME NEW h \in Helpers, PutFileFails(h) PROVE FilesInv'
  <2>1. Putting(h)
    BY <1>6 DEF PutFileFails, Putting
  <2>2. arg[h] \in Row /\ arg[h].id \in Ids /\ arg[h].status \in Status /\ runner[arg[h].id] = h
    BY <2>1, PutArg
  <2>3. \A g \in Helpers : g # h /\ Putting(g) => arg[g].id # arg[h].id /\ arg[g].id \in Ids
    BY <2>2, PutArg
  <2>4. QED
    BY <1>6, <2>1, <2>2, <2>3 DEF PutFileFails, PutReturns, Putting, disk, writer, ghost
<1>7. ASSUME NEW h \in Helpers, PutLock(h) PROVE FilesInv'
  BY <1>7 DEF PutLock, disk, writer, ghost
<1>8. ASSUME NEW h \in Helpers, PutLockTimeout(h) PROVE FilesInv'
  <2>1. Putting(h)
    BY <1>8 DEF PutLockTimeout, Putting
  <2>2. arg[h] \in Row /\ arg[h].id \in Ids /\ arg[h].status \in Status /\ runner[arg[h].id] = h
    BY <2>1, PutArg
  <2>3. \A g \in Helpers : g # h /\ Putting(g) => arg[g].id # arg[h].id /\ arg[g].id \in Ids
    BY <2>2, PutArg
  <2>4. QED
    BY <1>8, <2>1, <2>2, <2>3 DEF PutLockTimeout, PutReturns, Putting, disk, writer, ghost
<1>9. ASSUME NEW h \in Helpers, PutOpen(h) PROVE FilesInv'
  BY <1>9 DEF PutOpen, disk, writer, ghost
<1>10. ASSUME NEW h \in Helpers, PutAppend(h) PROVE FilesInv'
  <2>1. Putting(h)
    BY <1>10 DEF PutAppend, Putting
  <2>2. arg[h] \in Row /\ arg[h].id \in Ids /\ arg[h].status \in Status /\ runner[arg[h].id] = h
    BY <2>1, PutArg
  <2>3. \A g \in Helpers : g # h /\ Putting(g) => arg[g].id # arg[h].id /\ arg[g].id \in Ids
    BY <2>2, PutArg
  <2>4. QED
    BY <1>10, <2>1, <2>2, <2>3 DEF PutAppend, PutReturns, Putting, disk, writer, ghost
<1>11. ASSUME NEW h \in Helpers, PutAppendFails(h) PROVE FilesInv'
  <2>1. Putting(h)
    BY <1>11 DEF PutAppendFails, Putting
  <2>2. arg[h] \in Row /\ arg[h].id \in Ids /\ arg[h].status \in Status /\ runner[arg[h].id] = h
    BY <2>1, PutArg
  <2>3. \A g \in Helpers : g # h /\ Putting(g) => arg[g].id # arg[h].id /\ arg[g].id \in Ids
    BY <2>2, PutArg
  <2>4. QED
    BY <1>11, <2>1, <2>2, <2>3 DEF PutAppendFails, PutReturns, Putting, disk, writer, ghost
<1>12. ASSUME NEW h \in Helpers, PutAppendTorn(h) PROVE FilesInv'
  <2>1. Putting(h)
    BY <1>12 DEF PutAppendTorn, Putting
  <2>2. arg[h] \in Row /\ arg[h].id \in Ids /\ arg[h].status \in Status /\ runner[arg[h].id] = h
    BY <2>1, PutArg
  <2>3. \A g \in Helpers : g # h /\ Putting(g) => arg[g].id # arg[h].id /\ arg[g].id \in Ids
    BY <2>2, PutArg
  <2>4. QED
    BY <1>12, <2>1, <2>2, <2>3 DEF PutAppendTorn, PutReturns, Putting, disk, writer, ghost
<1>13. ASSUME NEW h \in Helpers, CleanupBegin(h) PROVE FilesInv'
  BY <1>13 DEF CleanupBegin, disk, writer, ghost
<1>14. ASSUME NEW h \in Helpers, CleanupLock(h) PROVE FilesInv'
  BY <1>14 DEF CleanupLock, disk, writer, ghost
<1>15. ASSUME NEW h \in Helpers, CleanupLockTimeout(h) PROVE FilesInv'
  BY <1>15 DEF CleanupLockTimeout, After, disk, writer, ghost
<1>16. ASSUME NEW h \in Helpers, CleanupDrop(h) PROVE FilesInv'
  <2>1. PICK K \in SUBSET LatestEntries(rows), G \in SUBSET Ids : Drops(h, K, G)
    BY <1>16, DropFacts
  <2>2. \A g \in Helpers : FileWritten(g)' <=> FileWritten(g)
    BY <2>1 DEF Drops
  <2>3. \A g \in Helpers : FileWritten(g) => arg[g].id \in Ids
    BY PutArg DEF Putting
  <2>4. QED
    BY <2>1, <2>2, <2>3 DEF Drops
<1>17. ASSUME NEW h \in Helpers, CleanupUnreadable(h) PROVE FilesInv'
  BY <1>17 DEF CleanupUnreadable, After, disk, writer, ghost
<1>18. ASSUME NEW h \in Helpers, CleanupRewrite(h) PROVE FilesInv'
  BY <1>18 DEF CleanupRewrite, After, disk, writer, ghost
<1>19. ASSUME NEW h \in Helpers, CleanupRewriteFails(h) PROVE FilesInv'
  BY <1>19 DEF CleanupRewriteFails, After, disk, writer, ghost
<1>20. ASSUME NEW h \in Helpers, NEW id \in Ids, GetCached(h, id) PROVE FilesInv'
  BY <1>20 DEF GetCached, MayQuery, Answer, GoToDisk, GetUnchanged, disk, writer, ghost
<1>21. ASSUME NEW h \in Helpers, GetIndex(h) PROVE FilesInv'
  BY <1>21 DEF GetIndex, Answer, GetUnchanged, disk, writer, ghost
<1>22. ASSUME NEW h \in Helpers, GetFile(h) PROVE FilesInv'
  BY <1>22 DEF GetFile, Answer, GetUnchanged, disk, writer, ghost
<1>23. ASSUME NEW h \in Helpers, GetStore(h) PROVE FilesInv'
  BY <1>23 DEF GetStore, Answer, GetUnchanged, disk, writer, ghost
<1>24. CASE UNCHANGED vars
  BY <1>24 DEF vars, disk, writer, ghost
<1> HIDE DEF TypeOK, FilesInv, FileWritten, MuFree, Status
<1>25. QED
  BY <1>1, <1>2, <1>3, <1>4, <1>5, <1>6, <1>7, <1>8, <1>9, <1>10, <1>11, <1>12, <1>13,
     <1>14, <1>15, <1>16, <1>17, <1>18, <1>19, <1>20, <1>21, <1>22, <1>23, <1>24 DEF
     Next, PutStep, CleanupStep, GetStep

\* What is on disk about a command stays there until retention takes it out.
DiskKept ==
  /\ retired \subseteq retired'
  /\ \A id \in Ids : file[id] = "terminal" => file'[id] = "terminal" \/ id \in retired'
  /\ \A id \in Ids : HasRow(id) => HasRow(id)' \/ id \in retired'

\* No step, of any helper, undoes a terminal record file or the last row of a command
\* that retention keeps.
LEMMA DiskStep == TypeOK /\ WriterInv /\ RowsInv /\ PlanInv /\ FilesInv /\ [Next]_vars => DiskKept
<1> SUFFICES ASSUME TypeOK, WriterInv, RowsInv, PlanInv, FilesInv, [Next]_vars PROVE DiskKept
  OBVIOUS
<1> USE DEF TypeOK, DiskKept, HasRow
<1>1. ASSUME NEW h \in Helpers, Boot(h) PROVE DiskKept
  BY <1>1 DEF Boot, disk, writer, ghost
<1>2. ASSUME NEW h \in Helpers, Crash(h) PROVE DiskKept
  BY <1>2 DEF Crash, disk, writer, ghost
<1>3. ASSUME NEW h \in Helpers, NEW id \in Ids, NEW status \in Status, NEW at \in Times,
             PutBegin(h, id, status, at)
      PROVE  DiskKept
  <2>1. ~FileWritten(h)
    BY <1>3 DEF PutBegin, FileWritten, MuFree
  <2>2. runner[id] = "unborn" \/ runner[id] = h
    BY <1>3 DEF PutBegin
  <2>3. file[id] # "terminal"
    BY <2>1, <2>2 DEF FilesInv
  <2>4. QED
    BY <1>3, <2>3 DEF PutBegin, disk, writer, ghost
<1>4. ASSUME NEW h \in Helpers, NEW id \in Ids, PutRejected(h, id) PROVE DiskKept
  BY <1>4 DEF PutRejected, disk, writer, ghost
<1>5. ASSUME NEW h \in Helpers, PutFile(h) PROVE DiskKept
  <2>1. Putting(h) /\ ~FileWritten(h)
    BY <1>5 DEF PutFile, Putting, FileWritten
  <2>2. arg[h] \in Row /\ arg[h].id \in Ids /\ runner[arg[h].id] = h
    BY <2>1, PutArg
  <2>3. file[arg[h].id] # "terminal"
    BY <2>1, <2>2 DEF FilesInv
  <2>4. QED
    BY <1>5, <2>2, <2>3 DEF PutFile, disk, writer, ghost
<1>6. ASSUME NEW h \in Helpers, PutFileFails(h) PROVE DiskKept
  BY <1>6 DEF PutFileFails, PutReturns, disk, writer, ghost
<1>7. ASSUME NEW h \in Helpers, PutLock(h) PROVE DiskKept
  BY <1>7 DEF PutLock, disk, writer, ghost
<1>8. ASSUME NEW h \in Helpers, PutLockTimeout(h) PROVE DiskKept
  BY <1>8 DEF PutLockTimeout, PutReturns, disk, writer, ghost
<1>9. ASSUME NEW h \in Helpers, PutOpen(h) PROVE DiskKept
  BY <1>9 DEF PutOpen, disk, writer, ghost
<1>10. ASSUME NEW h \in Helpers, PutAppend(h) PROVE DiskKept
  <2>1. Putting(h)
    BY <1>10 DEF PutAppend, Putting
  <2>2. arg[h] \in Row /\ arg[h].id \in Ids
    BY <2>1, PutArg
  <2>3. QED
    BY <1>10, <2>1, <2>2 DEF PutAppend, PutReturns, disk, writer, ghost
<1>11. ASSUME NEW h \in Helpers, PutAppendFails(h) PROVE DiskKept
  BY <1>11 DEF PutAppendFails, PutReturns, disk, writer, ghost
<1>12. ASSUME NEW h \in Helpers, PutAppendTorn(h) PROVE DiskKept
  BY <1>12 DEF PutAppendTorn, PutReturns, disk, writer, ghost
<1>13. ASSUME NEW h \in Helpers, CleanupBegin(h) PROVE DiskKept
  BY <1>13 DEF CleanupBegin, disk, writer, ghost
<1>14. ASSUME NEW h \in Helpers, CleanupLock(h) PROVE DiskKept
  BY <1>14 DEF CleanupLock, disk, writer, ghost
<1>15. ASSUME NEW h \in Helpers, CleanupLockTimeout(h) PROVE DiskKept
  BY <1>15 DEF CleanupLockTimeout, After, disk, writer, ghost
<1>16. ASSUME NEW h \in Helpers, CleanupDrop(h) PROVE DiskKept
  <2>1. PICK K \in SUBSET LatestEntries(rows), G \in SUBSET Ids : Drops(h, K, G)
    BY <1>16, DropFacts
  <2>2. QED
    BY <2>1 DEF Drops
<1>17. ASSUME NEW h \in Helpers, CleanupUnreadable(h) PROVE DiskKept
  BY <1>17 DEF CleanupUnreadable, After, disk, writer, ghost
<1>18. ASSUME NEW h \in Helpers, CleanupRewrite(h) PROVE DiskKept
  <2>1. rows \in SUBSET Row /\ OneRowEach(rows)
    BY DEF RowsInv, OneRowEach
  <2>2. rows' = kept[h] /\ UNCHANGED <<file, retired>> /\ pc[h] = "rewrite"
    BY <1>18 DEF CleanupRewrite, ghost
  <2>3. ASSUME NEW id \in Ids, HasRow(id) PROVE HasRow(id)' \/ id \in retired
    <3>1. PICK r \in rows : r.id = id
      BY <2>3
    <3>2. PICK l \in LatestEntries(rows) : l.id = id
      BY <2>1, <3>1, LatestExists
    <3>3. l \in kept[h] \/ l.id \in retired
      BY <2>2 DEF PlanInv
    <3>4. QED
      BY <2>2, <3>2, <3>3
  <2>4. QED
    BY <2>2, <2>3
<1>19. ASSUME NEW h \in Helpers, CleanupRewriteFails(h) PROVE DiskKept
  BY <1>19 DEF CleanupRewriteFails, After, disk, writer, ghost
<1>20. ASSUME NEW h \in Helpers, NEW id \in Ids, GetCached(h, id) PROVE DiskKept
  BY <1>20 DEF GetCached, MayQuery, Answer, GoToDisk, GetUnchanged, disk, writer, ghost
<1>21. ASSUME NEW h \in Helpers, GetIndex(h) PROVE DiskKept
  BY <1>21 DEF GetIndex, Answer, GetUnchanged, disk, writer, ghost
<1>22. ASSUME NEW h \in Helpers, GetFile(h) PROVE DiskKept
  BY <1>22 DEF GetFile, Answer, GetUnchanged, disk, writer, ghost
<1>23. ASSUME NEW h \in Helpers, GetStore(h) PROVE DiskKept
  BY <1>23 DEF GetStore, Answer, GetUnchanged, disk, writer, ghost
<1>24. CASE UNCHANGED vars
  BY <1>24 DEF vars, disk, writer, ghost
<1> HIDE DEF TypeOK, DiskKept, HasRow
<1>25. QED
  BY <1>1, <1>2, <1>3, <1>4, <1>5, <1>6, <1>7, <1>8, <1>9, <1>10, <1>11, <1>12, <1>13,
     <1>14, <1>15, <1>16, <1>17, <1>18, <1>19, <1>20, <1>21, <1>22, <1>23, <1>24 DEF
     Next, PutStep, CleanupStep, GetStep

\* So an end that is on disk stays known.
LEMMA EndedKept ==
  ASSUME DiskKept, NEW id \in Ids, Ended(id)
  PROVE  Ended(id)'
BY DEF DiskKept, Ended

\* The readers' knowledge stands while nobody learns anything new.
LEMMA ReadersKept ==
  ASSUME TypeOK, DiskKept, ReadersInv, told' = told, query' = query,
         \A h \in Helpers, id \in Ids : cache'[h][id] = "terminal" => Ended(id)'
  PROVE  ReadersInv'
<1>1. \A id \in told : id \in Ids /\ Ended(id)
  BY DEF TypeOK, ReadersInv
<1>2. \A id \in told' : Ended(id)'
  BY <1>1, EndedKept
<1>3. ASSUME NEW h \in Helpers, query[h].at = "file"
      PROVE  query[h].id \in retired' \/ HasRow(query[h].id)'
  <2>1. query[h].id \in Ids /\ (query[h].id \in retired \/ HasRow(query[h].id))
    BY <1>3 DEF ReadersInv, ReaderKnows
  <2>2. QED
    BY <2>1 DEF DiskKept
<1>4. ASSUME NEW h \in Helpers, query[h].at = "store"
      PROVE  Ended(query[h].id)'
  <2>1. query[h].id \in Ids /\ Ended(query[h].id)
    BY <1>4 DEF ReadersInv, ReaderKnows
  <2>2. QED
    BY <2>1, EndedKept
<1>5. ASSUME NEW h \in Helpers
      PROVE  ReaderKnows(h)'
  BY <1>3, <1>4 DEF ReadersInv, ReaderKnows, Ended, HasRow
<1>6. QED
  BY <1>2, <1>5 DEF ReadersInv

\* In particular while the caches stay as they are.
LEMMA ReadersSame ==
  ASSUME TypeOK, DiskKept, ReadersInv, UNCHANGED <<told, query, cache>>
  PROVE  ReadersInv'
<1>1. \A h \in Helpers, id \in Ids : cache'[h][id] = "terminal" => Ended(id)'
  BY EndedKept DEF ReadersInv
<1>2. QED
  BY <1>1, ReadersKept

\* An answer of getRecord that tells of an end on disk keeps the readers right, and
\* one that denies an end nobody was told of misleads nobody.
LEMMA AnswerKnows ==
  ASSUME TypeOK, ReadersInv, NEW h \in Helpers, NEW id \in Ids, NEW ended, NEW found,
         Answer(h, id, ended, found), UNCHANGED <<file, rows, retired>>,
         found = "terminal" => Ended(id),
         \A g \in Helpers, j \in Ids : cache'[g][j] = "terminal" => Ended(j)
  PROVE  ReadersInv'
<1>1. \A j \in Ids : Ended(j)' <=> Ended(j)
  BY DEF Ended, HasRow
<1>2. told \subseteq told' /\ told' \subseteq Ids /\ \A j \in told' : j \in told \/ Ended(j)
  BY DEF Answer, TypeOK
<1>3. \A j \in told' : Ended(j)'
  BY <1>1, <1>2 DEF ReadersInv
<1>4. ReaderKnows(h)'
  BY DEF Answer, NoQuery, ReaderKnows, TypeOK
<1>5. ASSUME NEW g \in Helpers, g # h PROVE ReaderKnows(g)'
  <2>1. query'[g] = query[g]
    BY <1>5 DEF Answer, TypeOK
  <2>2. ReaderKnows(g)
    BY DEF ReadersInv
  <2>3. QED
    BY <1>2, <2>1, <2>2 DEF ReaderKnows, Ended, HasRow
<1>6. \A g \in Helpers : ReaderKnows(g)'
  BY <1>4, <1>5
<1>7. \A g \in Helpers, j \in Ids : cache'[g][j] = "terminal" => Ended(j)'
  BY <1>1
<1>8. QED
  BY <1>3, <1>6, <1>7 DEF ReadersInv

\* A read that moves on, knowing what it relies on, keeps the readers right.
LEMMA MoveKnows ==
  ASSUME TypeOK, ReadersInv, NEW h \in Helpers,
         UNCHANGED <<file, rows, retired, told, cache>>, ReaderKnows(h)',
         \A g \in Helpers : g # h => query'[g] = query[g]
  PROVE  ReadersInv'
<1>1. ASSUME NEW g \in Helpers, g # h PROVE ReaderKnows(g)'
  <2>1. query'[g] = query[g] /\ ReaderKnows(g)
    BY <1>1 DEF ReadersInv
  <2>2. QED
    BY <2>1 DEF ReaderKnows, Ended, HasRow
<1>2. \A g \in Helpers : ReaderKnows(g)'
  BY <1>1
<1>3. QED
  BY <1>2 DEF ReadersInv, Ended, HasRow

\* Nobody is told of an end that is not on disk, and an end on disk stays there.
LEMMA ReadersStep == TypeOK /\ WriterInv /\ RowsInv /\ PlanInv /\ FilesInv /\ ReadersInv /\ [Next]_vars => ReadersInv'
<1> SUFFICES ASSUME TypeOK, WriterInv, RowsInv, PlanInv, FilesInv, ReadersInv, [Next]_vars PROVE ReadersInv'
  OBVIOUS
<1>0. DiskKept
  BY DiskStep
<1>1. ASSUME NEW h \in Helpers, Boot(h) PROVE ReadersInv'
  <2>1. rows \in SUBSET Row /\ OneRowEach(rows)
    BY DEF TypeOK, RowsInv, OneRowEach
  <2>2. \A id \in Ids : Listed(rows, id) # "none" => HasRow(id)
    BY <2>1, ListedIs DEF HasRow
  <2>3. UNCHANGED <<file, rows, retired, told, query>>
    BY <1>1 DEF Boot, disk, ghost
  <2>4. ASSUME NEW g \in Helpers, NEW id \in Ids, cache'[g][id] = "terminal"
        PROVE  Ended(id)'
    <3>1. CASE g = h
      <4>1. cache'[h][id] = IF Listed(rows, id) # "none" /\ file[id] \in Status
                              THEN file[id] ELSE "none"
        BY <1>1 DEF Boot, TypeOK
      <4>2. QED
        BY <2>2, <2>3, <2>4, <3>1, <4>1 DEF Ended, HasRow
    <3>2. CASE g # h
      BY <1>1, <2>3, <2>4, <3>2 DEF Boot, TypeOK, ReadersInv, Ended, HasRow
    <3>3. QED
      BY <3>1, <3>2
  <2>5. QED
    BY <2>3, <2>4, <1>0, ReadersKept
<1>2. ASSUME NEW h \in Helpers, Crash(h) PROVE ReadersInv'
  <2>1. UNCHANGED <<file, rows, retired, told>>
    BY <1>2 DEF Crash, ghost
  <2>2. ASSUME NEW g \in Helpers, NEW id \in Ids, cache'[g][id] = "terminal"
        PROVE  Ended(id)
    <3>1. cache[g][id] = "terminal"
      BY <1>2, <2>2 DEF Crash, TypeOK
    <3>2. QED
      BY <3>1 DEF ReadersInv
  <2>3. ASSUME NEW g \in Helpers PROVE ReaderKnows(g)'
    <3>1. query'[g] = NoQuery \/ query'[g] = query[g]
      BY <1>2 DEF Crash, TypeOK
    <3>2. CASE query'[g] = NoQuery
      BY <3>2 DEF NoQuery, ReaderKnows
    <3>3. CASE query'[g] = query[g]
      BY <2>1, <3>3 DEF ReadersInv, ReaderKnows, Ended, HasRow
    <3>4. QED
      BY <3>1, <3>2, <3>3
  <2>4. QED
    BY <2>1, <2>2, <2>3 DEF ReadersInv, Ended, HasRow
<1>3. ASSUME NEW h \in Helpers, NEW id \in Ids, NEW status \in Status, NEW at \in Times,
             PutBegin(h, id, status, at)
      PROVE  ReadersInv'
  BY <1>3, <1>0, ReadersSame DEF PutBegin, disk, writer, ghost
<1>4. ASSUME NEW h \in Helpers, NEW id \in Ids, PutRejected(h, id) PROVE ReadersInv'
  BY <1>4, <1>0, ReadersSame DEF PutRejected, disk, writer, ghost
<1>5. ASSUME NEW h \in Helpers, PutFile(h) PROVE ReadersInv'
  BY <1>5, <1>0, ReadersSame DEF PutFile, disk, writer, ghost
<1>6. ASSUME NEW h \in Helpers, PutFileFails(h) PROVE ReadersInv'
  BY <1>6, <1>0, ReadersSame DEF PutFileFails, PutReturns, disk, writer, ghost
<1>7. ASSUME NEW h \in Helpers, PutLock(h) PROVE ReadersInv'
  BY <1>7, <1>0, ReadersSame DEF PutLock, disk, writer, ghost
<1>8. ASSUME NEW h \in Helpers, PutLockTimeout(h) PROVE ReadersInv'
  BY <1>8, <1>0, ReadersSame DEF PutLockTimeout, PutReturns, disk, writer, ghost
<1>9. ASSUME NEW h \in Helpers, PutOpen(h) PROVE ReadersInv'
  BY <1>9, <1>0, ReadersSame DEF PutOpen, disk, writer, ghost
<1>10. ASSUME NEW h \in Helpers, PutAppend(h) PROVE ReadersInv'
  <2>1. Putting(h) /\ FileWritten(h)
    BY <1>10 DEF PutAppend, Putting, FileWritten
  <2>2. arg[h] \in Row /\ arg[h].id \in Ids
    BY <2>1, PutArg
  <2>3. /\ rows' = rows \cup {arg[h]}
        /\ UNCHANGED <<file, retired, told, query>>
        /\ cache' = [cache EXCEPT ![h][arg[h].id] = arg[h].status]
    BY <1>10 DEF PutAppend, WriterInv
  <2>4. ASSUME NEW j \in Ids, j = arg[h].id, arg[h].status = "terminal" PROVE Ended(j)'
    BY <2>4, <2>1, <2>2, <2>3 DEF FilesInv, Ended, HasRow
  <2>5. ASSUME NEW g \in Helpers, NEW id \in Ids, cache'[g][id] = "terminal"
        PROVE  Ended(id)'
    <3>1. cache[g][id] = "terminal" \/ (id = arg[h].id /\ arg[h].status = "terminal")
      BY <2>2, <2>3, <2>5 DEF TypeOK
    <3>2. QED
      BY <2>4, <3>1, <1>0, EndedKept DEF ReadersInv
  <2>6. QED
    BY <2>3, <2>5, <1>0, ReadersKept
<1>11. ASSUME NEW h \in Helpers, PutAppendFails(h) PROVE ReadersInv'
  BY <1>11, <1>0, ReadersSame DEF PutAppendFails, PutReturns, disk, writer, ghost
<1>12. ASSUME NEW h \in Helpers, PutAppendTorn(h) PROVE ReadersInv'
  BY <1>12, <1>0, ReadersSame DEF PutAppendTorn, PutReturns, disk, writer, ghost
<1>13. ASSUME NEW h \in Helpers, CleanupBegin(h) PROVE ReadersInv'
  BY <1>13, <1>0, ReadersSame DEF CleanupBegin, disk, writer, ghost
<1>14. ASSUME NEW h \in Helpers, CleanupLock(h) PROVE ReadersInv'
  BY <1>14, <1>0, ReadersSame DEF CleanupLock, disk, writer, ghost
<1>15. ASSUME NEW h \in Helpers, CleanupLockTimeout(h) PROVE ReadersInv'
  BY <1>15, <1>0, ReadersSame DEF CleanupLockTimeout, After, disk, writer, ghost
<1>16. ASSUME NEW h \in Helpers, CleanupDrop(h) PROVE ReadersInv'
  <2>1. PICK K \in SUBSET LatestEntries(rows), G \in SUBSET Ids : Drops(h, K, G)
    BY <1>16, DropFacts
  <2>2. UNCHANGED <<told, query>>
    BY <2>1 DEF Drops
  <2>3. ASSUME NEW g \in Helpers, NEW id \in Ids, cache'[g][id] = "terminal"
        PROVE  Ended(id)'
    <3>1. cache[g][id] = "terminal"
      BY <2>1, <2>3 DEF Drops, TypeOK
    <3>2. QED
      BY <3>1, <1>0, EndedKept DEF ReadersInv
  <2>4. QED
    BY <2>2, <2>3, <1>0, ReadersKept
<1>17. ASSUME NEW h \in Helpers, CleanupUnreadable(h) PROVE ReadersInv'
  BY <1>17, <1>0, ReadersSame DEF CleanupUnreadable, After, disk, writer, ghost
<1>18. ASSUME NEW h \in Helpers, CleanupRewrite(h) PROVE ReadersInv'
  BY <1>18, <1>0, ReadersSame DEF CleanupRewrite, After, disk, writer, ghost
<1>19. ASSUME NEW h \in Helpers, CleanupRewriteFails(h) PROVE ReadersInv'
  BY <1>19, <1>0, ReadersSame DEF CleanupRewriteFails, After, disk, writer, ghost
<1>20. ASSUME NEW h \in Helpers, NEW id \in Ids, GetCached(h, id) PROVE ReadersInv'
  <2>1. UNCHANGED <<file, rows, retired, cache>>
    BY <1>20 DEF GetCached, GetUnchanged, disk
  <2>2. \A g \in Helpers, j \in Ids : cache'[g][j] = "terminal" => Ended(j)
    BY <2>1 DEF ReadersInv
  <2>3. CASE cache[h][id] = "terminal"
    <3>1. Answer(h, id, id \in told, "terminal") /\ Ended(id)
      BY <1>20, <2>3 DEF GetCached, ReadersInv
    <3>2. QED
      BY <2>1, <2>2, <3>1, AnswerKnows
  <2>4. CASE cache[h][id] # "terminal"
    <3>1. GoToDisk(h, id)
      BY <1>20, <2>4 DEF GetCached
    <3>2. query'[h] = [at |-> "index", id |-> id, seen |-> cache[h][id], ended |-> id \in told]
      BY <3>1 DEF GoToDisk, TypeOK
    <3>3. ReaderKnows(h)'
      <4> DEFINE e == id \in told
      <4>0. query'[h] = [at |-> "index", id |-> id, seen |-> cache[h][id], ended |-> e]
        BY <3>2
      <4> HIDE DEF e
      <4>1. /\ query'[h].at = "index" /\ query'[h].id = id
            /\ query'[h].seen # "terminal" /\ query'[h].ended = e
        BY <2>4, <4>0
      <4>2. told' = told
        BY <3>1 DEF GoToDisk
      <4>3. QED
        BY <4>1, <4>2 DEF ReaderKnows, e
    <3>4. told' = told /\ \A g \in Helpers : g # h => query'[g] = query[g]
      BY <3>1 DEF GoToDisk, TypeOK
    <3>5. QED
      BY <2>1, <3>3, <3>4, MoveKnows
  <2>5. QED
    BY <2>3, <2>4
<1>21. ASSUME NEW h \in Helpers, GetIndex(h) PROVE ReadersInv'
  <2>1. UNCHANGED <<file, rows, retired, cache>>
    BY <1>21 DEF GetIndex, GetUnchanged, disk
  <2>2. \A g \in Helpers, j \in Ids : cache'[g][j] = "terminal" => Ended(j)
    BY <2>1 DEF ReadersInv
  <2>3. query[h].at = "index" /\ query[h].id \in Ids
    BY <1>21 DEF GetIndex, ReadersInv, ReaderKnows
  <2>4. CASE wedged
    <3>1. Answer(h, query[h].id, query[h].ended, "error")
      BY <1>21, <2>4 DEF GetIndex
    <3>2. QED
      BY <2>1, <2>2, <2>3, <3>1, AnswerKnows
  <2>5. CASE ~wedged /\ Listed(rows, query[h].id) = "none"
    <3>1. Answer(h, query[h].id, query[h].ended, query[h].seen)
      BY <1>21, <2>5 DEF GetIndex
    <3>2. query[h].seen # "terminal"
      BY <2>3 DEF ReadersInv, ReaderKnows
    <3>3. QED
      BY <2>1, <2>2, <2>3, <3>1, <3>2, AnswerKnows
  <2>6. CASE ~wedged /\ Listed(rows, query[h].id) # "none"
    <3>1. query' = [query EXCEPT ![h].at = "file"] /\ told' = told
      BY <1>21, <2>6 DEF GetIndex
    <3>2. rows \in SUBSET Row /\ OneRowEach(rows)
      BY DEF TypeOK, RowsInv, OneRowEach
    <3>3. HasRow(query[h].id)
      BY <2>6, <3>2, ListedIs DEF HasRow
    <3>4. query'[h].id = query[h].id /\ query'[h].ended = query[h].ended /\ query'[h].at = "file"
      BY <3>1 DEF TypeOK, Query
    <3>5. ReaderKnows(h)'
      BY <2>1, <2>3, <3>1, <3>3, <3>4 DEF ReadersInv, ReaderKnows, HasRow
    <3>6. \A g \in Helpers : g # h => query'[g] = query[g]
      BY <3>1 DEF TypeOK
    <3>7. QED
      BY <2>1, <3>1, <3>5, <3>6, MoveKnows
  <2>7. QED
    BY <2>4, <2>5, <2>6
<1>22. ASSUME NEW h \in Helpers, GetFile(h) PROVE ReadersInv'
  <2>1. UNCHANGED <<file, rows, retired, cache>>
    BY <1>22 DEF GetFile, GetUnchanged, disk
  <2>2. \A g \in Helpers, j \in Ids : cache'[g][j] = "terminal" => Ended(j)
    BY <2>1 DEF ReadersInv
  <2>3. query[h].at = "file" /\ query[h].id \in Ids
    BY <1>22 DEF GetFile, ReadersInv, ReaderKnows
  <2>4. CASE file[query[h].id] = "terminal"
    <3>1. query' = [query EXCEPT ![h].at = "store", ![h].seen = "terminal"] /\ told' = told
      BY <1>22, <2>4 DEF GetFile
    <3>2. Ended(query[h].id)
      BY <2>3, <2>4 DEF ReadersInv, ReaderKnows, Ended
    <3>3. query'[h].id = query[h].id /\ query'[h].ended = query[h].ended /\ query'[h].at = "store"
      BY <3>1 DEF TypeOK, Query
    <3>4. ReaderKnows(h)'
      <4>1. query[h].ended => query[h].id \in told
        BY DEF ReadersInv, ReaderKnows
      <4>2. (query[h].id \in Ids /\ Ended(query[h].id))'
        BY <2>1, <2>3, <3>2, <3>3 DEF Ended, HasRow
      <4>3. QED
        BY <3>1, <3>3, <4>1, <4>2 DEF ReaderKnows
    <3>5. \A g \in Helpers : g # h => query'[g] = query[g]
      BY <3>1 DEF TypeOK
    <3>6. QED
      BY <2>1, <3>1, <3>4, <3>5, MoveKnows
  <2>5. CASE file[query[h].id] = "running"
    <3>1. Answer(h, query[h].id, query[h].ended, "running")
      BY <1>22, <2>5 DEF GetFile
    <3>2. QED
      BY <2>1, <2>2, <2>3, <3>1, AnswerKnows
  <2>6. CASE file[query[h].id] \notin {"terminal", "running"}
    <3>1. Answer(h, query[h].id, query[h].ended, query[h].seen)
      BY <1>22, <2>6 DEF GetFile
    <3>2. query[h].seen # "terminal"
      BY <2>3 DEF ReadersInv, ReaderKnows
    <3>3. QED
      BY <2>1, <2>2, <2>3, <3>1, <3>2, AnswerKnows
  <2>7. QED
    BY <2>4, <2>5, <2>6
<1>23. ASSUME NEW h \in Helpers, GetStore(h) PROVE ReadersInv'
  <2>1. UNCHANGED <<file, rows, retired>>
    BY <1>23 DEF GetStore, GetUnchanged, disk
  <2>2. query[h].id \in Ids /\ Ended(query[h].id)
    BY <1>23 DEF GetStore, ReadersInv, ReaderKnows
  <2>3. Answer(h, query[h].id, query[h].ended, "terminal")
    BY <1>23 DEF GetStore
  <2>4. ASSUME NEW g \in Helpers, NEW j \in Ids, cache'[g][j] = "terminal" PROVE Ended(j)
    <3>1. cache[g][j] = "terminal" \/ j = query[h].id
      BY <1>23, <2>2, <2>4 DEF GetStore, TypeOK
    <3>2. QED
      BY <2>2, <3>1 DEF ReadersInv
  <2>5. QED
    BY <2>1, <2>2, <2>3, <2>4, AnswerKnows
<1>24. CASE UNCHANGED vars
  BY <1>24, <1>0, ReadersSame DEF vars, disk, writer, ghost
<1>25. QED
  BY <1>1, <1>2, <1>3, <1>4, <1>5, <1>6, <1>7, <1>8, <1>9, <1>10, <1>11, <1>12, <1>13,
     <1>14, <1>15, <1>16, <1>17, <1>18, <1>19, <1>20, <1>21, <1>22, <1>23, <1>24 DEF
     Next, PutStep, CleanupStep, GetStep

\* A row whose Put returned nil is appended to the index that has the name, and a
\* rewrite leaves out only rows that a newer one or retention makes superfluous.
LEMMA AckedRowsStep == TypeOK /\ WriterInv /\ RowsInv /\ PlanInv /\ AckedRowsStay /\ [Next]_vars => AckedRowsStay'
<1> SUFFICES ASSUME TypeOK, WriterInv, RowsInv, PlanInv, AckedRowsStay, [Next]_vars PROVE AckedRowsStay'
  OBVIOUS
<1>1. ASSUME NEW h \in Helpers, Boot(h) PROVE AckedRowsStay'
  BY <1>1 DEF Boot, AckedRowsStay, disk, writer, ghost
<1>2. ASSUME NEW h \in Helpers, Crash(h) PROVE AckedRowsStay'
  BY <1>2 DEF Crash, AckedRowsStay, disk, writer, ghost
<1>3. ASSUME NEW h \in Helpers, NEW id \in Ids, NEW status \in Status, NEW at \in Times,
             PutBegin(h, id, status, at)
      PROVE  AckedRowsStay'
  BY <1>3 DEF PutBegin, AckedRowsStay, disk, writer, ghost
<1>4. ASSUME NEW h \in Helpers, NEW id \in Ids, PutRejected(h, id) PROVE AckedRowsStay'
  BY <1>4 DEF PutRejected, AckedRowsStay, disk, writer, ghost
<1>5. ASSUME NEW h \in Helpers, PutFile(h) PROVE AckedRowsStay'
  BY <1>5 DEF PutFile, AckedRowsStay, disk, writer, ghost
<1>6. ASSUME NEW h \in Helpers, PutFileFails(h) PROVE AckedRowsStay'
  BY <1>6 DEF PutFileFails, PutReturns, AckedRowsStay, disk, writer, ghost
<1>7. ASSUME NEW h \in Helpers, PutLock(h) PROVE AckedRowsStay'
  BY <1>7 DEF PutLock, AckedRowsStay, disk, writer, ghost
<1>8. ASSUME NEW h \in Helpers, PutLockTimeout(h) PROVE AckedRowsStay'
  BY <1>8 DEF PutLockTimeout, PutReturns, AckedRowsStay, disk, writer, ghost
<1>9. ASSUME NEW h \in Helpers, PutOpen(h) PROVE AckedRowsStay'
  BY <1>9 DEF PutOpen, AckedRowsStay, disk, writer, ghost
<1>10. ASSUME NEW h \in Helpers, PutAppend(h) PROVE AckedRowsStay'
  <2>1. Putting(h)
    BY <1>10 DEF PutAppend, Putting
  <2>2. arg[h] \in Row /\ arg[h].id \in Ids /\ arg[h].status \in Status
    BY <2>1, PutArg
  <2>3. rows' = rows \cup {arg[h]} /\ retired' = retired
    BY <1>10 DEF PutAppend, WriterInv
  <2>4. acked' = acked \cup {<<arg[h].id, arg[h].status>>}
    BY <1>10 DEF PutAppend
  <2>5. ASSUME NEW id \in Ids, NEW status \in Status, id \notin retired, <<id, status>> \in acked'
        PROVE  \E r \in rows' : r.id = id /\ r.status \in {status, "terminal"}
    <3>1. CASE <<id, status>> \in acked
      BY <2>3, <2>5, <3>1 DEF AckedRowsStay
    <3>2. CASE id = arg[h].id /\ status = arg[h].status
      BY <2>3, <3>2
    <3>3. QED
      BY <2>4, <2>5, <3>1, <3>2
  <2>6. QED
    BY <2>3, <2>5 DEF AckedRowsStay
<1>11. ASSUME NEW h \in Helpers, PutAppendFails(h) PROVE AckedRowsStay'
  BY <1>11 DEF PutAppendFails, PutReturns, AckedRowsStay, disk, writer, ghost
<1>12. ASSUME NEW h \in Helpers, PutAppendTorn(h) PROVE AckedRowsStay'
  BY <1>12 DEF PutAppendTorn, PutReturns, AckedRowsStay, disk, writer, ghost
<1>13. ASSUME NEW h \in Helpers, CleanupBegin(h) PROVE AckedRowsStay'
  BY <1>13 DEF CleanupBegin, AckedRowsStay, disk, writer, ghost
<1>14. ASSUME NEW h \in Helpers, CleanupLock(h) PROVE AckedRowsStay'
  BY <1>14 DEF CleanupLock, AckedRowsStay, disk, writer, ghost
<1>15. ASSUME NEW h \in Helpers, CleanupLockTimeout(h) PROVE AckedRowsStay'
  BY <1>15 DEF CleanupLockTimeout, After, AckedRowsStay, disk, writer, ghost
<1>16. ASSUME NEW h \in Helpers, CleanupDrop(h) PROVE AckedRowsStay'
  <2>1. PICK K \in SUBSET LatestEntries(rows), G \in SUBSET Ids : Drops(h, K, G)
    BY <1>16, DropFacts
  <2>2. QED
    BY <2>1 DEF Drops, AckedRowsStay
<1>17. ASSUME NEW h \in Helpers, CleanupUnreadable(h) PROVE AckedRowsStay'
  BY <1>17 DEF CleanupUnreadable, After, AckedRowsStay, disk, writer, ghost
<1>18. ASSUME NEW h \in Helpers, CleanupRewrite(h) PROVE AckedRowsStay'
  <2>1. rows \in SUBSET Row /\ OneRowEach(rows)
    BY DEF TypeOK, RowsInv, OneRowEach
  <2>2. rows' = kept[h] /\ UNCHANGED <<acked, retired>> /\ pc[h] = "rewrite"
    BY <1>18 DEF CleanupRewrite, ghost
  <2>3. ASSUME NEW id \in Ids, NEW status \in Status, id \notin retired, <<id, status>> \in acked
        PROVE  \E r \in rows' : r.id = id /\ r.status \in {status, "terminal"}
    <3>1. PICK r \in rows : r.id = id /\ r.status \in {status, "terminal"}
      BY <2>3 DEF AckedRowsStay
    <3>2. PICK l \in LatestEntries(rows) :
            l.id = r.id /\ (r.status = "terminal" => l.status = "terminal")
      BY <2>1, <3>1, LatestExists
    <3>3. l \in rows' /\ l.status \in Status
      <4>1. l \in kept[h] \/ l.id \in retired
        BY <2>2 DEF PlanInv
      <4>2. l \in Row
        BY <2>1 DEF LatestEntries
      <4>3. QED
        BY <2>2, <2>3, <3>1, <3>2, <4>1, <4>2 DEF Row
    <3>4. l.status \in {status, "terminal"}
      BY <3>1, <3>2, <3>3 DEF Status
    <3>5. QED
      BY <3>1, <3>2, <3>3, <3>4
  <2>4. QED
    BY <2>2, <2>3 DEF AckedRowsStay
<1>19. ASSUME NEW h \in Helpers, CleanupRewriteFails(h) PROVE AckedRowsStay'
  BY <1>19 DEF CleanupRewriteFails, After, AckedRowsStay, disk, writer, ghost
<1>20. ASSUME NEW h \in Helpers, NEW id \in Ids, GetCached(h, id) PROVE AckedRowsStay'
  BY <1>20 DEF GetCached, MayQuery, Answer, GoToDisk, GetUnchanged, AckedRowsStay, disk, writer, ghost
<1>21. ASSUME NEW h \in Helpers, GetIndex(h) PROVE AckedRowsStay'
  BY <1>21 DEF GetIndex, Answer, GetUnchanged, AckedRowsStay, disk, writer, ghost
<1>22. ASSUME NEW h \in Helpers, GetFile(h) PROVE AckedRowsStay'
  BY <1>22 DEF GetFile, Answer, GetUnchanged, AckedRowsStay, disk, writer, ghost
<1>23. ASSUME NEW h \in Helpers, GetStore(h) PROVE AckedRowsStay'
  BY <1>23 DEF GetStore, Answer, GetUnchanged, AckedRowsStay, disk, writer, ghost
<1>24. CASE UNCHANGED vars
  BY <1>24 DEF vars, AckedRowsStay, disk, writer, ghost
<1>25. QED
  BY <1>1, <1>2, <1>3, <1>4, <1>5, <1>6, <1>7, <1>8, <1>9, <1>10, <1>11, <1>12, <1>13,
     <1>14, <1>15, <1>16, <1>17, <1>18, <1>19, <1>20, <1>21, <1>22, <1>23, <1>24 DEF
     Next, PutStep, CleanupStep, GetStep

\* The file of a terminal record whose Put returned nil is deleted by retention only.
LEMMA AckedRecordsStep == TypeOK /\ WriterInv /\ RowsInv /\ PlanInv /\ FilesInv /\ AckedRecordsReadable /\ [Next]_vars => AckedRecordsReadable'
<1> SUFFICES ASSUME TypeOK, WriterInv, RowsInv, PlanInv, FilesInv, AckedRecordsReadable, [Next]_vars PROVE AckedRecordsReadable'
  OBVIOUS
<1>0. DiskKept
  BY DiskStep
<1>1. ASSUME NEW h \in Helpers, Boot(h) PROVE AckedRecordsReadable'
  BY <1>1, <1>0 DEF Boot, AckedRecordsReadable, DiskKept, disk, writer, ghost
<1>2. ASSUME NEW h \in Helpers, Crash(h) PROVE AckedRecordsReadable'
  BY <1>2, <1>0 DEF Crash, AckedRecordsReadable, DiskKept, disk, writer, ghost
<1>3. ASSUME NEW h \in Helpers, NEW id \in Ids, NEW status \in Status, NEW at \in Times,
             PutBegin(h, id, status, at)
      PROVE  AckedRecordsReadable'
  BY <1>3, <1>0 DEF PutBegin, AckedRecordsReadable, DiskKept, disk, writer, ghost
<1>4. ASSUME NEW h \in Helpers, NEW id \in Ids, PutRejected(h, id) PROVE AckedRecordsReadable'
  BY <1>4, <1>0 DEF PutRejected, AckedRecordsReadable, DiskKept, disk, writer, ghost
<1>5. ASSUME NEW h \in Helpers, PutFile(h) PROVE AckedRecordsReadable'
  BY <1>5, <1>0 DEF PutFile, AckedRecordsReadable, DiskKept, disk, writer, ghost
<1>6. ASSUME NEW h \in Helpers, PutFileFails(h) PROVE AckedRecordsReadable'
  BY <1>6, <1>0 DEF PutFileFails, PutReturns, AckedRecordsReadable, DiskKept, disk, writer, ghost
<1>7. ASSUME NEW h \in Helpers, PutLock(h) PROVE AckedRecordsReadable'
  BY <1>7, <1>0 DEF PutLock, AckedRecordsReadable, DiskKept, disk, writer, ghost
<1>8. ASSUME NEW h \in Helpers, PutLockTimeout(h) PROVE AckedRecordsReadable'
  BY <1>8, <1>0 DEF PutLockTimeout, PutReturns, AckedRecordsReadable, DiskKept, disk, writer, ghost
<1>9. ASSUME NEW h \in Helpers, PutOpen(h) PROVE AckedRecordsReadable'
  BY <1>9, <1>0 DEF PutOpen, AckedRecordsReadable, DiskKept, disk, writer, ghost
<1>10. ASSUME NEW h \in Helpers, PutAppend(h) PROVE AckedRecordsReadable'
  <2>1. Putting(h) /\ FileWritten(h)
    BY <1>10 DEF PutAppend, Putting, FileWritten
  <2>2. arg[h].id \in Ids /\ UNCHANGED <<file, retired>>
    BY <1>10, <2>1, PutArg DEF PutAppend
  <2>3. acked' = acked \cup {<<arg[h].id, arg[h].status>>}
    BY <1>10 DEF PutAppend
  <2>4. ASSUME NEW id \in Ids, id \notin retired, <<id, "terminal">> \in acked'
        PROVE  file[id] = "terminal"
    <3>1. CASE <<id, "terminal">> \in acked
      BY <2>4, <3>1 DEF AckedRecordsReadable
    <3>2. CASE id = arg[h].id /\ arg[h].status = "terminal"
      BY <2>1, <2>4, <3>2 DEF FilesInv
    <3>3. QED
      BY <2>3, <2>4, <3>1, <3>2
  <2>5. QED
    BY <2>2, <2>4 DEF AckedRecordsReadable
<1>11. ASSUME NEW h \in Helpers, PutAppendFails(h) PROVE AckedRecordsReadable'
  BY <1>11, <1>0 DEF PutAppendFails, PutReturns, AckedRecordsReadable, DiskKept, disk, writer, ghost
<1>12. ASSUME NEW h \in Helpers, PutAppendTorn(h) PROVE AckedRecordsReadable'
  BY <1>12, <1>0 DEF PutAppendTorn, PutReturns, AckedRecordsReadable, DiskKept, disk, writer, ghost
<1>13. ASSUME NEW h \in Helpers, CleanupBegin(h) PROVE AckedRecordsReadable'
  BY <1>13, <1>0 DEF CleanupBegin, AckedRecordsReadable, DiskKept, disk, writer, ghost
<1>14. ASSUME NEW h \in Helpers, CleanupLock(h) PROVE AckedRecordsReadable'
  BY <1>14, <1>0 DEF CleanupLock, AckedRecordsReadable, DiskKept, disk, writer, ghost
<1>15. ASSUME NEW h \in Helpers, CleanupLockTimeout(h) PROVE AckedRecordsReadable'
  BY <1>15, <1>0 DEF CleanupLockTimeout, After, AckedRecordsReadable, DiskKept, disk, writer, ghost
<1>16. ASSUME NEW h \in Helpers, CleanupDrop(h) PROVE AckedRecordsReadable'
  <2>1. PICK K \in SUBSET LatestEntries(rows), G \in SUBSET Ids : Drops(h, K, G)
    BY <1>16, DropFacts
  <2>2. QED
    BY <2>1 DEF Drops, AckedRecordsReadable
<1>17. ASSUME NEW h \in Helpers, CleanupUnreadable(h) PROVE AckedRecordsReadable'
  BY <1>17, <1>0 DEF CleanupUnreadable, After, AckedRecordsReadable, DiskKept, disk, writer, ghost
<1>18. ASSUME NEW h \in Helpers, CleanupRewrite(h) PROVE AckedRecordsReadable'
  BY <1>18, <1>0 DEF CleanupRewrite, After, AckedRecordsReadable, DiskKept, disk, writer, ghost
<1>19. ASSUME NEW h \in Helpers, CleanupRewriteFails(h) PROVE AckedRecordsReadable'
  BY <1>19, <1>0 DEF CleanupRewriteFails, After, AckedRecordsReadable, DiskKept, disk, writer, ghost
<1>20. ASSUME NEW h \in Helpers, NEW id \in Ids, GetCached(h, id) PROVE AckedRecordsReadable'
  BY <1>20, <1>0 DEF GetCached, MayQuery, Answer, GoToDisk, GetUnchanged, AckedRecordsReadable, DiskKept, disk, writer, ghost
<1>21. ASSUME NEW h \in Helpers, GetIndex(h) PROVE AckedRecordsReadable'
  BY <1>21, <1>0 DEF GetIndex, Answer, GetUnchanged, AckedRecordsReadable, DiskKept, disk, writer, ghost
<1>22. ASSUME NEW h \in Helpers, GetFile(h) PROVE AckedRecordsReadable'
  BY <1>22, <1>0 DEF GetFile, Answer, GetUnchanged, AckedRecordsReadable, DiskKept, disk, writer, ghost
<1>23. ASSUME NEW h \in Helpers, GetStore(h) PROVE AckedRecordsReadable'
  BY <1>23, <1>0 DEF GetStore, Answer, GetUnchanged, AckedRecordsReadable, DiskKept, disk, writer, ghost
<1>24. CASE UNCHANGED vars
  BY <1>24, <1>0 DEF vars, AckedRecordsReadable, DiskKept, disk, writer, ghost
<1>25. QED
  BY <1>1, <1>2, <1>3, <1>4, <1>5, <1>6, <1>7, <1>8, <1>9, <1>10, <1>11, <1>12, <1>13,
     <1>14, <1>15, <1>16, <1>17, <1>18, <1>19, <1>20, <1>21, <1>22, <1>23, <1>24 DEF
     Next, PutStep, CleanupStep, GetStep

\* An answer that denies no end misleads nobody.
LEMMA AnswerIsHonest ==
  ASSUME misled = {}, NEW h, NEW id, NEW ended, NEW found, Answer(h, id, ended, found),
         ended => id \in retired \/ found \notin {"running", "none"}
  PROVE  misled' = {}
BY DEF Answer

\* getRecord takes back no end it was told of: the disk still says so, and neither
\* index, file nor cache can say less.
LEMMA EndStep == TypeOK /\ RowsInv /\ ReadersInv /\ EndIsNotTakenBack /\ [Next]_vars => EndIsNotTakenBack'
<1> SUFFICES ASSUME TypeOK, RowsInv, ReadersInv, EndIsNotTakenBack, [Next]_vars PROVE EndIsNotTakenBack'
  OBVIOUS
<1>1. ASSUME NEW h \in Helpers, Boot(h) PROVE EndIsNotTakenBack'
  BY <1>1 DEF Boot, EndIsNotTakenBack, ghost
<1>2. ASSUME NEW h \in Helpers, Crash(h) PROVE EndIsNotTakenBack'
  BY <1>2 DEF Crash, EndIsNotTakenBack, ghost
<1>3. ASSUME NEW h \in Helpers, NEW id \in Ids, NEW status \in Status, NEW at \in Times,
             PutBegin(h, id, status, at)
      PROVE  EndIsNotTakenBack'
  BY <1>3 DEF PutBegin, EndIsNotTakenBack, ghost
<1>4. ASSUME NEW h \in Helpers, NEW id \in Ids, PutRejected(h, id) PROVE EndIsNotTakenBack'
  BY <1>4 DEF PutRejected, EndIsNotTakenBack, ghost
<1>5. ASSUME NEW h \in Helpers, PutFile(h) PROVE EndIsNotTakenBack'
  BY <1>5 DEF PutFile, EndIsNotTakenBack, ghost
<1>6. ASSUME NEW h \in Helpers, PutFileFails(h) PROVE EndIsNotTakenBack'
  BY <1>6 DEF PutFileFails, PutReturns, EndIsNotTakenBack, ghost
<1>7. ASSUME NEW h \in Helpers, PutLock(h) PROVE EndIsNotTakenBack'
  BY <1>7 DEF PutLock, EndIsNotTakenBack, ghost
<1>8. ASSUME NEW h \in Helpers, PutLockTimeout(h) PROVE EndIsNotTakenBack'
  BY <1>8 DEF PutLockTimeout, PutReturns, EndIsNotTakenBack, ghost
<1>9. ASSUME NEW h \in Helpers, PutOpen(h) PROVE EndIsNotTakenBack'
  BY <1>9 DEF PutOpen, EndIsNotTakenBack, ghost
<1>10. ASSUME NEW h \in Helpers, PutAppend(h) PROVE EndIsNotTakenBack'
  BY <1>10 DEF PutAppend, PutReturns, EndIsNotTakenBack, ghost
<1>11. ASSUME NEW h \in Helpers, PutAppendFails(h) PROVE EndIsNotTakenBack'
  BY <1>11 DEF PutAppendFails, PutReturns, EndIsNotTakenBack, ghost
<1>12. ASSUME NEW h \in Helpers, PutAppendTorn(h) PROVE EndIsNotTakenBack'
  BY <1>12 DEF PutAppendTorn, PutReturns, EndIsNotTakenBack, ghost
<1>13. ASSUME NEW h \in Helpers, CleanupBegin(h) PROVE EndIsNotTakenBack'
  BY <1>13 DEF CleanupBegin, EndIsNotTakenBack, ghost
<1>14. ASSUME NEW h \in Helpers, CleanupLock(h) PROVE EndIsNotTakenBack'
  BY <1>14 DEF CleanupLock, EndIsNotTakenBack, ghost
<1>15. ASSUME NEW h \in Helpers, CleanupLockTimeout(h) PROVE EndIsNotTakenBack'
  BY <1>15 DEF CleanupLockTimeout, After, EndIsNotTakenBack, ghost
<1>16. ASSUME NEW h \in Helpers, CleanupDrop(h) PROVE EndIsNotTakenBack'
  <2>1. misled' = misled
    BY <1>16, DropFacts DEF Drops
  <2>2. QED
    BY <2>1 DEF EndIsNotTakenBack
<1>17. ASSUME NEW h \in Helpers, CleanupUnreadable(h) PROVE EndIsNotTakenBack'
  BY <1>17 DEF CleanupUnreadable, After, EndIsNotTakenBack, ghost
<1>18. ASSUME NEW h \in Helpers, CleanupRewrite(h) PROVE EndIsNotTakenBack'
  BY <1>18 DEF CleanupRewrite, After, EndIsNotTakenBack, ghost
<1>19. ASSUME NEW h \in Helpers, CleanupRewriteFails(h) PROVE EndIsNotTakenBack'
  BY <1>19 DEF CleanupRewriteFails, After, EndIsNotTakenBack, ghost
<1>20. ASSUME NEW h \in Helpers, NEW id \in Ids, GetCached(h, id) PROVE EndIsNotTakenBack'
  <2>1. CASE cache[h][id] = "terminal"
    <3>1. Answer(h, id, id \in told, "terminal")
      BY <1>20, <2>1 DEF GetCached
    <3>2. QED
      BY <3>1, AnswerIsHonest DEF EndIsNotTakenBack
  <2>2. CASE cache[h][id] # "terminal"
    BY <1>20, <2>2 DEF GetCached, GoToDisk, EndIsNotTakenBack
  <2>3. QED
    BY <2>1, <2>2
<1>21. ASSUME NEW h \in Helpers, GetIndex(h) PROVE EndIsNotTakenBack'
  <2>1. query[h].ended => query[h].id \in retired \/
          (file[query[h].id] = "terminal" /\ HasRow(query[h].id))
    BY DEF ReadersInv, ReaderKnows, Ended
  <2>2. rows \in SUBSET Row /\ OneRowEach(rows)
    BY DEF TypeOK, RowsInv, OneRowEach
  <2>3. CASE wedged
    <3>1. Answer(h, query[h].id, query[h].ended, "error")
      BY <1>21, <2>3 DEF GetIndex
    <3>2. QED
      BY <3>1, AnswerIsHonest DEF EndIsNotTakenBack
  <2>4. CASE ~wedged /\ Listed(rows, query[h].id) = "none"
    <3>1. Answer(h, query[h].id, query[h].ended, query[h].seen)
      BY <1>21, <2>4 DEF GetIndex
    <3>2. ~HasRow(query[h].id)
      BY <2>2, <2>4, ListedIs DEF HasRow
    <3>3. QED
      BY <2>1, <3>1, <3>2, AnswerIsHonest DEF EndIsNotTakenBack
  <2>5. CASE ~wedged /\ Listed(rows, query[h].id) # "none"
    BY <1>21, <2>5 DEF GetIndex, EndIsNotTakenBack
  <2>6. QED
    BY <2>3, <2>4, <2>5
<1>22. ASSUME NEW h \in Helpers, GetFile(h) PROVE EndIsNotTakenBack'
  <2>1. query[h].ended => query[h].id \in retired \/
          (file[query[h].id] = "terminal" /\ HasRow(query[h].id))
    BY DEF ReadersInv, ReaderKnows, Ended
  <2>2. CASE file[query[h].id] = "terminal"
    BY <1>22, <2>2 DEF GetFile, EndIsNotTakenBack
  <2>3. CASE file[query[h].id] = "running"
    <3>1. Answer(h, query[h].id, query[h].ended, "running")
      BY <1>22, <2>3 DEF GetFile
    <3>2. QED
      BY <2>1, <2>3, <3>1, AnswerIsHonest DEF EndIsNotTakenBack
  <2>4. CASE file[query[h].id] \notin {"terminal", "running"}
    <3>1. Answer(h, query[h].id, query[h].ended, query[h].seen)
      BY <1>22, <2>4 DEF GetFile
    <3>2. QED
      BY <2>1, <2>4, <3>1, AnswerIsHonest DEF EndIsNotTakenBack
  <2>5. QED
    BY <2>2, <2>3, <2>4
<1>23. ASSUME NEW h \in Helpers, GetStore(h) PROVE EndIsNotTakenBack'
  <2>1. Answer(h, query[h].id, query[h].ended, "terminal")
    BY <1>23 DEF GetStore
  <2>2. QED
    BY <2>1, AnswerIsHonest DEF EndIsNotTakenBack
<1>24. CASE UNCHANGED vars
  BY <1>24 DEF vars, EndIsNotTakenBack, ghost
<1>25. QED
  BY <1>1, <1>2, <1>3, <1>4, <1>5, <1>6, <1>7, <1>8, <1>9, <1>10, <1>11, <1>12, <1>13,
     <1>14, <1>15, <1>16, <1>17, <1>18, <1>19, <1>20, <1>21, <1>22, <1>23, <1>24 DEF
     Next, PutStep, CleanupStep, GetStep

-----------------------------------------------------------------------------
(* The theorems. *)

\* The empty root satisfies the invariant.
LEMMA InitInv == Init => IndInv
<1> SUFFICES ASSUME Init PROVE IndInv
  OBVIOUS
<1>1. NoQuery \in Query
  BY DEF NoQuery, Query
<1>2. TypeOK
  <2>1. 0 \in 0..MaxRewrites /\ 0 \in 0..MaxCrashes
    OBVIOUS
  <2>2. /\ file \in [Ids -> Status \cup {"absent", "torn"}]
        /\ pc \in [Helpers -> WriterSteps] /\ up \in [Helpers -> BOOLEAN]
        /\ arg \in [Helpers -> Row \cup {NoOne}] /\ handle \in [Helpers -> 0..MaxRewrites]
        /\ kept \in [Helpers -> SUBSET Row] /\ query \in [Helpers -> Query]
        /\ runner \in [Ids -> Helpers \cup {NoOne, "unborn"}]
    BY <1>1, <2>1 DEF Init, WriterSteps
  <2>3. cache \in [Helpers -> [Ids -> Status \cup {"none"}]]
    BY DEF Init
  <2>4. QED
    BY <2>1, <2>2, <2>3 DEF Init, TypeOK
<1>3. LockInv /\ WriterInv /\ RowsInv /\ PlanInv /\ FilesInv
  BY DEF Init, LockInv, WriterInv, RowsInv, PlanInv, FilesInv, Holding, Putting, FileWritten
<1>4. \A h \in Helpers : ReaderKnows(h)
  BY DEF Init, ReaderKnows, NoQuery
<1>5. ReadersInv
  BY <1>4 DEF Init, ReadersInv
<1>6. AckedRowsStay /\ AckedRecordsReadable /\ EndIsNotTakenBack
  BY DEF Init, AckedRowsStay, AckedRecordsReadable, EndIsNotTakenBack
<1>7. QED
  BY <1>2, <1>3, <1>5, <1>6 DEF IndInv

\* The invariant is inductive: lock, writers, rows, plan, files and readers, in this
\* order, each rest on the ones before.
THEOREM Inductive == Spec => []IndInv
<1>1. IndInv /\ [Next]_vars => IndInv'
  <2> SUFFICES ASSUME IndInv, [Next]_vars PROVE IndInv'
    OBVIOUS
  <2>1. /\ TypeOK /\ LockInv /\ WriterInv /\ RowsInv /\ PlanInv /\ FilesInv /\ ReadersInv
        /\ AckedRowsStay /\ AckedRecordsReadable /\ EndIsNotTakenBack
    BY DEF IndInv
  <2>2. TypeOK' /\ LockInv' /\ WriterInv'
    BY <2>1, TypeStep, LockStep, WriterStep
  <2>3. RowsInv' /\ PlanInv' /\ FilesInv' /\ ReadersInv'
    BY <2>1, RowsStep, PlanStep, FilesStep, ReadersStep
  <2>4. AckedRowsStay' /\ AckedRecordsReadable' /\ EndIsNotTakenBack'
    BY <2>1, AckedRowsStep, AckedRecordsStep, EndStep
  <2>5. QED
    BY <2>2, <2>3, <2>4 DEF IndInv
<1>2. QED
  BY InitInv, <1>1, PTL DEF Spec

\* Every variable of the history stays in its type, in every interleaving of Put,
\* Cleanup, NewHistory, getRecord and crashes.
THEOREM TypeCorrect == Spec => []TypeOK
<1>1. IndInv => TypeOK
  BY DEF IndInv
<1>2. QED
  BY <1>1, Inductive, PTL

\* A row whose Put returned nil is in the index until retention or a terminal row
\* replaces it, however many helpers append and rewrite at once.
THEOREM AckedRowsAreKept == Spec => []AckedRowsStay
<1>1. IndInv => AckedRowsStay
  BY DEF IndInv
<1>2. QED
  BY <1>1, Inductive, PTL

\* The record file of a terminal Put that returned nil reads back as terminal until
\* retention takes the command out.
THEOREM AckedRecordsAreReadable == Spec => []AckedRecordsReadable
<1>1. IndInv => AckedRecordsReadable
  BY DEF IndInv
<1>2. QED
  BY <1>1, Inductive, PTL

\* No getRecord, on any helper, denies the end of a retained command of which
\* somebody had been told before it began.
THEOREM EndsAreNotTakenBack == Spec => []EndIsNotTakenBack
<1>1. IndInv => EndIsNotTakenBack
  BY DEF IndInv
<1>2. QED
  BY <1>1, Inductive, PTL

-----------------------------------------------------------------------------
(* The refinement: the index implements the command ledger. *)

\* Two indexes with the same rows of a command list it alike.
LEMMA ListedSame ==
  ASSUME NEW R \in SUBSET Row, NEW T \in SUBSET Row, OneRowEach(R), OneRowEach(T), NEW id,
         \A r \in R : r.id = id => r \in T, \A r \in T : r.id = id => r \in R
  PROVE  Listed(R, id) = Listed(T, id)
<1>1. CASE \E r \in R : r.id = id /\ r.status = "terminal"
  <2>1. Listed(R, id) = "terminal"
    BY <1>1, ListedIs
  <2>2. \E r \in T : r.id = id /\ r.status = "terminal"
    BY <1>1
  <2>3. Listed(T, id) = "terminal"
    BY <2>2, ListedIs
  <2>4. QED
    BY <2>1, <2>3
<1>2. CASE /\ \E r \in R : r.id = id
           /\ \A r \in R : r.id = id => r.status # "terminal"
  <2>1. \A r \in R : r.id = id => r.status = "running"
    BY <1>2 DEF Row, Status
  <2>2. Listed(R, id) = "running"
    BY <1>2, <2>1, ListedIs
  <2>3. (\E r \in T : r.id = id) /\ \A r \in T : r.id = id => r.status = "running"
    BY <1>2, <2>1
  <2>4. Listed(T, id) = "running"
    BY <2>3, ListedIs
  <2>5. QED
    BY <2>2, <2>4
<1>3. CASE \A r \in R : r.id # id
  <2>1. Listed(R, id) = "none"
    BY <1>3, ListedIs
  <2>2. \A r \in T : r.id # id
    BY <1>3
  <2>3. Listed(T, id) = "none"
    BY <2>2, ListedIs
  <2>4. QED
    BY <2>1, <2>3
<1>4. QED
  BY <1>1, <1>2, <1>3

\* Steps that leave index and retired commands alone leave every durable status.
LEMMA StatusStutters ==
  ASSUME rows' = rows, retired' = retired
  PROVE  DurableStatus' = DurableStatus
BY DEF DurableStatus, Listed, LatestEntries

\* An append starts or finishes its command in the ledger: the lock makes it land in
\* the index, and the one runner of the command puts running before terminal.
LEMMA AppendIsStartOrFinish ==
  ASSUME TypeOK, WriterInv, RowsInv, RowsInv', NEW h \in Helpers, PutAppend(h)
  PROVE  Ledger!Next
<1> DEFINE i == arg[h].id
<1>1. Putting(h)
  BY DEF PutAppend, Putting
<1>2. arg[h] \in Row /\ i \in Ids /\ arg[h].status \in Status /\ runner[i] = h
  BY <1>1, PutArg
<1>3. rows' = rows \cup {arg[h]} /\ retired' = retired
  BY DEF PutAppend, WriterInv
<1>4. rows \in SUBSET Row /\ OneRowEach(rows) /\ rows' \in SUBSET Row /\ OneRowEach(rows')
  BY <1>2, <1>3 DEF TypeOK, RowsInv, OneRowEach
<1>5. ASSUME NEW j \in Ids, j # i PROVE DurableStatus'[j] = DurableStatus[j]
  <2>1. Listed(rows', j) = Listed(rows, j)
    BY <1>3, <1>4, <1>5, ListedSame
  <2>2. QED
    BY <1>3, <2>1 DEF DurableStatus
<1>6. CASE arg[h].status = "running"
  <2>1. i \notin retired /\ \A r \in rows : r.id # i
    BY <1>1, <1>6 DEF RowsInv
  <2>2. Listed(rows, i) = "none"
    BY <1>4, <2>1, ListedIs
  <2>3. DurableStatus[i] = "unborn"
    BY <1>2, <2>1, <2>2 DEF DurableStatus
  <2>4. \A r \in rows' : r.id = i => r.status = "running"
    BY <1>3, <1>6, <2>1
  <2>5. Listed(rows', i) = "running"
    BY <1>3, <1>4, <2>4, ListedIs
  <2>6. DurableStatus'[i] = "running"
    BY <1>2, <2>5 DEF DurableStatus
  <2>7. DurableStatus' = [DurableStatus EXCEPT ![i] = "running"]
    BY <1>2, <1>5, <2>6 DEF DurableStatus
  <2>8. QED
    BY <1>2, <2>3, <2>7 DEF Ledger!Next, Ledger!Start
<1>7. CASE arg[h].status = "terminal"
  <2>1. \A r \in rows : r.id = i => r.status = "running"
    BY <1>2, <1>4 DEF RowsInv, Row, Status
  <2>2. Listed(rows, i) # "terminal"
    BY <1>4, <2>1, ListedIs
  <2>3. DurableStatus[i] # "terminal"
    BY <1>2, <2>2 DEF DurableStatus
  <2>4. Listed(rows', i) = "terminal"
    BY <1>3, <1>4, <1>7, ListedIs
  <2>5. DurableStatus'[i] = "terminal"
    BY <1>2, <2>4 DEF DurableStatus
  <2>6. DurableStatus' = [DurableStatus EXCEPT ![i] = "terminal"]
    BY <1>2, <1>5, <2>5 DEF DurableStatus
  <2>7. QED
    BY <1>2, <2>3, <2>6 DEF Ledger!Next, Ledger!Finish
<1>8. QED
  BY <1>2, <1>6, <1>7 DEF Status

\* A Cleanup's deletions are invisible in the ledger: the commands it retires still
\* have their rows.
LEMMA DropStutters ==
  ASSUME TypeOK, RowsInv, NEW h \in Helpers, CleanupDrop(h)
  PROVE  DurableStatus' = DurableStatus
<1>1. PICK K \in SUBSET LatestEntries(rows), G \in SUBSET Ids : Drops(h, K, G)
  BY DropFacts
<1>2. rows \in SUBSET Row /\ OneRowEach(rows) /\ rows' = rows /\ retired' = retired \cup G
  BY <1>1 DEF TypeOK, RowsInv, OneRowEach, Drops
<1>3. \A id \in Ids : Listed(rows', id) = Listed(rows, id)
  BY <1>2, ListedSame
<1>4. ASSUME NEW id \in G PROVE Listed(rows, id) # "none"
  <2>1. \E r \in rows : r.id = id
    BY <1>1 DEF Drops
  <2>2. QED
    BY <1>2, <2>1, ListedIs
<1>5. ASSUME NEW id \in Ids PROVE DurableStatus'[id] = DurableStatus[id]
  BY <1>2, <1>3, <1>4 DEF DurableStatus
<1>6. QED
  BY <1>5 DEF DurableStatus

\* The rename of the rewritten index retires, at once, the commands it leaves out.
LEMMA RewriteIsRetire ==
  ASSUME TypeOK, RowsInv, RowsInv', PlanInv, NEW h \in Helpers, CleanupRewrite(h)
  PROVE  Ledger!Next
<1> DEFINE S == {id \in Ids : HasRow(id) /\ ~HasRow(id)'}
<1>1. rows' = kept[h] /\ retired' = retired /\ pc[h] = "rewrite"
  BY DEF CleanupRewrite, ghost
<1>2. rows' \subseteq LatestEntries(rows) /\ LatestEntries(rows) \subseteq rows
  BY <1>1 DEF PlanInv, LatestEntries
<1>3. rows \in SUBSET Row /\ OneRowEach(rows) /\ rows' \in SUBSET Row /\ OneRowEach(rows')
  BY <1>2 DEF TypeOK, RowsInv, OneRowEach
<1>4. ASSUME NEW id \in S
      PROVE  DurableStatus[id] \in {"running", "terminal"} /\ DurableStatus'[id] = "retired"
  <2>1. PICK r \in rows : r.id = id
    BY <1>4 DEF HasRow
  <2>2. PICK l \in LatestEntries(rows) : l.id = id
    BY <1>3, <2>1, LatestExists
  <2>3. Listed(rows, id) = l.status /\ l.status \in Status
    BY <1>2, <1>3, <2>2, ListedIs DEF Row
  <2>4. DurableStatus[id] \in {"running", "terminal"}
    BY <2>3 DEF DurableStatus, Status
  <2>5. \A k \in rows' : k.id # id
    BY <1>4 DEF HasRow
  <2>6. Listed(rows', id) = "none"
    BY <1>3, <2>5, ListedIs
  <2>7. l.id \in retired
    BY <1>1, <2>2, <2>5 DEF PlanInv
  <2>8. QED
    BY <1>1, <2>2, <2>4, <2>6, <2>7 DEF DurableStatus
<1>5. ASSUME NEW id \in Ids, id \notin S PROVE DurableStatus'[id] = DurableStatus[id]
  <2>1. CASE HasRow(id)'
    <3>1. PICK l \in rows' : l.id = id
      BY <2>1 DEF HasRow
    <3>2. Listed(rows, id) = l.status
      BY <1>2, <1>3, <3>1, ListedIs
    <3>3. \A k \in rows' : k.id = id => k = l
      BY <1>2, <1>3, <3>1, LatestUnique
    <3>4. l \in LatestEntries(rows')
      BY <1>3, <3>1, <3>3, NotItself DEF LatestEntries
    <3>5. Listed(rows', id) = l.status
      BY <1>3, <3>1, <3>4, ListedIs
    <3>6. QED
      BY <1>1, <3>2, <3>5 DEF DurableStatus
  <2>2. CASE ~HasRow(id)'
    <3>1. (\A r \in rows : r.id # id) /\ \A r \in rows' : r.id # id
      BY <1>5, <2>2 DEF HasRow
    <3>2. Listed(rows, id) = Listed(rows', id)
      BY <1>3, <3>1, ListedSame
    <3>3. QED
      BY <1>1, <3>2 DEF DurableStatus
  <2>3. QED
    BY <2>1, <2>2
<1>6. DurableStatus' = [id \in Ids |-> IF id \in S THEN "retired" ELSE DurableStatus[id]]
  BY <1>4, <1>5 DEF DurableStatus
<1>7. QED
  BY <1>4, <1>6 DEF Ledger!Next, Ledger!Retire

\* Every step of the history is a step of the ledger or invisible in it.
LEMMA LedgerStep == TypeOK /\ WriterInv /\ RowsInv /\ PlanInv /\ RowsInv' /\ [Next]_vars => [Ledger!Next]_DurableStatus
<1> SUFFICES ASSUME TypeOK, WriterInv, RowsInv, PlanInv, RowsInv', [Next]_vars PROVE [Ledger!Next]_DurableStatus
  OBVIOUS
<1>1. ASSUME NEW h \in Helpers, Boot(h) PROVE [Ledger!Next]_DurableStatus
  BY <1>1, StatusStutters DEF Boot, disk, ghost
<1>2. ASSUME NEW h \in Helpers, Crash(h) PROVE [Ledger!Next]_DurableStatus
  BY <1>2, StatusStutters DEF Crash, disk, ghost
<1>3. ASSUME NEW h \in Helpers, NEW id \in Ids, NEW status \in Status, NEW at \in Times,
             PutBegin(h, id, status, at)
      PROVE  [Ledger!Next]_DurableStatus
  BY <1>3, StatusStutters DEF PutBegin, disk, ghost
<1>4. ASSUME NEW h \in Helpers, NEW id \in Ids, PutRejected(h, id) PROVE [Ledger!Next]_DurableStatus
  BY <1>4, StatusStutters DEF PutRejected, disk, ghost
<1>5. ASSUME NEW h \in Helpers, PutFile(h) PROVE [Ledger!Next]_DurableStatus
  BY <1>5, StatusStutters DEF PutFile, disk, ghost
<1>6. ASSUME NEW h \in Helpers, PutFileFails(h) PROVE [Ledger!Next]_DurableStatus
  BY <1>6, StatusStutters DEF PutFileFails, PutReturns, disk, ghost
<1>7. ASSUME NEW h \in Helpers, PutLock(h) PROVE [Ledger!Next]_DurableStatus
  BY <1>7, StatusStutters DEF PutLock, disk, ghost
<1>8. ASSUME NEW h \in Helpers, PutLockTimeout(h) PROVE [Ledger!Next]_DurableStatus
  BY <1>8, StatusStutters DEF PutLockTimeout, PutReturns, disk, ghost
<1>9. ASSUME NEW h \in Helpers, PutOpen(h) PROVE [Ledger!Next]_DurableStatus
  BY <1>9, StatusStutters DEF PutOpen, disk, ghost
<1>10. ASSUME NEW h \in Helpers, PutAppend(h) PROVE [Ledger!Next]_DurableStatus
  BY <1>10, AppendIsStartOrFinish
<1>11. ASSUME NEW h \in Helpers, PutAppendFails(h) PROVE [Ledger!Next]_DurableStatus
  BY <1>11, StatusStutters DEF PutAppendFails, PutReturns, disk, ghost
<1>12. ASSUME NEW h \in Helpers, PutAppendTorn(h) PROVE [Ledger!Next]_DurableStatus
  BY <1>12, StatusStutters DEF PutAppendTorn, PutReturns, disk, ghost
<1>13. ASSUME NEW h \in Helpers, CleanupBegin(h) PROVE [Ledger!Next]_DurableStatus
  BY <1>13, StatusStutters DEF CleanupBegin, disk, ghost
<1>14. ASSUME NEW h \in Helpers, CleanupLock(h) PROVE [Ledger!Next]_DurableStatus
  BY <1>14, StatusStutters DEF CleanupLock, disk, ghost
<1>15. ASSUME NEW h \in Helpers, CleanupLockTimeout(h) PROVE [Ledger!Next]_DurableStatus
  BY <1>15, StatusStutters DEF CleanupLockTimeout, After, disk, ghost
<1>16. ASSUME NEW h \in Helpers, CleanupDrop(h) PROVE [Ledger!Next]_DurableStatus
  BY <1>16, DropStutters
<1>17. ASSUME NEW h \in Helpers, CleanupUnreadable(h) PROVE [Ledger!Next]_DurableStatus
  BY <1>17, StatusStutters DEF CleanupUnreadable, After, disk, ghost
<1>18. ASSUME NEW h \in Helpers, CleanupRewrite(h) PROVE [Ledger!Next]_DurableStatus
  BY <1>18, RewriteIsRetire
<1>19. ASSUME NEW h \in Helpers, CleanupRewriteFails(h) PROVE [Ledger!Next]_DurableStatus
  BY <1>19, StatusStutters DEF CleanupRewriteFails, After, disk, ghost
<1>20. ASSUME NEW h \in Helpers, NEW id \in Ids, GetCached(h, id) PROVE [Ledger!Next]_DurableStatus
  BY <1>20, StatusStutters DEF GetCached, MayQuery, Answer, GoToDisk, GetUnchanged, disk, ghost
<1>21. ASSUME NEW h \in Helpers, GetIndex(h) PROVE [Ledger!Next]_DurableStatus
  BY <1>21, StatusStutters DEF GetIndex, Answer, GetUnchanged, disk, ghost
<1>22. ASSUME NEW h \in Helpers, GetFile(h) PROVE [Ledger!Next]_DurableStatus
  BY <1>22, StatusStutters DEF GetFile, Answer, GetUnchanged, disk, ghost
<1>23. ASSUME NEW h \in Helpers, GetStore(h) PROVE [Ledger!Next]_DurableStatus
  BY <1>23, StatusStutters DEF GetStore, Answer, GetUnchanged, disk, ghost
<1>24. CASE UNCHANGED vars
  BY <1>24, StatusStutters DEF vars, disk, ghost
<1>25. QED
  BY <1>1, <1>2, <1>3, <1>4, <1>5, <1>6, <1>7, <1>8, <1>9, <1>10, <1>11, <1>12, <1>13,
     <1>14, <1>15, <1>16, <1>17, <1>18, <1>19, <1>20, <1>21, <1>22, <1>23, <1>24 DEF
     Next, PutStep, CleanupStep, GetStep

\* Seen through DurableStatus, the history implements CommandLedger: a command's
\* status goes from running to terminal and never back, and leaves only by retention,
\* through appends, rewrites, failures and crashes of any number of helpers.
THEOREM LedgerImplemented == Spec => ImplementsLedger
<1>1. Init => Ledger!Init
  <2> SUFFICES ASSUME Init PROVE Ledger!Init
    OBVIOUS
  <2>1. \A id \in Ids : Listed(rows, id) = "none"
    BY DEF Init, Listed, LatestEntries
  <2>2. DurableStatus = [id \in Ids |-> "unborn"]
    BY <2>1 DEF Init, DurableStatus
  <2>3. QED
    BY <2>2 DEF Ledger!Init
<1>2. IndInv /\ IndInv' /\ [Next]_vars => [Ledger!Next]_DurableStatus
  BY LedgerStep DEF IndInv
<1>3. QED
  BY <1>1, <1>2, Inductive, PTL DEF Spec, ImplementsLedger, Ledger!Spec
=============================================================================
